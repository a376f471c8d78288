------------------------------ MODULE Manager ------------------------------
(***************************************************************************)
(* internal/mcp/manager.go: the map of clients, its RWMutex, and the       *)
(* clients behind it as far as the manager depends on them: each has a     *)
(* mutex of its own, which a stdio client keeps during the whole handshake *)
(* of Start (module StdioClient has the rest of it).                       *)
(*                                                                         *)
(* RegisterServer, UnregisterServer, ListServers and StopAll keep the      *)
(* manager's lock to their end, and the last three wait for the mutexes of *)
(* clients under it; StartServer and StopServer release it after the       *)
(* lookup and then work on a client that may be unregistered already.      *)
(*                                                                         *)
(* sync.RWMutex: a writer that calls Lock first excludes other writers and *)
(* new readers, then waits for the readers that are inside.                *)
(*                                                                         *)
(* Operators named M_... are plausible bugs of the definition they         *)
(* precede; no specification uses them, the project's mutation runs do.    *)
(***************************************************************************)
EXTENDS Integers, FiniteSets

CONSTANTS
    Threads,     \* goroutines that call the manager
    Names,       \* servers
    MaxClients,  \* bound: clients that are created
    Ops,         \* operations the threads perform, see OpNames
    Failing      \* servers that may fail the handshake after they were spawned

None == "none"
Writers == {"register", "unregister"}
Walkers == {"list", "stopAll"}
OpNames == Writers \union Walkers \union {"start", "stop"}

ASSUME ConstantsAssumption ==
    /\ None \notin Threads /\ Names # {}
    /\ MaxClients \in Nat
    /\ Ops \subseteq OpNames
    /\ Failing \subseteq Names

Clients == 1 .. MaxClients

VARIABLES
    clients,     \* Manager.clients: the client of each name, 0 if none
    made,        \* clients created so far
    writer,      \* who holds Manager.mu for writing, or waits for its readers
    readers,     \* who holds it for reading
    held,        \* who holds Client.mu of each client
    isRunning,   \* Client.isRunning of each client
    pc, op, name,
    hand,        \* the client a thread works on
    todo,        \* the clients it still has to visit
    late         \* history: clients a Start began on that UnregisterServer had
                 \* looked at for the last time

managerVars == <<clients, made, writer, readers>>
clientVars == <<held, isRunning, late>>
locals == <<op, name, hand, todo>>
vars == <<managerVars, clientVars, pc, locals>>

Mapped == {clients[m] : m \in Names} \ {0}
AName == CHOOSE n \in Names : TRUE

Init ==
    /\ clients = [n \in Names |-> 0]
    /\ made = 0
    /\ writer = None
    /\ readers = {}
    /\ held = [c \in Clients |-> None]
    /\ isRunning = [c \in Clients |-> FALSE]
    /\ pc = [t \in Threads |-> "idle"]
    /\ op = [t \in Threads |-> "list"]
    /\ name = [t \in Threads |-> AName]
    /\ hand = [t \in Threads |-> 0]
    /\ todo = [t \in Threads |-> {}]
    /\ late = {}

Goto(t, label) == pc' = [pc EXCEPT ![t] = label]
GoOn(t, label) == Goto(t, label) /\ UNCHANGED locals
TakeInHand(t, c) == hand' = [hand EXCEPT ![t] = c]

\* The call returns: its locals are gone.
Return(t) ==
    /\ Goto(t, "idle")
    /\ op' = [op EXCEPT ![t] = "list"]
    /\ name' = [name EXCEPT ![t] = AName]
    /\ TakeInHand(t, 0)
    /\ todo' = [todo EXCEPT ![t] = {}]

Registering == {t \in Threads : op[t] = "register"}

Begin(t) ==
    /\ pc[t] = "idle"
    /\ \E o \in Ops, n \in Names :
         /\ o = "register" => made + Cardinality(Registering) < MaxClients
         /\ op' = [op EXCEPT ![t] = o]
         /\ name' = [name EXCEPT ![t] = n]
         /\ Goto(t, IF o \in Writers THEN "lock" ELSE "rlock")
    /\ UNCHANGED <<managerVars, clientVars, hand, todo>>

-----------------------------------------------------------------------------
(* Manager.mu.                                                             *)

RLock(t) ==
    /\ pc[t] = "rlock" /\ writer = None
    /\ readers' = readers \union {t}
    /\ IF op[t] \in Walkers
       THEN Goto(t, "visiting") /\ todo' = [todo EXCEPT ![t] = Mapped]
       ELSE Goto(t, "looking") /\ UNCHANGED todo
    /\ UNCHANGED <<clients, made, writer, clientVars, op, name, hand>>

RUnlock(t) == readers' = readers \ {t} /\ UNCHANGED <<clients, made, writer>>

M_AnnounceShared(t) ==
    /\ pc[t] = "lock"
    /\ writer' = t
    /\ GoOn(t, "draining")
    /\ UNCHANGED <<clients, made, readers, clientVars>>

Announce(t) ==
    /\ pc[t] = "lock" /\ writer = None
    /\ writer' = t
    /\ GoOn(t, "draining")
    /\ UNCHANGED <<clients, made, readers, clientVars>>

Drained(t) ==
    /\ pc[t] = "draining" /\ readers = {}
    /\ GoOn(t, IF op[t] = "register" THEN "checking" ELSE "removing")
    /\ UNCHANGED <<managerVars, clientVars>>

Unlock == writer' = None /\ UNCHANGED readers

-----------------------------------------------------------------------------
(* RegisterServer and UnregisterServer.                                    *)

M_CheckFreeKeepsLock(t) ==
    /\ pc[t] = "checking"
    /\ \/ Return(t) /\ UNCHANGED <<writer, readers>>
       \/ clients[name[t]] = 0 /\ GoOn(t, "inserting") /\ UNCHANGED <<writer, readers>>
    /\ UNCHANGED <<clients, made, clientVars>>

\* A taken name is refused; so is a configuration for http without a base URL.
CheckFree(t) ==
    /\ pc[t] = "checking"
    /\ \/ Return(t) /\ Unlock
       \/ clients[name[t]] = 0 /\ GoOn(t, "inserting") /\ UNCHANGED <<writer, readers>>
    /\ UNCHANGED <<clients, made, clientVars>>

Insert(t) ==
    /\ pc[t] = "inserting" /\ made < MaxClients
    /\ made' = made + 1
    /\ clients' = [clients EXCEPT ![name[t]] = made + 1]
    /\ Return(t) /\ Unlock
    /\ UNCHANGED clientVars

M_FindKeepsLock(t) ==
    /\ pc[t] = "removing"
    /\ LET c == clients[name[t]] IN
         IF c = 0
         THEN Return(t) /\ UNCHANGED <<writer, readers>>
         ELSE /\ Goto(t, "probing") /\ TakeInHand(t, c)
              /\ UNCHANGED <<op, name, todo, writer, readers>>
    /\ UNCHANGED <<clients, made, clientVars>>

Find(t) ==
    /\ pc[t] = "removing"
    /\ LET c == clients[name[t]] IN
         IF c = 0
         THEN Return(t) /\ Unlock
         ELSE /\ Goto(t, "probing") /\ TakeInHand(t, c)
              /\ UNCHANGED <<op, name, todo, writer, readers>>
    /\ UNCHANGED <<clients, made, clientVars>>

\* client.IsRunning, once Start has released the client's mutex.
Probe(t) ==
    /\ pc[t] = "probing" /\ held[hand[t]] = None
    /\ GoOn(t, IF isRunning[hand[t]] THEN "halting" ELSE "deleting")
    /\ UNCHANGED <<managerVars, clientVars>>

M_HaltForgets(t) ==
    /\ pc[t] = "halting" /\ held[hand[t]] = None
    /\ IF op[t] = "unregister" THEN GoOn(t, "deleting") ELSE GoOn(t, "visiting")
    /\ UNCHANGED <<managerVars, clientVars>>

M_HaltEndsStopAll(t) ==
    /\ pc[t] = "halting" /\ held[hand[t]] = None
    /\ isRunning' = [isRunning EXCEPT ![hand[t]] = FALSE]
    /\ IF op[t] = "unregister"
       THEN GoOn(t, "deleting") /\ UNCHANGED managerVars
       ELSE Return(t) /\ RUnlock(t)
    /\ UNCHANGED <<held, late>>

\* client.Stop, for UnregisterServer and StopAll.
Halt(t) ==
    /\ pc[t] = "halting" /\ held[hand[t]] = None
    /\ isRunning' = [isRunning EXCEPT ![hand[t]] = FALSE]
    /\ GoOn(t, IF op[t] = "unregister" THEN "deleting" ELSE "visiting")
    /\ UNCHANGED <<managerVars, held, late>>

Delete(t) ==
    /\ pc[t] = "deleting"
    /\ clients' = [clients EXCEPT ![name[t]] = 0]
    /\ Return(t) /\ Unlock
    /\ UNCHANGED <<made, clientVars>>

-----------------------------------------------------------------------------
(* ListServers and StopAll visit the clients under the read lock.          *)

M_VisitIgnoresLock(t, c) ==
    /\ pc[t] = "visiting" /\ c \in todo[t]
    /\ todo' = [todo EXCEPT ![t] = @ \ {c}]
    /\ IF op[t] = "stopAll" /\ isRunning[c]
       THEN Goto(t, "halting") /\ TakeInHand(t, c)
       ELSE UNCHANGED <<pc, hand>>
    /\ UNCHANGED <<managerVars, clientVars, op, name>>

Visit(t, c) ==
    /\ pc[t] = "visiting" /\ c \in todo[t] /\ held[c] = None
    /\ todo' = [todo EXCEPT ![t] = @ \ {c}]
    /\ IF op[t] = "stopAll" /\ isRunning[c]
       THEN Goto(t, "halting") /\ TakeInHand(t, c)
       ELSE UNCHANGED <<pc, hand>>
    /\ UNCHANGED <<managerVars, clientVars, op, name>>

EndVisit(t) ==
    /\ pc[t] = "visiting" /\ todo[t] = {}
    /\ RUnlock(t) /\ Return(t)
    /\ UNCHANGED clientVars

-----------------------------------------------------------------------------
(* StartServer and StopServer release the manager's lock after the lookup. *)

M_LookUpUnchecked(t) ==
    /\ pc[t] = "looking"
    /\ RUnlock(t)
    /\ Goto(t, op[t]) /\ TakeInHand(t, clients[name[t]])
    /\ UNCHANGED <<clientVars, op, name, todo>>

LookUp(t) ==
    /\ pc[t] = "looking"
    /\ RUnlock(t)
    /\ LET c == clients[name[t]] IN
         IF c = 0
         THEN Return(t)
         ELSE Goto(t, op[t]) /\ TakeInHand(t, c) /\ UNCHANGED <<op, name, todo>>
    /\ UNCHANGED clientVars

Stop(t) ==
    /\ pc[t] = "stop" /\ held[hand[t]] = None
    /\ isRunning' = [isRunning EXCEPT ![hand[t]] = FALSE]
    /\ Return(t)
    /\ UNCHANGED <<managerVars, held, late>>

\* UnregisterServer has looked at c for the last time.
PastProbe(c) ==
    \/ c \notin Mapped
    \/ \E t \in Threads : pc[t] = "deleting" /\ hand[t] = c

M_StartLockAgain(t) ==
    /\ pc[t] = "start" /\ held[hand[t]] = None
    /\ GoOn(t, "handshake")
    /\ held' = [held EXCEPT ![hand[t]] = t]
    /\ late' = IF PastProbe(hand[t]) THEN late \union {hand[t]} ELSE late
    /\ UNCHANGED <<managerVars, isRunning>>

\* client.Start up to the handshake.
StartLock(t) ==
    /\ pc[t] = "start" /\ held[hand[t]] = None
    /\ IF isRunning[hand[t]]
       THEN Return(t) /\ UNCHANGED <<held, late>>
       ELSE /\ GoOn(t, "handshake")
            /\ held' = [held EXCEPT ![hand[t]] = t]
            /\ late' = IF PastProbe(hand[t]) THEN late \union {hand[t]} ELSE late
    /\ UNCHANGED <<managerVars, isRunning>>

HandshakeOK(t) ==
    /\ pc[t] = "handshake"
    /\ isRunning' = [isRunning EXCEPT ![hand[t]] = TRUE]
    /\ held' = [held EXCEPT ![hand[t]] = None]
    /\ Return(t)
    /\ UNCHANGED <<managerVars, late>>

\* The process could not be spawned.
SpawnFails(t) ==
    /\ pc[t] = "handshake"
    /\ held' = [held EXCEPT ![hand[t]] = None]
    /\ Return(t)
    /\ UNCHANGED <<managerVars, isRunning, late>>

\* initialize failed: Start calls Stop, which wants the mutex Start holds.
HandshakeFails(t) ==
    /\ pc[t] = "handshake" /\ name[t] \in Failing
    /\ GoOn(t, "stuck")
    /\ UNCHANGED <<managerVars, clientVars>>

-----------------------------------------------------------------------------

\* What a call does by itself, with the locks it holds.
Step(t) ==
    \/ Drained(t) \/ CheckFree(t) \/ Insert(t) \/ Find(t) \/ Probe(t) \/ Halt(t) \/ Delete(t)
    \/ EndVisit(t) \/ LookUp(t) \/ Stop(t) \/ StartLock(t)
    \/ \E c \in Clients : Visit(t, c)

Enter(t) == RLock(t) \/ Announce(t)

Handshake(t) == HandshakeOK(t) \/ SpawnFails(t) \/ HandshakeFails(t)

Next == \E t \in Threads : Begin(t) \/ Enter(t) \/ Step(t) \/ Handshake(t)

Spec == Init /\ [][Next]_vars

\* The goroutines run, sync.RWMutex starves nobody, and every handshake ends,
\* in one way or another.
FairSpec == Spec /\ \A t \in Threads : SF_vars(Enter(t) \/ Step(t) \/ Handshake(t))

-----------------------------------------------------------------------------
(* Properties.                                                             *)

Labels == {"idle", "lock", "rlock", "draining", "checking", "inserting", "removing", "probing",
           "halting", "deleting", "visiting", "looking", "start", "stop", "handshake", "stuck"}

\* What each variable may hold.
Types ==
    /\ clients \in [Names -> 0 .. made]
    /\ made \in 0 .. MaxClients
    /\ writer \in Threads \union {None}
    /\ readers \subseteq Threads
    /\ held \in [Clients -> Threads \union {None}]
    /\ isRunning \in [Clients -> BOOLEAN]
    /\ pc \in [Threads -> Labels]
    /\ op \in [Threads -> OpNames]
    /\ name \in [Threads -> Names]
    /\ hand \in [Threads -> 0 .. made]
    /\ todo \in [Threads -> SUBSET (1 .. made)]
    /\ late \subseteq 1 .. made

\* Where a thread calls a method of a client.
Working == {"probing", "halting", "deleting", "start", "stop", "handshake"}

\* Every variable keeps its type, and no method is called on a nil client
\* although clients are unregistered while calls are under way.
TypeOK == Types /\ \A t \in Threads : pc[t] \in Working => hand[t] # 0

\* The map of servers is a registry, although a registration checks the name
\* in one step and inserts the client in another, and a removal waits for the
\* client between its lookup and its delete.
Map == INSTANCE Registry WITH retired <- (1 .. made) \ Mapped
ImplementsRegistry == Map!Spec

\* Each client is one of ClientIface's, which is what StdioClient implements:
\* nobody stops it or learns whether it runs while a Start is in its handshake.
Iface(c) == INSTANCE ClientIface WITH starter <- held[c], running <- isRunning[c], NoOne <- None
ImplementsClientIface ==
    /\ \A c \in Clients : Iface(c)!Init
    /\ [][\A c \in Clients : [Iface(c)!Next]_(Iface(c)!vars)]_<<held, isRunning>>

\* UnregisterServer leaves a running process behind only if a StartServer that
\* had looked the client up before began to start it after UnregisterServer had
\* looked at it for the last time; any other Start is waited for and undone.
OrphansAreLate ==
    \A c \in 1 .. made : isRunning[c] /\ c \notin Mapped => c \in late

\* t wants a lock that u has, or has announced that it wants.  (Who is stuck
\* waits for nobody else.)
WaitsFor(t, u) ==
    \/ pc[t] \in {"lock", "rlock"} /\ writer = u
    \/ pc[t] = "draining" /\ u \in readers
    \/ pc[t] \in {"probing", "halting", "start", "stop"} /\ held[hand[t]] = u
    \/ pc[t] = "visiting" /\ \E c \in todo[t] : held[c] = u

\* How much a thread may still wait for: the manager's mutex before its readers
\* before the mutex of a client; a thread at 0 waits for no other.
Rank(t) ==
    CASE pc[t] = "idle" -> 4
      [] pc[t] \in {"lock", "rlock"} -> 3
      [] pc[t] = "draining" -> 2
      [] pc[t] \in {"probing", "halting", "visiting", "start", "stop"} -> 1
      [] OTHER -> 0

\* Whoever waits for a lock waits for a thread further down the lock order.  So
\* chains of waiting threads have no cycle and end at one that waits for no
\* other, and a call that returned has left no lock behind: an idle thread is
\* not waited for.
LockOrder == \A t, u \in Threads : WaitsFor(t, u) => Rank(u) < Rank(t)

\* Every call of the manager returns, in whatever order the calls come, unless
\* a failed handshake has locked a client for ever: manager and client mutexes
\* are always taken in that order, and the manager's is always released.
EveryCallReturns ==
    \A t \in Threads :
        pc[t] # "idle" ~> (pc[t] = "idle" \/ \E u \in Threads : pc[u] = "stuck")
=============================================================================
