----------------------------- MODULE Aggregation -----------------------------
(***************************************************************************)
(* internal/api/http.go, handleListAllTools: a request for the tools of    *)
(* all servers calls the manager (module Manager, which this one extends)  *)
(* again and again while other handlers register, start, stop and remove   *)
(* servers: ListServers, then for every name GetClient, IsRunning, Start   *)
(* if it does not run, IsRunning once more, and ListTools.  Each of these  *)
(* is atomic at most, the request is not.                                  *)
(*                                                                         *)
(* stage says where a request is.  Its calls of the manager and its starts *)
(* are steps of Manager: ListServers the operation "list", GetClient and   *)
(* Start the operation "start".  Refresh, which comes first, is in         *)
(* Reconciler; that the context of the start is cancelled right after it   *)
(* is in StdioClient.                                                      *)
(*                                                                         *)
(* Operators named M_... are plausible bugs of the definition they         *)
(* precede; no specification uses them, the project's mutation runs do.    *)
(***************************************************************************)
EXTENDS Manager

CONSTANT Requests  \* the goroutines that serve GET /api/tools

ASSUME RequestsAssumption == Requests \subseteq Threads /\ {"list", "start"} \subseteq Ops

VARIABLES
    stage,           \* where each request is
    left,            \* names of the list that it has not treated yet
    server, client,  \* the name it treats, and the client it got for it
    tools,           \* names whose tools it has got
    warnings,        \* names it warns of
    steady,          \* history: names registered ever since it came
    failed,          \* history: names it had a reason to warn of
    raced            \* history: names another goroutine started between its
                     \* IsRunning and its Start

item == <<server, client>>
answer == <<tools, warnings, failed>>
aggVars == <<vars, stage, left, item, answer, steady, raced>>

Registered == {n \in Names : clients[n] # 0}

AggInit ==
    /\ Init
    /\ stage = [t \in Requests |-> "none"]
    /\ server = [t \in Requests |-> AName]
    /\ client = [t \in Requests |-> 0]
    /\ left = [t \in Requests |-> {}]
    /\ tools = [t \in Requests |-> {}]
    /\ warnings = [t \in Requests |-> {}]
    /\ steady = [t \in Requests |-> {}]
    /\ failed = [t \in Requests |-> {}]
    /\ raced = [t \in Requests |-> {}]

Reach(t, s) == stage' = [stage EXCEPT ![t] = s]

\* The request turns to its next name: this one has its tools, or a warning.
NextName(t) ==
    /\ Reach(t, "next")
    /\ server' = [server EXCEPT ![t] = AName]
    /\ client' = [client EXCEPT ![t] = 0]
Report(t) ==
    /\ NextName(t)
    /\ tools' = [tools EXCEPT ![t] = @ \union {server[t]}]
    /\ UNCHANGED <<warnings, failed>>
WarnOfNothing(t) ==
    /\ NextName(t)
    /\ warnings' = [warnings EXCEPT ![t] = @ \union {server[t]}]
    /\ UNCHANGED <<tools, failed>>
Warn(t) ==
    /\ NextName(t)
    /\ warnings' = [warnings EXCEPT ![t] = @ \union {server[t]}]
    /\ failed' = [failed EXCEPT ![t] = @ \union {server[t]}]
    /\ UNCHANGED tools

-----------------------------------------------------------------------------
(* The list of servers.                                                    *)

Request(t) ==
    /\ stage[t] = "none"
    /\ Begin(t) /\ op'[t] = "list"
    /\ Reach(t, "listing")
    /\ steady' = [steady EXCEPT ![t] = Registered]
    /\ UNCHANGED <<left, item, answer, raced>>

\* ListServers, with the manager's lock for reading.
List(t) ==
    /\ stage[t] = "listing"
    /\ \/ /\ RLock(t)
          /\ left' = [left EXCEPT ![t] = Registered]
          /\ UNCHANGED stage
       \/ /\ \E c \in Clients : Visit(t, c)
          /\ UNCHANGED <<stage, left>>
       \/ /\ EndVisit(t)
          /\ Reach(t, "next")
          /\ UNCHANGED left
    /\ UNCHANGED <<item, answer, steady, raced>>

-----------------------------------------------------------------------------
(* One server.                                                             *)

Take(t) ==
    /\ stage[t] = "next"
    /\ Begin(t) /\ op'[t] = "start" /\ name'[t] \in left[t]
    /\ left' = [left EXCEPT ![t] = @ \ {name'[t]}]
    /\ server' = [server EXCEPT ![t] = name'[t]]
    /\ Reach(t, "taking")
    /\ UNCHANGED <<client, answer, steady, raced>>

GetClient(t) ==
    /\ stage[t] = "taking"
    /\ \/ RLock(t) /\ UNCHANGED <<stage, item, answer>>
       \/ /\ LookUp(t)
          /\ IF server[t] \in Registered
             THEN /\ Reach(t, "asking")
                  /\ client' = [client EXCEPT ![t] = clients[server[t]]]
                  /\ UNCHANGED <<server, answer>>
             ELSE Warn(t)
    /\ UNCHANGED <<left, steady, raced>>

M_AskNever(t) ==
    /\ stage[t] = "asking"
    /\ Reach(t, "starting")
    /\ UNCHANGED <<vars, left, item, answer, steady, raced>>

\* IsRunning.  A client that runs is not started: the Manager's operation
\* "start" is over.
Ask(t) ==
    /\ stage[t] = "asking" /\ held[client[t]] = None
    /\ IF isRunning[client[t]]
       THEN StartLock(t) /\ Reach(t, "confirming")
       ELSE Reach(t, "starting") /\ UNCHANGED vars
    /\ UNCHANGED <<left, item, answer, steady, raced>>

\* Start refuses if another goroutine was faster: the client runs, and the
\* request warns of it.
LazyStart(t) ==
    /\ stage[t] = "starting" /\ StartLock(t)
    /\ IF isRunning[client[t]] THEN WarnOfNothing(t) ELSE UNCHANGED <<stage, item, answer>>
    /\ UNCHANGED <<left, steady, raced>>

\* The client of t runs: the others that have asked and not started yet will
\* be refused.
Overtakes(t) ==
    raced' = [q \in Requests |->
        IF stage[q] = "starting" /\ pc[q] = "start" /\ hand[q] = hand[t]
        THEN raced[q] \union {server[q]}
        ELSE raced[q]]

EndStart(t) ==
    /\ stage[t] = "starting"
    /\ \/ HandshakeOK(t) /\ Overtakes(t) /\ Reach(t, "confirming") /\ UNCHANGED <<item, answer>>
       \/ SpawnFails(t) /\ Warn(t) /\ UNCHANGED raced
       \/ HandshakeFails(t) /\ UNCHANGED <<stage, item, answer, raced>>
    /\ UNCHANGED <<left, steady>>

M_ConfirmSilent(t) ==
    /\ stage[t] = "confirming" /\ held[client[t]] = None
    /\ IF isRunning[client[t]]
       THEN Reach(t, "calling") /\ UNCHANGED item
       ELSE NextName(t)
    /\ UNCHANGED <<vars, left, answer, steady, raced>>

\* IsRunning once more: somebody may have stopped the client.
Confirm(t) ==
    /\ stage[t] = "confirming" /\ held[client[t]] = None
    /\ IF isRunning[client[t]]
       THEN Reach(t, "calling") /\ UNCHANGED <<item, answer>>
       ELSE Warn(t)
    /\ UNCHANGED <<vars, left, steady, raced>>

\* ListTools asks IsRunning for itself, and may fail in many ways.
ListTools(t) ==
    /\ stage[t] = "calling" /\ held[client[t]] = None
    /\ (Report(t) /\ isRunning[client[t]]) \/ Warn(t)
    /\ UNCHANGED <<vars, left, steady, raced>>

\* Nobody answers the call.
ListToolsHangs(t) ==
    /\ stage[t] = "calling" /\ held[client[t]] = None /\ isRunning[client[t]]
    /\ Reach(t, "hung")
    /\ UNCHANGED <<vars, left, item, answer, steady, raced>>

Answered(t) == stage[t] = "next" /\ left[t] = {}

\* The answer is sent; the request is over.
Answer(t) ==
    /\ Answered(t)
    /\ Reach(t, "none")
    /\ tools' = [tools EXCEPT ![t] = {}]
    /\ warnings' = [warnings EXCEPT ![t] = {}]
    /\ failed' = [failed EXCEPT ![t] = {}]
    /\ raced' = [raced EXCEPT ![t] = {}]
    /\ steady' = [steady EXCEPT ![t] = {}]
    /\ UNCHANGED <<vars, left, item>>

-----------------------------------------------------------------------------
(* The other handlers.                                                     *)

Other(t) ==
    /\ t \notin Requests
    /\ \/ (Begin(t) \/ Enter(t) \/ Step(t) \/ SpawnFails(t) \/ HandshakeFails(t)) /\ UNCHANGED raced
       \/ HandshakeOK(t) /\ Overtakes(t)
    /\ steady' = [q \in Requests |-> steady[q] \intersect {n \in Names : clients'[n] # 0}]
    /\ UNCHANGED <<stage, left, item, answer>>

\* What a request does once it has come.
Treat(t) ==
    \/ List(t) \/ Take(t) \/ GetClient(t) \/ Ask(t) \/ LazyStart(t) \/ EndStart(t)
    \/ Confirm(t) \/ ListTools(t) \/ ListToolsHangs(t) \/ Answer(t)

AggNext ==
    \/ \E t \in Requests : Request(t) \/ Treat(t)
    \/ \E t \in Threads : Other(t)

AggSpec == AggInit /\ [][AggNext]_aggVars

\* As in Manager.
FairAggSpec ==
    /\ AggSpec
    /\ \A t \in Requests : SF_aggVars(Treat(t))
    /\ \A t \in Threads : SF_aggVars(pc[t] # "idle" /\ Other(t))

-----------------------------------------------------------------------------
(* Properties.                                                             *)

Stages == {"none", "listing", "next", "taking", "asking", "starting", "confirming", "calling", "hung"}

\* Every variable keeps its type.
AggTypeOK ==
    /\ Types
    /\ stage \in [Requests -> Stages]
    /\ left \in [Requests -> SUBSET Names]
    /\ server \in [Requests -> Names]
    /\ client \in [Requests -> 0 .. made]
    /\ tools \in [Requests -> SUBSET Names]
    /\ warnings \in [Requests -> SUBSET Names]
    /\ failed \in [Requests -> SUBSET Names]
    /\ steady \in [Requests -> SUBSET Names]
    /\ raced \in [Requests -> SUBSET Names]

\* http.go:533-534: a server that was registered all the time has its tools in
\* the answer or a warning, although the list, the clients and their tools are
\* read in separate steps between which others stop or replace them.
AllAccounted ==
    \A t \in Requests : Answered(t) => steady[t] \subseteq tools[t] \union warnings[t]

\* A warning without a failure only comes of a race: another goroutine has
\* started the server between the request's IsRunning and its Start.
FalseWarningsAreRaces ==
    \A t \in Requests : warnings[t] \ failed[t] \subseteq raced[t]

\* The requests use the manager as Manager says: their sequence of calls is
\* one of its behaviours.
ImplementsManager == Spec

\* Every request is answered, whatever the other handlers do, unless a call
\* hangs or a failed handshake has locked a client for ever.
EveryRequestAnswered ==
    \A t \in Requests :
        stage[t] = "listing" ~> ( \/ stage[t] \in {"none", "hung"}
                                  \/ \E u \in Threads : pc[u] = "stuck" )
=============================================================================
