----------------------------- MODULE HTTPClient -----------------------------
(***************************************************************************)
(* internal/mcp/http_client.go: one client of a Streamable HTTP server,    *)
(* shared by the manager's probe, the API handlers and the reconciler.     *)
(* Its mutex protects single critical sections only, each an action here:  *)
(* a handshake, a call and the discovery that follows a 401 take several,  *)
(* and those of different goroutines interleave.  The MCP server, the      *)
(* authorization server and the token endpoint are the environment.        *)
(*                                                                         *)
(* serverInfo, sessionID and negotiatedProtocolVersion are written and     *)
(* read together, so one number, the session, stands for the three.        *)
(*                                                                         *)
(* Operators named M_... are plausible bugs of the definition they         *)
(* precede; no specification uses them, the project's mutation runs do.    *)
(***************************************************************************)
EXTENDS Integers, FiniteSets

CONSTANTS
    Threads,      \* goroutines that use the client
    MaxSessions,  \* bound: sessions the server opens
    MaxClients,   \* bound: clients the authorization server registers
    Ops           \* operations the threads perform, see OpNames

\* "start", "stop" and "call" are the methods of the client; "dcr" is the
\* handler POST /servers/:name/register-client.
OpNames == {"start", "stop", "call", "dcr"}

ASSUME ConstantsAssumption ==
    /\ MaxSessions \in Nat /\ MaxClients \in Nat
    /\ Ops \subseteq OpNames

None == 0
Sessions == 1 .. MaxSessions
Clients == 1 .. MaxClients

VARIABLES
    isRunning,      \* HTTPClient.isRunning
    session,        \* the session of sessionID, version and serverInfo
    authMetadata,   \* "none", "url" (only its location) or "full"
    dynamicClientID,
    pc, op,         \* where each thread is, in which operation
    hdr,            \* the session a request carries or a handshake obtained
    found,          \* metadata or client a discovery has obtained so far
    auth,           \* whether the request a thread is to send has its token:
                    \* "none", "fetching" (from the token endpoint) or "set"
    opened,         \* sessions the server opened
    notified,       \* sessions that got notifications/initialized
    lost,           \* sessions of which a notification was lost
    registered,     \* clients the authorization server registered
    dcrFailed       \* history: some registration failed

clientVars == <<isRunning, session, authMetadata, dynamicClientID>>
threadVars == <<pc, op, hdr, found, auth>>
serverVars == <<opened, notified, lost, registered>>
vars == <<clientVars, threadVars, serverVars, dcrFailed>>

NothingFound == [metadata |-> "none", client |-> None]

Init ==
    /\ isRunning = FALSE
    /\ session = None
    /\ authMetadata = "none"
    /\ dynamicClientID = None
    /\ pc = [t \in Threads |-> "idle"]
    /\ op = [t \in Threads |-> "call"]
    /\ hdr = [t \in Threads |-> None]
    /\ found = [t \in Threads |-> NothingFound]
    /\ auth = [t \in Threads |-> "none"]
    /\ opened = 0
    /\ notified = {}
    /\ lost = {}
    /\ registered = 0
    /\ dcrFailed = FALSE

locals == <<op, hdr, found, auth>>

Goto(t, label) == pc' = [pc EXCEPT ![t] = label]
GoOn(t, label) == Goto(t, label) /\ UNCHANGED locals

\* The operation returns: its locals are gone.
Return(t) ==
    /\ Goto(t, "idle")
    /\ op' = [op EXCEPT ![t] = "call"]
    /\ hdr' = [hdr EXCEPT ![t] = None]
    /\ found' = [found EXCEPT ![t] = NothingFound]
    /\ auth' = [auth EXCEPT ![t] = "none"]

Begin(t) ==
    /\ pc[t] = "idle"
    /\ \E o \in Ops :
         /\ o = "start" => opened < MaxSessions
         /\ op' = [op EXCEPT ![t] = o]
         /\ Goto(t, o)
    /\ UNCHANGED <<clientVars, hdr, found, auth, serverVars, dcrFailed>>

-----------------------------------------------------------------------------
(* setAuthHeader, which every request to the MCP server goes through.  A    *)
(* TokenClient has a mutex, held while it fetches a token, and fetches it   *)
(* through a client of its own, which has no time-out and does not know the *)
(* context of the request.  The cached token may have expired at any time.  *)

Sending(t) == pc[t] \in {"initializing", "calling", "notifying"}

\* Without a provider, or with a static or a cached token, the header is there.
SetAuthHeader(t) ==
    /\ Sending(t) /\ auth[t] = "none"
    /\ \A u \in Threads : auth[u] # "fetching"
    /\ \E a \in {"fetching", "set"} : auth' = [auth EXCEPT ![t] = a]
    /\ UNCHANGED <<clientVars, pc, op, hdr, found, serverVars, dcrFailed>>

\* A token or an error: with an error the request goes out without a token.
TokenAnswered(t) ==
    /\ Sending(t) /\ auth[t] = "fetching"
    /\ auth' = [auth EXCEPT ![t] = "set"]
    /\ UNCHANGED <<clientVars, pc, op, hdr, found, serverVars, dcrFailed>>

Sent(t) == Sending(t) /\ auth[t] = "set"

-----------------------------------------------------------------------------
(* Start: the mutex is not held between the check and the last assignment. *)

CheckStart(t) ==
    /\ pc[t] = "start"
    /\ IF isRunning THEN Return(t) ELSE GoOn(t, "initializing")
    /\ UNCHANGED <<clientVars, serverVars, dcrFailed>>

\* The server opens a session and answers with it.
InitializeOK(t) ==
    /\ pc[t] = "initializing" /\ Sent(t) /\ opened < MaxSessions
    /\ opened' = opened + 1
    /\ hdr' = [hdr EXCEPT ![t] = opened + 1]
    /\ auth' = [auth EXCEPT ![t] = "none"]
    /\ Goto(t, "storing")
    /\ UNCHANGED <<clientVars, op, found, notified, lost, registered, dcrFailed>>

M_StoreSessionNotifiesOnce(t) ==
    /\ pc[t] = "storing"
    /\ session' = hdr[t]
    /\ GoOn(t, IF session = None THEN "notify" ELSE "finishing")
    /\ UNCHANGED <<isRunning, authMetadata, dynamicClientID, serverVars, dcrFailed>>

StoreSession(t) ==
    /\ pc[t] = "storing"
    /\ session' = hdr[t]
    /\ GoOn(t, "notify")
    /\ UNCHANGED <<isRunning, authMetadata, dynamicClientID, serverVars, dcrFailed>>

\* The notification carries the session the client has now, which may be the
\* one of another Start.
PrepareNotification(t) ==
    /\ pc[t] = "notify"
    /\ hdr' = [hdr EXCEPT ![t] = session]
    /\ Goto(t, "notifying")
    /\ UNCHANGED <<clientVars, op, found, auth, serverVars, dcrFailed>>

\* Fire and forget: Start goes on whether the server got it or not.
SendNotification(t) ==
    /\ pc[t] = "notifying" /\ Sent(t)
    /\ \/ notified' = notified \union {hdr[t]} /\ UNCHANGED lost
       \/ lost' = lost \union {hdr[t]} /\ UNCHANGED notified
    /\ hdr' = [hdr EXCEPT ![t] = None]
    /\ auth' = [auth EXCEPT ![t] = "none"]
    /\ Goto(t, "finishing")
    /\ UNCHANGED <<clientVars, op, found, opened, registered, dcrFailed>>

FinishStart(t) ==
    /\ pc[t] = "finishing"
    /\ isRunning' = TRUE
    /\ Return(t)
    /\ UNCHANGED <<session, authMetadata, dynamicClientID, serverVars, dcrFailed>>

-----------------------------------------------------------------------------
(* Stop and the calls.                                                     *)

Stop(t) ==
    /\ pc[t] = "stop"
    /\ isRunning' = FALSE
    /\ Return(t)
    /\ UNCHANGED <<session, authMetadata, dynamicClientID, serverVars, dcrFailed>>

CheckCall(t) ==
    /\ pc[t] = "call"
    /\ IF isRunning THEN GoOn(t, "preparing") ELSE Return(t)
    /\ UNCHANGED <<clientVars, serverVars, dcrFailed>>

\* setProtocolHeaders: the session is read once, when the request is built.
PrepareCall(t) ==
    /\ pc[t] = "preparing"
    /\ hdr' = [hdr EXCEPT ![t] = session]
    /\ Goto(t, "calling")
    /\ UNCHANGED <<clientVars, op, found, auth, serverVars, dcrFailed>>

CallOK(t) ==
    /\ pc[t] = "calling" /\ Sent(t)
    /\ Return(t)
    /\ UNCHANGED <<clientVars, serverVars, dcrFailed>>

M_NoHandshakeTimeout(t) ==
    /\ pc[t] = "calling" /\ Sent(t)
    /\ Return(t)
    /\ UNCHANGED <<clientVars, serverVars, dcrFailed>>

\* An error, a refused session, a broken connection, or the 30 s time-out.
RequestFails(t) ==
    /\ pc[t] \in {"calling", "initializing"} /\ Sent(t)
    /\ Return(t)
    /\ UNCHANGED <<clientVars, serverVars, dcrFailed>>

-----------------------------------------------------------------------------
(* A 401 triggers the discovery of the authorization server, and dynamic   *)
(* client registration when the client has no identifier yet.              *)

Unauthorized(t) ==
    /\ pc[t] \in {"calling", "initializing"} /\ Sent(t)
    /\ found' = [found EXCEPT ![t] = [metadata |-> "url", client |-> None]]
    /\ hdr' = [hdr EXCEPT ![t] = None]
    /\ auth' = [auth EXCEPT ![t] = "none"]
    /\ Goto(t, "discovering")
    /\ UNCHANGED <<clientVars, op, serverVars, dcrFailed>>

DiscoveryFails(t) ==
    /\ pc[t] = "discovering"
    /\ GoOn(t, "persisting")
    /\ UNCHANGED <<clientVars, serverVars, dcrFailed>>

M_DiscoveryOKPersists(t) ==
    /\ pc[t] = "discovering"
    /\ found' = [found EXCEPT ![t].metadata = "full"]
    /\ authMetadata' = "full"
    /\ Goto(t, IF dynamicClientID = None THEN "registering" ELSE "persisting")
    /\ UNCHANGED <<isRunning, session, dynamicClientID, op, hdr, auth, serverVars, dcrFailed>>

\* dynamicClientID is read without the mutex.
DiscoveryOK(t) ==
    /\ pc[t] = "discovering"
    /\ found' = [found EXCEPT ![t].metadata = "full"]
    /\ Goto(t, IF dynamicClientID = None THEN "registering" ELSE "persisting")
    /\ UNCHANGED <<clientVars, op, hdr, auth, serverVars, dcrFailed>>

RegisterOK(t) ==
    /\ pc[t] = "registering" /\ registered < MaxClients
    /\ registered' = registered + 1
    /\ found' = [found EXCEPT ![t].client = registered + 1]
    /\ Goto(t, "storingID")
    /\ UNCHANGED <<clientVars, op, hdr, auth, opened, notified, lost, dcrFailed>>

\* The discovery goes on without an identifier; the handler reports the error.
RegisterFails(t) ==
    /\ pc[t] = "registering"
    /\ dcrFailed' = TRUE
    /\ IF op[t] = "dcr" THEN Return(t) ELSE GoOn(t, "persisting")
    /\ UNCHANGED <<clientVars, serverVars>>

\* An answer without a client_id: the discovery ignores it, the handler stores
\* it over whatever identifier there was.
RegisterEmpty(t) ==
    /\ pc[t] = "registering"
    /\ dcrFailed' = TRUE
    /\ GoOn(t, IF op[t] = "dcr" THEN "storingID" ELSE "persisting")
    /\ UNCHANGED <<clientVars, serverVars>>

M_StoreClientIDUnregistered(t) ==
    /\ pc[t] = "storingID"
    /\ dynamicClientID' = found[t].client + 1
    /\ IF op[t] = "dcr" THEN Return(t) ELSE GoOn(t, "persisting")
    /\ UNCHANGED <<isRunning, session, authMetadata, serverVars, dcrFailed>>

StoreClientID(t) ==
    /\ pc[t] = "storingID"
    /\ dynamicClientID' = found[t].client
    /\ IF op[t] = "dcr" THEN Return(t) ELSE GoOn(t, "persisting")
    /\ UNCHANGED <<isRunning, session, authMetadata, serverVars, dcrFailed>>

PersistMetadata(t) ==
    /\ pc[t] = "persisting"
    /\ authMetadata' = found[t].metadata
    /\ Return(t)
    /\ UNCHANGED <<isRunning, session, dynamicClientID, serverVars, dcrFailed>>

\* handleRegisterDynamicClient registers whenever it knows where.
CheckMetadata(t) ==
    /\ pc[t] = "dcr"
    /\ IF authMetadata = "full" THEN GoOn(t, "registering") ELSE Return(t)
    /\ UNCHANGED <<clientVars, serverVars, dcrFailed>>

-----------------------------------------------------------------------------

\* What a thread does by itself; the requests of c.httpClient have a time-out.
ThreadStep(t) ==
    \/ CheckStart(t) \/ StoreSession(t) \/ PrepareNotification(t) \/ SendNotification(t)
    \/ FinishStart(t) \/ Stop(t) \/ CheckCall(t) \/ PrepareCall(t) \/ RequestFails(t)
    \/ DiscoveryFails(t) \/ StoreClientID(t) \/ PersistMetadata(t) \/ CheckMetadata(t)

\* What takes an answer of a server.
Answered(t) == InitializeOK(t) \/ CallOK(t) \/ Unauthorized(t) \/ DiscoveryOK(t)

\* A registration goes through http.DefaultClient, which has no time-out.
Registration(t) == RegisterOK(t) \/ RegisterEmpty(t) \/ RegisterFails(t)

Next ==
    \E t \in Threads :
        Begin(t) \/ SetAuthHeader(t) \/ TokenAnswered(t) \/ ThreadStep(t) \/ Answered(t) \/ Registration(t)

Spec == Init /\ [][Next]_vars

\* The goroutines run, sync.Mutex starves nobody, and c.httpClient's time-out
\* ends every exchange with an MCP server, although none is obliged to answer.
\* Of the authorization server and the token endpoint nothing is assumed.
FairSpec == Spec /\ \A t \in Threads : WF_vars(ThreadStep(t)) /\ SF_vars(SetAuthHeader(t))

-----------------------------------------------------------------------------
(* Properties.                                                             *)

Labels == OpNames \union
    {"idle", "initializing", "storing", "notify", "notifying", "finishing", "preparing", "calling",
     "discovering", "registering", "storingID", "persisting"}

\* Every variable keeps its type; sessions and clients are the servers'.
TypeOK ==
    /\ isRunning \in BOOLEAN
    /\ session \in 0 .. opened
    /\ authMetadata \in {"none", "url", "full"}
    /\ dynamicClientID \in 0 .. registered
    /\ pc \in [Threads -> Labels]
    /\ op \in [Threads -> OpNames]
    /\ hdr \in [Threads -> 0 .. opened]
    /\ found \in [Threads -> [metadata : {"none", "url", "full"}, client : 0 .. registered]]
    /\ auth \in [Threads -> {"none", "fetching", "set"}]
    /\ opened \in 0 .. MaxSessions
    /\ notified \subseteq 0 .. opened
    /\ lost \subseteq 0 .. opened
    /\ registered \in 0 .. MaxClients
    /\ dcrFailed \in BOOLEAN

\* Whatever concurrent Starts overwrite, the session that requests are sent on
\* has been opened with notifications/initialized, or a Start that is under
\* way will still do it, or the network lost the notification (initialize
\* stores the session first and reads it again for the notification).
CurrentSessionNotified ==
    session # None /\ session \notin notified \union lost =>
        \E t \in Threads : pc[t] = "notify" \/ (pc[t] = "notifying" /\ hdr[t] = session)

\* Whoever sees a registration endpoint through GetAuthMetadata also sees a
\* client identifier, unless some registration gave none: the identifier is
\* stored before the metadata is (fetchResourceMetadata runs to its end before
\* sendRequestWithHeaders persists).
FullMetadataHasClientID ==
    authMetadata = "full" /\ ~dcrFailed => dynamicClientID # None

\* t waits for a registration, or for a token that it or another thread fetches.
WaitsForOAuth(t) ==
    \/ pc[t] = "registering"
    \/ Sending(t) /\ auth[t] # "set" /\ \E u \in Threads : auth[u] = "fetching"

\* Every operation returns even if the MCP server never answers: no lock of the
\* client is held across a request, and c.httpClient has a time-out.  The only
\* thing that keeps it for ever is an authorization server or a token endpoint
\* that never answers, for which there is no time-out (oauth/client.go:41, 129),
\* and no such silence ever keeps a Stop.
EveryOperationReturns ==
    \A t \in Threads : pc[t] # "idle" ~> (pc[t] = "idle" \/ []WaitsForOAuth(t))
=============================================================================
