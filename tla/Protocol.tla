------------------------------ MODULE Protocol ------------------------------
(***************************************************************************)
(* internal/mcp/protocol.go: one JSON-RPC connection over the stdin and    *)
(* stdout of an MCP server process.  Any number of goroutines call         *)
(* SendRequest and SendNotification; one goroutine runs ReadMessages.      *)
(* They share the request counter, the table of pending requests (a        *)
(* sync.Map of one-slot channels) and the write mutex.  The server process *)
(* and the two pipes are the environment.                                  *)
(*                                                                         *)
(* A line is reduced to the two fields the program routes on: whether it   *)
(* is a response or a request of the server's own, and the identifier it   *)
(* carries (NoID for a notification, whose identifier is null).            *)
(*                                                                         *)
(* Operators named M_... are plausible bugs of the definition they         *)
(* precede; no specification uses them, the project's mutation runs do.    *)
(***************************************************************************)
EXTENDS Integers, Sequences, FiniteSets

CONSTANTS
    Callers,    \* goroutines that use the connection
    NoCaller,   \* the write mutex is free
    MaxID,      \* bound: request identifiers handed out
    MaxCopies,  \* bound: responses a server may send for one request
    ServerIDs,  \* identifiers of the server's own requests and notifications
    PipeCap,    \* lines a pipe holds before its writer blocks
    MayDie      \* the server process may exit or be killed

NoID == 0
Ids == 1 .. MaxID
Lines == [kind : {"response", "request"}, id : Ids \union {NoID}]
NoLine == [kind |-> "none", id |-> NoID]

ASSUME BoundsAssumption ==
    /\ MaxID \in Nat /\ MaxCopies \in Nat /\ PipeCap \in Nat \ {0}
    /\ ServerIDs \subseteq Ids \union {NoID}
    /\ MayDie \in BOOLEAN
ASSUME CallersAssumption == NoCaller \notin Callers

VARIABLES
    requestID,  \* Protocol.requestID
    pc,         \* where each caller is in SendRequest / SendNotification
    id,         \* the identifier a caller's message carries
    got,        \* the line a caller received
    pending,    \* keys of Protocol.pendingReqs
    chan,       \* chan[i]: contents of the channel made for request i
    writeMutex, \* the caller that holds Protocol.writeMutex
    toServer,   \* lines in the stdin pipe, by identifier
    fromServer, \* lines in the stdout pipe
    held,       \* the line the reader is sending into a channel
    eof,        \* ReadMessages has returned
    alive,      \* the server process runs
    asked,      \* requests the server has read
    copies,     \* copies[i]: responses written for request i
    spoken      \* ServerIDs the server has used

callerVars == <<requestID, pc, id, got, pending, writeMutex>>
serverVars == <<alive, asked, copies, spoken>>
vars == <<callerVars, chan, toServer, fromServer, held, eof, serverVars>>

Init ==
    /\ requestID = 0
    /\ pc = [c \in Callers |-> "idle"]
    /\ id = [c \in Callers |-> NoID]
    /\ got = [c \in Callers |-> NoLine]
    /\ pending = {}
    /\ chan = [i \in Ids |-> <<>>]
    /\ writeMutex = NoCaller
    /\ toServer = <<>>
    /\ fromServer = <<>>
    /\ held = NoLine
    /\ eof = FALSE
    /\ alive = TRUE
    /\ asked = {}
    /\ copies = [i \in Ids |-> 0]
    /\ spoken = {}

-----------------------------------------------------------------------------
(* The callers.                                                            *)

Goto(c, label) == pc' = [pc EXCEPT ![c] = label]

\* SendRequest takes the next identifier.
NextRequestID(c) ==
    /\ pc[c] = "idle" /\ requestID < MaxID
    /\ requestID' = requestID + 1
    /\ id' = [id EXCEPT ![c] = requestID + 1]
    /\ Goto(c, "allocated")
    /\ UNCHANGED <<got, pending, chan, writeMutex, toServer, fromServer, held, eof, serverVars>>

\* The parameters cannot be encoded: the call fails before anything is stored.
CreateFails(c) ==
    /\ pc[c] = "allocated"
    /\ Goto(c, "idle")
    /\ id' = [id EXCEPT ![c] = NoID]
    /\ UNCHANGED <<requestID, got, pending, chan, writeMutex, toServer, fromServer, held, eof,
                   serverVars>>

M_StoreLater(c) ==
    /\ pc[c] = "allocated"
    /\ Goto(c, "locking")
    /\ UNCHANGED <<requestID, id, got, pending, chan, writeMutex, toServer, fromServer, held, eof,
                   serverVars>>

\* The request's channel is made and published to the reader.
Store(c) ==
    /\ pc[c] = "allocated"
    /\ pending' = pending \union {id[c]}
    /\ Goto(c, "locking")
    /\ UNCHANGED <<requestID, id, got, chan, writeMutex, toServer, fromServer, held, eof,
                   serverVars>>

\* SendNotification: nothing is stored, no answer is awaited.
Notify(c) ==
    /\ pc[c] = "idle"
    /\ Goto(c, "locking")
    /\ UNCHANGED <<requestID, id, got, pending, chan, writeMutex, toServer, fromServer, held, eof,
                   serverVars>>

LockWrite(c) ==
    /\ pc[c] = "locking" /\ writeMutex = NoCaller
    /\ writeMutex' = c
    /\ Goto(c, "writing")
    /\ UNCHANGED <<requestID, id, got, pending, chan, toServer, fromServer, held, eof, serverVars>>

\* The write blocks, with the mutex held, while the pipe is full.
Write(c) ==
    /\ pc[c] = "writing" /\ alive /\ Len(toServer) < PipeCap
    /\ toServer' = Append(toServer, id[c])
    /\ writeMutex' = NoCaller
    /\ Goto(c, IF id[c] = NoID THEN "idle" ELSE "waiting")
    /\ UNCHANGED <<requestID, id, got, pending, chan, fromServer, held, eof, serverVars>>

\* The pipe is broken: nobody will ever read it.
WriteFails(c) ==
    /\ pc[c] = "writing" /\ ~alive
    /\ writeMutex' = NoCaller
    /\ Goto(c, IF id[c] = NoID THEN "idle" ELSE "returning")
    /\ UNCHANGED <<requestID, id, got, pending, chan, toServer, fromServer, held, eof, serverVars>>

\* The only way out of the wait: no timeout, no context, no close on EOF.
Receive(c) ==
    /\ pc[c] = "waiting" /\ chan[id[c]] # <<>>
    /\ got' = [got EXCEPT ![c] = Head(chan[id[c]])]
    /\ chan' = [chan EXCEPT ![id[c]] = Tail(@)]
    /\ Goto(c, "returning")
    /\ UNCHANGED <<requestID, id, pending, writeMutex, toServer, fromServer, held, eof, serverVars>>

M_ReturnLeaksOnError(c) ==
    /\ pc[c] = "returning"
    /\ pending' = IF got[c] = NoLine THEN pending ELSE pending \ {id[c]}
    /\ id' = [id EXCEPT ![c] = NoID]
    /\ got' = [got EXCEPT ![c] = NoLine]
    /\ Goto(c, "idle")
    /\ UNCHANGED <<requestID, chan, writeMutex, toServer, fromServer, held, eof, serverVars>>

\* The deferred Delete runs on the success and on the error path.
Return(c) ==
    /\ pc[c] = "returning"
    /\ pending' = pending \ {id[c]}
    /\ id' = [id EXCEPT ![c] = NoID]
    /\ got' = [got EXCEPT ![c] = NoLine]
    /\ Goto(c, "idle")
    /\ UNCHANGED <<requestID, chan, writeMutex, toServer, fromServer, held, eof, serverVars>>

-----------------------------------------------------------------------------
(* The reader goroutine.                                                   *)

\* A channel made by SendRequest has one slot.
M_ChanCapZero == 0
M_ChanCapTwo == 2
ChanCap == 1

M_ReadLineAnyPending ==
    /\ ~eof /\ held = NoLine /\ fromServer # <<>>
    /\ \E i \in pending \union {NoID} :
         held' = IF i = NoID THEN NoLine ELSE [Head(fromServer) EXCEPT !.id = i]
    /\ fromServer' = Tail(fromServer)
    /\ UNCHANGED <<callerVars, chan, toServer, eof, serverVars>>

M_ReadLineStopsOnStray ==
    /\ ~eof /\ held = NoLine /\ fromServer # <<>>
    /\ LET line == Head(fromServer)
       IN  /\ held' = IF line.id \in pending THEN line ELSE NoLine
           /\ eof' = (line.id \notin pending)
    /\ fromServer' = Tail(fromServer)
    /\ UNCHANGED <<callerVars, chan, toServer, serverVars>>

\* Every line with an identifier is taken for a response, whatever its kind;
\* one whose identifier is not pending is dropped.
ReadLine ==
    /\ ~eof /\ held = NoLine /\ fromServer # <<>>
    /\ LET line == Head(fromServer)
       IN  held' = IF line.id \in pending THEN line ELSE NoLine
    /\ fromServer' = Tail(fromServer)
    /\ UNCHANGED <<callerVars, chan, toServer, eof, serverVars>>

\* The channel found by Load may belong to a call that has returned since.
Deliver ==
    /\ held # NoLine /\ Len(chan[held.id]) < ChanCap
    /\ chan' = [chan EXCEPT ![held.id] = Append(@, held)]
    /\ held' = NoLine
    /\ UNCHANGED <<callerVars, toServer, fromServer, eof, serverVars>>

\* The reader leaves; the calls that wait are not told.
ReadEOF ==
    /\ ~eof /\ held = NoLine /\ fromServer = <<>> /\ ~alive
    /\ eof' = TRUE
    /\ UNCHANGED <<callerVars, chan, toServer, fromServer, held, serverVars>>

-----------------------------------------------------------------------------
(* The server process: reads its stdin, answers what it has read in any    *)
(* order, possibly more than once, and speaks on its own account.          *)

ServerRead ==
    /\ alive /\ toServer # <<>>
    /\ asked' = asked \union ({Head(toServer)} \ {NoID})
    /\ toServer' = Tail(toServer)
    /\ UNCHANGED <<callerVars, chan, fromServer, held, eof, alive, copies, spoken>>

Emit(kind, i) ==
    /\ alive /\ Len(fromServer) < PipeCap
    /\ fromServer' = Append(fromServer, [kind |-> kind, id |-> i])

Answer(i) ==
    /\ i \in asked /\ copies[i] < MaxCopies
    /\ Emit("response", i)
    /\ copies' = [copies EXCEPT ![i] = @ + 1]
    /\ UNCHANGED <<callerVars, chan, toServer, held, eof, alive, asked, spoken>>

ServerRequest(i) ==
    /\ i \in ServerIDs \ spoken
    /\ Emit("request", i)
    /\ spoken' = spoken \union {i}
    /\ UNCHANGED <<callerVars, chan, toServer, held, eof, alive, asked, copies>>

Die ==
    /\ MayDie /\ alive
    /\ alive' = FALSE
    /\ UNCHANGED <<callerVars, chan, toServer, fromServer, held, eof, asked, copies, spoken>>

-----------------------------------------------------------------------------

CallerStep(c) ==
    \/ CreateFails(c) \/ Store(c) \/ Write(c) \/ WriteFails(c)
    \/ Receive(c) \/ Return(c)

Reader == ReadLine \/ Deliver \/ ReadEOF

Server ==
    \/ ServerRead \/ Die
    \/ \E i \in Ids : Answer(i)
    \/ \E i \in ServerIDs : ServerRequest(i)

Next ==
    \/ \E c \in Callers : NextRequestID(c) \/ Notify(c) \/ LockWrite(c) \/ CallerStep(c)
    \/ Reader
    \/ Server

Spec == Init /\ [][Next]_vars

\* Go schedules every goroutine that can run, and its mutex hands itself over
\* to a waiter that starves.  A sane server reads its input and answers each
\* request once; nothing obliges it to speak first or to die.
Fairness ==
    /\ \A c \in Callers : WF_vars(CallerStep(c)) /\ SF_vars(LockWrite(c))
    /\ WF_vars(Reader)
    /\ WF_vars(ServerRead)
    /\ \A i \in Ids : WF_vars(copies[i] = 0 /\ Answer(i))

FairSpec == Spec /\ Fairness

-----------------------------------------------------------------------------
(* Properties.                                                             *)

Labels == {"idle", "allocated", "locking", "writing", "waiting", "returning"}

\* Every variable keeps its type; in particular no channel ever holds more
\* than one line (make(chan, 1), protocol.go:44).
TypeOK ==
    /\ requestID \in 0 .. MaxID
    /\ pc \in [Callers -> Labels]
    /\ id \in [Callers -> Ids \union {NoID}]
    /\ got \in [Callers -> Lines \union {NoLine}]
    /\ pending \subseteq Ids
    /\ chan \in [Ids -> Seq(Lines)]
    /\ \A i \in Ids : Len(chan[i]) <= 1
    /\ writeMutex \in Callers \union {NoCaller}
    /\ toServer \in Seq(Ids \union {NoID}) /\ Len(toServer) <= PipeCap
    /\ fromServer \in Seq(Lines) /\ Len(fromServer) <= PipeCap
    /\ held \in Lines \union {NoLine}
    /\ eof \in BOOLEAN
    /\ alive \in BOOLEAN
    /\ asked \subseteq Ids
    /\ copies \in [Ids -> 0 .. MaxCopies]
    /\ spoken \subseteq ServerIDs

\* A call is registered from Store to the deferred Delete.
Registered(c) == pc[c] \in {"locking", "writing", "waiting", "returning"} /\ id[c] # NoID

\* The table of pending requests holds exactly the calls in flight: no call
\* waits without an entry, and no entry outlives its call, on the success or
\* on the error path (Store and the deferred Delete of SendRequest).
PendingExact == pending = {id[c] : c \in {d \in Callers : Registered(d)}}

\* A response the server wrote for a call that still waits is never lost: it
\* is in the pipe, in the reader's hands or in the call's own channel.  This
\* is why SendRequest stores the channel before it writes the request.
NoLostResponse ==
    \A c \in Callers :
        pc[c] = "waiting" /\ copies[id[c]] > 0 =>
            \/ chan[id[c]] # <<>>
            \/ held.id = id[c]
            \/ \E k \in 1 .. Len(fromServer) :
                 fromServer[k] = [kind |-> "response", id |-> id[c]]

LinesOf(i) == copies[i] + (IF i \in spoken THEN 1 ELSE 0)

\* The reader sends into a full channel whose call will not receive again:
\* it is blocked for ever, and with it every other call of the connection.
ReaderWedged ==
    /\ held # NoLine /\ Len(chan[held.id]) >= ChanCap
    /\ ~ \E c \in Callers :
           id[c] = held.id /\ pc[c] \in {"locking", "writing", "waiting"}

\* The one slot of the channel absorbs one stray line: the server must bear
\* the same identifier in three lines to wedge the reader (handleResponse's
\* blocking send, protocol.go:118).
WedgeNeedsThreeLines == ReaderWedged => LinesOf(held.id) >= 3

\* The abstract call of each caller: an identifier that is allocated but not
\* yet stored is not used as far as the connection's users can tell.
CallState(c) ==
    IF pc[c] = "returning"
    THEN IF got[c] = NoLine THEN "failed" ELSE "answered"
    ELSE IF pc[c] \in {"locking", "writing", "waiting"} /\ id[c] # NoID THEN "calling" ELSE "idle"
AbstractCall == [c \in Callers |-> CallState(c)]
AbstractId == [c \in Callers |-> IF pc[c] = "allocated" THEN NoID ELSE id[c]]
AbstractUsed == (1 .. requestID) \ {id[c] : c \in {d \in Callers : pc[d] = "allocated"}}
AbstractSpoken == {i \in Ids : LinesOf(i) > 0}

R == INSTANCE Rpc WITH
    call <- AbstractCall, id <- AbstractId, used <- AbstractUsed,
    spoken <- AbstractSpoken, up <- alive

\* The connection implements Rpc: identifiers are never reused, a call is
\* completed only by a line that bears its own identifier, and fails only
\* once the server is dead (SendRequest, ReadMessages, handleResponse).
ImplementsRpc == R!Spec

\* With a server that answers each request at least once, every call and every
\* notification returns, unless the server dies or wedges the reader: whatever
\* other lines of its own it writes, and even if they carry the identifier of a
\* call (SendRequest, writeMessage and ReadMessages together).  In particular
\* the connection deadlocks in no other way.
EveryCallReturns ==
    \A c \in Callers : pc[c] # "idle" ~> (pc[c] = "idle" \/ ~alive \/ ReaderWedged)
=============================================================================
