------------------------ MODULE StdioClient_proofs ------------------------
(***************************************************************************)
(* Theorems about StdioClient, for any threads, any number of starts, any  *)
(* mix of operations and any faults.                                       *)
(***************************************************************************)
EXTENDS StdioClient, TLAPS

USE ConstantsAssumption DEF None, Incs

\* The client's state as no thread but the holder of the mutex can change it.
InHandshake == {"initializing", "awaiting", "notifying"}
Holding == InHandshake \union {"starting"}

\* Only the holder of the mutex is inside Start; it leaves by releasing the
\* mutex, or by the Stop that waits for it.
HolderOK ==
    /\ \A t \in Threads : pc[t] \in Holding => mu = t
    /\ mu # Free => pc[mu] \in Holding \union {"stopping"}

\* During the handshake the client already counts as running, on the process
\* the handshake goes to.
HandshakeOK ==
    \A t \in Threads :
        pc[t] \in InHandshake =>
            /\ isRunning /\ cmd \in Incs /\ target[t] = cmd /\ protocol = cmd
            /\ pc[t] = "notifying" => info = cmd

\* RunningMeansReady holds still when the next Start has locked the mutex and
\* not looked at the client yet.
SteadyOK ==
    (mu = Free \/ pc[mu] = "starting") /\ isRunning
      => cmd \in ready /\ protocol = cmd /\ info = cmd

\* A call that was let through saw a process that is past its handshake.
SeenOK == \A t \in Threads : pc[t] \in {"calling", "writing"} => seen[t] \in ready

IInv == Types /\ HolderOK /\ HandshakeOK /\ SteadyOK /\ SeenOK /\ NoOrphan

LEMMA IInvInit == Init => IInv
<1> SUFFICES ASSUME Init PROVE IInv
  OBVIOUS
<1>1. Types
  <2>1. pc \in [Threads -> Labels] /\ op \in [Threads -> OpNames]
    BY DEF Init, OpNames, Labels
  <2>2. /\ mine \in [Threads -> Incs \union {None}]
        /\ seen \in [Threads -> Incs \union {None}]
        /\ target \in [Threads -> Incs \union {None}]
    BY DEF Init
  <2>3. ctxDone \in [Threads -> BOOLEAN] /\ answer \in [Threads -> {"none", "ok", "error"}]
    BY DEF Init
  <2>4. proc \in [Incs -> {"none", "live", "dead"}]
    BY DEF Init
  <2>5. begun \in 0 .. MaxStarts
    BY DEF Init
  <2>6. QED
    BY <2>1, <2>2, <2>3, <2>4, <2>5 DEF Init, Types
<1>2. HolderOK /\ HandshakeOK /\ SeenOK
  BY DEF Init, HolderOK, Holding, InHandshake, HandshakeOK, SeenOK
<1>3. SteadyOK /\ NoOrphan
  BY DEF Init, SteadyOK, NoOrphan, Live
<1>4. QED
  BY <1>1, <1>2, <1>3 DEF IInv

LEMMA TypeStep == Types /\ [Next]_vars => Types'
<1> SUFFICES ASSUME Types, [Next]_vars PROVE Types'
  OBVIOUS
<1> USE DEF Types, Labels, Goto, clientVars, opVars, requestVars, procVars
<1>1. ASSUME NEW t \in Threads, Begin(t) PROVE Types'
  <2>1. PICK o \in Ops :
          /\ o \in Starting => begun < MaxStarts
          /\ begun' = IF o \in Starting THEN begun + 1 ELSE begun
          /\ op' = [op EXCEPT ![t] = o]
          /\ Goto(t, Entry(o))
    BY <1>1 DEF Begin
  <2>2. o \in OpNames /\ Entry(o) \in Labels
    BY DEF OpNames, Entry
  <2>3. begun' \in 0 .. MaxStarts
    BY <2>1
  <2>4. op' \in [Threads -> OpNames] /\ pc' \in [Threads -> Labels]
    BY <2>1, <2>2
  <2>5. QED
    BY <1>1, <2>3, <2>4 DEF Begin
<1>2. ASSUME NEW t \in Threads, LockStart(t) PROVE Types'
  BY <1>2 DEF LockStart
<1>3. ASSUME NEW t \in Threads, IsRunning(t) PROVE Types'
  <2>1. op' \in [Threads -> OpNames]
    BY <1>3 DEF IsRunning, OpNames
  <2>2. pc' \in [Threads -> Labels]
    BY <1>3 DEF IsRunning
  <2>3. seen' \in [Threads -> Incs \union {None}]
    BY <1>3 DEF IsRunning
  <2>4. QED
    BY <1>3, <2>1, <2>2, <2>3 DEF IsRunning
<1>4. ASSUME NEW t \in Threads, Stop(t) PROVE Types'
  BY <1>4 DEF Stop, Kill
<1>5. ASSUME NEW t \in Threads, Refuse(t) PROVE Types'
  BY <1>5 DEF Refuse
<1>6. ASSUME NEW t \in Threads, SpawnFails(t) PROVE Types'
  BY <1>6 DEF SpawnFails
<1>7. ASSUME NEW t \in Threads, Spawn(t) PROVE Types'
  BY <1>7 DEF Spawn, SpawnAs
<1>8. ASSUME NEW t \in Threads, SendInitialize(t) PROVE Types'
  BY <1>8 DEF SendInitialize, FailStart
<1>9. ASSUME NEW t \in Threads, InitializeAnswered(t) PROVE Types'
  BY <1>9 DEF InitializeAnswered, FailStart
<1>10. ASSUME NEW t \in Threads, SendInitialized(t) PROVE Types'
  <2>1. ready' \subseteq Incs
    <3>1. CASE Live(target[t])
      <4>1. target[t] \in Incs /\ ready \subseteq Incs
        BY <3>1 DEF Live
      <4>2. ready' = ready \union {target[t]}
        BY <1>10, <3>1 DEF SendInitialized
      <4> QED
        BY <4>1, <4>2
    <3>2. CASE ~Live(target[t])
      BY <1>10, <3>2 DEF SendInitialized, FailStart
    <3> QED
      BY <3>1, <3>2
  <2>2. pc' \in [Threads -> Labels] /\ mu' \in Threads \union {Free}
    <3>1. CASE Live(target[t])
      BY <1>10, <3>1 DEF SendInitialized
    <3>2. CASE ~Live(target[t])
      BY <1>10, <3>2 DEF SendInitialized, FailStart
    <3> QED
      BY <3>1, <3>2
  <2>3. info' = info
    BY <1>10 DEF SendInitialized, FailStart
  <2>4. QED
    BY <1>10, <2>1, <2>2, <2>3 DEF SendInitialized
<1>11. ASSUME NEW t \in Threads, CancelContext(t)
       PROVE  ctxDone' \in [Threads -> BOOLEAN] /\ doomed' \subseteq Incs
  BY <1>11 DEF CancelContext
<1>12. ASSUME NEW t \in Threads, AfterStart(t) PROVE Types'
  <2>1. ctxDone' \in [Threads -> BOOLEAN] /\ doomed' \subseteq Incs
    BY <1>11, <1>12 DEF AfterStart
  <2>2. op' \in [Threads -> OpNames] /\ pc' \in [Threads -> Labels]
    BY <1>12 DEF AfterStart, OpNames
  <2>3. QED
    BY <1>12, <2>1, <2>2 DEF AfterStart
<1>13. ASSUME NEW t \in Threads, Expire(t) PROVE Types'
  BY <1>11, <1>13 DEF Expire
<1>14. ASSUME NEW t \in Threads, ReadProtocol(t) PROVE Types'
  BY <1>14 DEF ReadProtocol
<1>15. ASSUME NEW t \in Threads, WriteRequest(t) PROVE Types'
  BY <1>15 DEF WriteRequest
<1>16. ASSUME NEW t \in Threads, ReceiveAnswer(t) PROVE Types'
  BY <1>16 DEF ReceiveAnswer
<1>17. ASSUME NEW t \in Threads, Answer(t) PROVE Types'
  BY <1>17 DEF Answer
<1>18. ASSUME NEW p \in Incs, Watch(p) \/ Exit(p) PROVE Types'
  BY <1>18 DEF Watch, Exit, Kill
<1>19. ASSUME UNCHANGED vars PROVE Types'
  BY <1>19 DEF vars
<1>20. QED
  BY <1>1, <1>2, <1>3, <1>4, <1>5, <1>6, <1>7, <1>8, <1>9, <1>10, <1>12, <1>13, <1>14, <1>15,
     <1>16, <1>17, <1>18, <1>19 DEF Next, Lock, ThreadStep

LEMMA IInvStep == IInv /\ [Next]_vars => IInv'
<1> SUFFICES ASSUME IInv, Types, HolderOK, HandshakeOK, SteadyOK, SeenOK, NoOrphan, [Next]_vars
             PROVE  IInv'
  BY DEF IInv
<1>0. Types'
  BY TypeStep
<1> DEFINE J == HolderOK /\ HandshakeOK /\ SteadyOK /\ SeenOK /\ NoOrphan
<1> SUFFICES J'
  BY <1>0 DEF IInv
<1> USE DEF Types, HolderOK, HandshakeOK, SteadyOK, SeenOK, NoOrphan, Goto, Live, Holding,
            InHandshake, clientVars, opVars, requestVars, procVars
<1>1. ASSUME NEW t \in Threads, Begin(t) PROVE J'
  <2>1. PICK o \in Ops : Goto(t, Entry(o))
    BY <1>1 DEF Begin
  <2>2. pc' = [pc EXCEPT ![t] = Entry(o)] /\ Entry(o) \in {"locking", "checking", "stopping"}
    BY <2>1 DEF Entry, OpNames
  <2>3. QED
    BY <1>1, <2>2 DEF Begin
<1>2. ASSUME NEW t \in Threads, LockStart(t) PROVE J'
  BY <1>2 DEF LockStart
<1>3. ASSUME NEW t \in Threads, IsRunning(t) PROVE J'
  BY <1>3 DEF IsRunning
<1>4. ASSUME NEW t \in Threads, Stop(t) PROVE J'
  BY <1>4 DEF Stop, Kill
<1>5. ASSUME NEW t \in Threads, Refuse(t) PROVE J'
  BY <1>5 DEF Refuse
<1>6. ASSUME NEW t \in Threads, SpawnFails(t) PROVE J'
  BY <1>6 DEF SpawnFails
<1>7. ASSUME NEW t \in Threads, Spawn(t) PROVE J'
  BY <1>7 DEF Spawn, SpawnAs
<1>8. ASSUME NEW t \in Threads, SendInitialize(t) PROVE J'
  BY <1>8 DEF SendInitialize, FailStart
<1>9. ASSUME NEW t \in Threads, InitializeAnswered(t) PROVE J'
  BY <1>9 DEF InitializeAnswered, FailStart
<1>10. ASSUME NEW t \in Threads, SendInitialized(t) PROVE J'
  <2>1. CASE Live(target[t])
    BY <1>10, <2>1 DEF SendInitialized
  <2>2. CASE ~Live(target[t])
    BY <1>10, <2>2 DEF SendInitialized, FailStart
  <2> QED
    BY <2>1, <2>2
<1>11. ASSUME NEW t \in Threads, AfterStart(t) PROVE J'
  BY <1>11 DEF AfterStart, CancelContext
<1>12. ASSUME NEW t \in Threads, Expire(t) PROVE J'
  BY <1>12 DEF Expire, CancelContext
<1>13. ASSUME NEW t \in Threads, ReadProtocol(t) PROVE J'
  BY <1>13 DEF ReadProtocol
<1>14. ASSUME NEW t \in Threads, WriteRequest(t) PROVE J'
  BY <1>14 DEF WriteRequest
<1>15. ASSUME NEW t \in Threads, ReceiveAnswer(t) PROVE J'
  BY <1>15 DEF ReceiveAnswer
<1>16. ASSUME NEW t \in Threads, Answer(t) PROVE J'
  BY <1>16 DEF Answer
<1>17. ASSUME NEW p \in Incs, Watch(p) \/ Exit(p) PROVE J'
  BY <1>17 DEF Watch, Exit, Kill
<1>18. ASSUME UNCHANGED vars PROVE J'
  BY <1>18 DEF vars
<1>19. QED
  BY <1>1, <1>2, <1>3, <1>4, <1>5, <1>6, <1>7, <1>8, <1>9, <1>10, <1>11, <1>12, <1>13, <1>14,
     <1>15, <1>16, <1>17, <1>18 DEF Next, Lock, ThreadStep

LEMMA Invariance == Spec => []IInv
  BY IInvInit, IInvStep, PTL DEF Spec

LEMMA ProtocolSetStep == Types /\ ProtocolSet /\ [Next]_vars => ProtocolSet'
<1> SUFFICES ASSUME Types, ProtocolSet, [Next]_vars PROVE ProtocolSet'
  OBVIOUS
<1> USE DEF Types, ProtocolSet, Goto, clientVars, opVars, requestVars, procVars
<1>1. ASSUME NEW t \in Threads, Begin(t) PROVE ProtocolSet'
  <2>1. PICK o \in Ops : pc' = [pc EXCEPT ![t] = Entry(o)]
    BY <1>1 DEF Begin
  <2>2. Entry(o) \in {"locking", "checking", "stopping"}
    BY DEF Entry, OpNames
  <2> QED
    BY <1>1, <2>1, <2>2 DEF Begin
<1>2. ASSUME NEW t \in Threads, IsRunning(t) PROVE ProtocolSet'
  BY <1>2 DEF IsRunning
<1>3. ASSUME NEW t \in Threads, LockStart(t) \/ Stop(t) \/ Refuse(t) \/ SpawnFails(t) PROVE ProtocolSet'
  BY <1>3 DEF LockStart, Stop, Refuse, SpawnFails
<1>4. ASSUME NEW t \in Threads, Spawn(t) PROVE ProtocolSet'
  BY <1>4 DEF Spawn, SpawnAs
<1>5. ASSUME NEW t \in Threads, SendInitialize(t) \/ InitializeAnswered(t) \/ SendInitialized(t)
      PROVE  ProtocolSet'
  <2>1. /\ pc[t] \in {"initializing", "awaiting", "notifying"}
        /\ UNCHANGED <<isRunning, protocol, target>>
    BY <1>5 DEF SendInitialize, InitializeAnswered, SendInitialized
  <2>2. \E l \in {"awaiting", "notifying", "started", "stopping"} : pc' = [pc EXCEPT ![t] = l]
    BY <1>5 DEF SendInitialize, InitializeAnswered, SendInitialized, FailStart
  <2> QED
    BY <2>1, <2>2
<1>6. ASSUME NEW t \in Threads, AfterStart(t) PROVE ProtocolSet'
  BY <1>6 DEF AfterStart
<1>7. ASSUME NEW t \in Threads, Expire(t) PROVE ProtocolSet'
  BY <1>7 DEF Expire
<1>8. ASSUME NEW t \in Threads, ReadProtocol(t) PROVE ProtocolSet'
  BY <1>8 DEF ReadProtocol
<1>9. ASSUME NEW t \in Threads, WriteRequest(t) \/ ReceiveAnswer(t) \/ Answer(t) PROVE ProtocolSet'
  BY <1>9 DEF WriteRequest, ReceiveAnswer, Answer
<1>10. ASSUME NEW p \in Incs, Watch(p) \/ Exit(p) PROVE ProtocolSet'
  BY <1>10 DEF Watch, Exit
<1>11. CASE UNCHANGED vars
  BY <1>11 DEF vars
<1> QED
  BY <1>1, <1>2, <1>3, <1>4, <1>5, <1>6, <1>7, <1>8, <1>9, <1>10, <1>11 DEF Next, Lock, ThreadStep

\* Every variable of the client keeps its type under any interleaving, and no
\* request reads or uses a nil protocol (client.go:226).
THEOREM TypeCorrect == Spec => []TypeOK
<1>1. Init => ProtocolSet
  BY DEF Init, ProtocolSet
<1>2. IInv => Types
  BY DEF IInv
<1> QED
  BY <1>1, <1>2, ProtocolSetStep, Invariance, PTL DEF Spec, TypeOK

\* Whatever the threads do and the environment breaks, a live server process
\* is the one the client knows and will kill when it is stopped.
THEOREM ProcessNeverOrphaned == Spec => []NoOrphan
<1>1. IInv => NoOrphan
  BY DEF IInv
<1>2. QED
  BY <1>1, Invariance, PTL

\* A client that is seen running has completed the handshake with the very
\* process, protocol and server info it holds.
THEOREM RunningIsReady == Spec => []RunningMeansReady
<1>1. IInv => RunningMeansReady
  BY DEF IInv, SteadyOK, RunningMeansReady
<1>2. QED
  BY <1>1, Invariance, PTL

\* A request overtakes a handshake only on the strength of a check that was
\* made while an earlier process ran.
THEOREM OnlyStaleRequestsAreEarly == Spec => EarlyRequestIsStale
<1>1. IInv => \A t \in Threads :
        WriteRequest(t) /\ Live(target[t]) /\ target[t] \notin ready => seen[t] # target[t]
  BY DEF IInv, SeenOK, WriteRequest
<1>2. QED
  BY <1>1, Invariance, PTL DEF EarlyRequestIsStale

-----------------------------------------------------------------------------
(* The contract of the client.                                             *)

starter == IF Settled THEN Free ELSE mu
running == isRunning /\ Settled

\* Whoever does not hold the mutex changes nothing of what the contract shows,
\* nor does the holder on its way through the handshake.
LEMMA OutsideOfContract ==
    ASSUME IInv, NEW t \in Threads, NEW label, Goto(t, label) \/ UNCHANGED pc,
           UNCHANGED <<mu, isRunning>>,
           mu # t \/ (pc[t] # "starting" /\ label # "starting") \/ UNCHANGED pc
    PROVE  UNCHANGED <<starter, running>>
<1>1. mu # Free => (pc'[mu] = "starting" <=> pc[mu] = "starting")
  BY DEF IInv, Types, Goto
<1>2. Settled' = Settled
  BY <1>1 DEF Settled
<1> QED
  BY <1>2 DEF starter, running

\* A Start that spawns enters the handshake of the contract, one that is refused
\* does nothing, and whatever else goes on inside or around it is not seen.
THEOREM StdioImplementsClientIface == Spec => ImplementsClientIface
<1>1. Init => Iface!Init
  BY DEF Init, Iface!Init, Settled
<1>2. IInv /\ [Next]_vars => [Iface!Next]_(Iface!vars)
  <2> SUFFICES ASSUME IInv, [Next]_vars PROVE Iface!Next \/ UNCHANGED <<starter, running>>
    BY DEF Iface!vars, starter, running
  <2>0. Types /\ HolderOK /\ HandshakeOK
    BY DEF IInv
  <2>1. ASSUME NEW t \in Threads, Begin(t) PROVE UNCHANGED <<starter, running>>
    <3>1. mu # t
      BY <2>0, <2>1 DEF Begin, HolderOK, Holding, InHandshake
    <3>2. PICK o \in Ops : Goto(t, Entry(o))
      BY <2>1 DEF Begin
    <3> QED
      BY <2>1, <3>1, <3>2, OutsideOfContract DEF Begin, clientVars
  <2>2. ASSUME NEW t \in Threads, IsRunning(t) PROVE UNCHANGED <<starter, running>>
    <3>1. UNCHANGED pc \/ \E label \in {"calling", "locking", "idle"} : Goto(t, label)
      BY <2>2 DEF IsRunning
    <3>2. mu # t /\ UNCHANGED <<mu, isRunning>>
      BY <2>2 DEF IsRunning, clientVars
    <3> QED
      BY <3>1, <3>2, OutsideOfContract
  <2>3. ASSUME NEW t \in Threads, LockStart(t) PROVE UNCHANGED <<starter, running>>
    <3>1. mu = Free /\ mu' = t /\ pc'[t] = "starting" /\ UNCHANGED isRunning
      BY <2>0, <2>3 DEF LockStart, Goto, Types
    <3> QED
      BY <3>1 DEF Settled, starter, running
  <2>4. ASSUME NEW t \in Threads, Refuse(t) \/ SpawnFails(t) PROVE UNCHANGED <<starter, running>>
    <3>1. pc[t] = "starting" /\ mu = t /\ mu' = Free /\ UNCHANGED isRunning
      BY <2>0, <2>4 DEF Refuse, SpawnFails, HolderOK, Holding
    <3> QED
      BY <3>1 DEF Settled, starter, running
  <2>5. ASSUME NEW t \in Threads, Spawn(t) PROVE Iface!Start(t)
    <3>1. /\ pc[t] = "starting" /\ ~isRunning /\ mu = t
          /\ mu' = t /\ pc'[t] = "initializing"
      BY <2>0, <2>5 DEF Spawn, SpawnAs, HolderOK, Holding, Goto, Types
    <3> QED
      BY <3>1 DEF Settled, Iface!Start
  <2>6. ASSUME NEW t \in Threads, SendInitialize(t) \/ InitializeAnswered(t)
        PROVE  UNCHANGED <<starter, running>>
    <3>1. pc[t] # "starting" /\ UNCHANGED <<mu, isRunning>>
      BY <2>6 DEF SendInitialize, InitializeAnswered, FailStart
    <3>2. \E label \in {"awaiting", "notifying", "stopping"} : Goto(t, label)
      BY <2>6 DEF SendInitialize, InitializeAnswered, FailStart
    <3> QED
      BY <3>1, <3>2, OutsideOfContract
  <2>7. ASSUME NEW t \in Threads, SendInitialized(t), Live(target[t]) PROVE Iface!Started
    <3>1. /\ pc[t] = "notifying" /\ mu = t /\ isRunning
          /\ mu' = Free /\ UNCHANGED isRunning
      BY <2>0, <2>7 DEF SendInitialized, HolderOK, HandshakeOK, Holding, InHandshake
    <3> QED
      BY <3>1 DEF Settled, Iface!Started
  <2>8. ASSUME NEW t \in Threads, SendInitialized(t), ~Live(target[t])
        PROVE  UNCHANGED <<starter, running>>
    <3>1. pc[t] # "starting" /\ Goto(t, "stopping") /\ UNCHANGED <<mu, isRunning>>
      BY <2>8 DEF SendInitialized, FailStart
    <3> QED
      BY <3>1, OutsideOfContract
  <2>9. ASSUME NEW t \in Threads, AfterStart(t) PROVE UNCHANGED <<starter, running>>
    <3>1. mu # t
      BY <2>0, <2>9 DEF AfterStart, HolderOK, Holding, InHandshake
    <3>2. (Goto(t, "checking") \/ Goto(t, "idle")) /\ UNCHANGED <<mu, isRunning>>
      BY <2>9 DEF AfterStart, clientVars
    <3> QED
      BY <3>1, <3>2, OutsideOfContract
  <2>10. ASSUME NEW t \in Threads, Stop(t) PROVE Iface!Stop
    <3>1. mu = Free /\ mu' = Free /\ isRunning' = FALSE
      BY <2>10 DEF Stop
    <3> QED
      BY <3>1 DEF Settled, Iface!Stop
  <2>11. ASSUME NEW t \in Threads, ReadProtocol(t) \/ WriteRequest(t) \/ ReceiveAnswer(t)
         PROVE  UNCHANGED <<starter, running>>
    <3>1. mu # t
      BY <2>0, <2>11 DEF ReadProtocol, WriteRequest, ReceiveAnswer, HolderOK, Holding, InHandshake
    <3>2. (\E label \in {"writing", "waiting", "idle"} : Goto(t, label)) /\ UNCHANGED <<mu, isRunning>>
      BY <2>11 DEF ReadProtocol, WriteRequest, ReceiveAnswer, clientVars
    <3> QED
      BY <3>1, <3>2, OutsideOfContract
  <2>12. ASSUME UNCHANGED <<mu, isRunning, pc>> PROVE UNCHANGED <<starter, running>>
    BY <2>12 DEF Settled, starter, running
  <2>13. ASSUME NEW t \in Threads, Expire(t) \/ Answer(t) PROVE UNCHANGED <<starter, running>>
    BY <2>12, <2>13 DEF Expire, Answer, clientVars
  <2>14. ASSUME NEW p \in Incs, Watch(p) \/ Exit(p) PROVE UNCHANGED <<starter, running>>
    BY <2>12, <2>14 DEF Watch, Exit, clientVars
  <2>15. CASE UNCHANGED vars
    BY <2>12, <2>15 DEF vars, clientVars
  <2>16. ASSUME NEW t \in Threads, Lock(t) \/ ThreadStep(t)
         PROVE  Iface!Next \/ UNCHANGED <<starter, running>>
    BY <2>2, <2>3, <2>4, <2>5, <2>6, <2>7, <2>8, <2>9, <2>10, <2>11, <2>16
    DEF Lock, ThreadStep, Iface!Next
  <2> QED
    BY <2>1, <2>13, <2>14, <2>15, <2>16 DEF Next
<1>3. QED
  BY <1>1, <1>2, Invariance, PTL DEF Spec, ImplementsClientIface, Iface!Spec
-----------------------------------------------------------------------------
(* Which Starts hang, and for how long.                                    *)

HangsForGood == \A t \in Threads : Hangs(t) => Hangs(t)'

\* The exception of StartStopReturn has no end: a Start whose handshake failed,
\* or whose process died before it answered, keeps the mutex for ever, so that no
\* Stop, no other Start and no IsRunning of this client returns any more.
THEOREM HangsForever == Spec => [][HangsForGood]_vars
<1>1. IInv /\ [Next]_vars => HangsForGood
  <2> SUFFICES ASSUME Types, HolderOK, [Next]_vars, NEW t \in Threads, Hangs(t) PROVE Hangs(t)'
    BY DEF HangsForGood, IInv
  <2> USE DEF Holding, InHandshake, Goto
  <2>1. /\ mu = t /\ mu # Free
        /\ pc[t] = "stopping" \/ (pc[t] = "awaiting" /\ ~Live(target[t]) /\ answer[t] = "none")
        /\ \A u \in Threads : pc[u] # "starting" /\ (pc[u] \in InHandshake => u = t)
    BY DEF Hangs, HolderOK
  \* Nobody else gets the mutex, and t waits: for it, or for its answer.
  <2>2. ASSUME NEW u \in Threads, Lock(u) PROVE mu' = t /\ UNCHANGED <<pc[t], target, answer, proc>>
    BY <2>1, <2>2 DEF Lock, LockStart, Stop, IsRunning
  <2>3. ASSUME NEW u \in Threads, Begin(u) \/ ThreadStep(u) \/ Expire(u)
        PROVE  mu' = t /\ UNCHANGED <<pc[t], target[t], answer[t], proc>>
    <3>1. CASE Begin(u) \/ Expire(u)
      BY <2>1, <3>1 DEF Begin, Expire, Types, clientVars, requestVars, procVars
    <3>2. CASE AfterStart(u) \/ ReadProtocol(u) \/ WriteRequest(u) \/ ReceiveAnswer(u)
      BY <2>1, <3>2 DEF AfterStart, ReadProtocol, WriteRequest, ReceiveAnswer, Types, clientVars,
         requestVars, procVars
    <3>3. CASE Refuse(u) \/ SpawnFails(u) \/ Spawn(u) \/ SendInitialize(u) \/ SendInitialized(u)
               \/ InitializeAnswered(u)
      BY <2>1, <3>3 DEF Refuse, SpawnFails, Spawn, SendInitialize, SendInitialized,
         InitializeAnswered
    <3> QED
      BY <2>3, <3>1, <3>2, <3>3 DEF ThreadStep
  <2>4. ASSUME NEW u \in Threads, Answer(u)
        PROVE  UNCHANGED <<mu, pc, target, proc>> /\ (answer'[t] = answer[t] \/ Live(target[t]))
    BY <2>4 DEF Answer, Types, clientVars, procVars
  <2>5. ASSUME NEW p \in Incs, Watch(p) \/ Exit(p)
        PROVE  UNCHANGED <<mu, pc, target, answer>> /\ \A q \in Incs : Live(q)' => Live(q)
    BY <2>5 DEF Watch, Exit, Kill, Live, Types, clientVars, requestVars
  <2>6. CASE UNCHANGED vars
    BY <2>1, <2>6 DEF Hangs, Live, vars, clientVars, requestVars, procVars
  <2>7. QED
    <3>1. ASSUME UNCHANGED <<mu, pc[t], target[t]>>, answer'[t] = answer[t] \/ Live(target[t]),
                 Live(target[t])' => Live(target[t])
          PROVE  Hangs(t)'
      BY <2>1, <3>1 DEF Hangs
    <3>2. ASSUME proc' = proc, target'[t] = target[t] PROVE Live(target[t])' => Live(target[t])
      BY <3>2 DEF Live
    <3>3. ASSUME NEW p \in Incs, Watch(p) \/ Exit(p) PROVE Live(target[t])' => Live(target[t])
      BY <2>5, <3>3 DEF Live
    <3> QED
      BY <2>1, <2>2, <2>3, <2>4, <2>5, <2>6, <3>1, <3>2, <3>3 DEF Next
<1>2. QED
  BY <1>1, Invariance, PTL DEF Spec
-----------------------------------------------------------------------------
(* What becomes of the request that a lazy start is made for.              *)

Requesting == {"calling", "writing", "waiting"}
Opening == {"locking", "starting", "initializing", "awaiting", "notifying", "started", "refused"}

\* The process of a lazy start is doomed by the time its handler turns to the
\* call, and a request waits for a process that has been spawned.
CallersOK ==
    \A t \in Threads :
        /\ pc[t] \in Requesting => op[t] = "call"
        /\ pc[t] = "checking" => op[t] \in {"lazy", "call"}
        /\ pc[t] \in Opening => op[t] \in Starting
        /\ op[t] = "lazy" /\ pc[t] = "checking" => mine[t] = None
        /\ op[t] = "call" /\ mine[t] # None => mine[t] \in doomed
        /\ pc[t] = "waiting" => target[t] \in Incs /\ proc[target[t]] # "none"

\* The request of a lazy start, while it waits for its answer, waits for a
\* process whose context the handler has cancelled.
LazyDoomed == \A t \in Threads : pc[t] = "waiting" /\ target[t] = mine[t] => target[t] \in doomed

\* A request whose process died before it answered.
Lost(t) == pc[t] = "waiting" /\ ~Live(target[t]) /\ answer[t] = "none"
LostForGood == \A t \in Threads : Lost(t) => Lost(t)'

LEMMA CallersInit == Init => CallersOK
  BY DEF Init, CallersOK, Requesting, Opening

\* A step of t leaves the other threads where they are, cancels no cancellation
\* and unspawns no process; it is enough to look at t.
LEMMA CallersOf ==
    ASSUME Types, CallersOK, NEW t \in Threads,
           \A u \in Threads \ {t} :
              UNCHANGED <<pc[u], op[u], mine[u], target[u]>>,
           doomed \subseteq doomed',
           \A p \in Incs : proc[p] # "none" => proc'[p] # "none",
           /\ pc'[t] \in Requesting => op'[t] = "call"
           /\ pc'[t] = "checking" => op'[t] \in {"lazy", "call"}
           /\ pc'[t] \in Opening => op'[t] \in Starting
           /\ op'[t] = "lazy" /\ pc'[t] = "checking" => mine'[t] = None
           /\ op'[t] = "call" /\ mine'[t] # None => mine'[t] \in doomed'
           /\ pc'[t] = "waiting" => target'[t] \in Incs /\ proc'[target'[t]] # "none"
    PROVE  CallersOK'
<1> SUFFICES ASSUME NEW u \in Threads, u # t
             PROVE  /\ pc'[u] \in Requesting => op'[u] = "call"
                    /\ pc'[u] = "checking" => op'[u] \in {"lazy", "call"}
                    /\ pc'[u] \in Opening => op'[u] \in Starting
                    /\ op'[u] = "lazy" /\ pc'[u] = "checking" => mine'[u] = None
                    /\ op'[u] = "call" /\ mine'[u] # None => mine'[u] \in doomed'
                    /\ pc'[u] = "waiting" => target'[u] \in Incs /\ proc'[target'[u]] # "none"
  BY DEF CallersOK
<1>1. UNCHANGED <<pc[u], op[u], mine[u], target[u]>>
  OBVIOUS
<1> QED
  BY <1>1 DEF CallersOK

LEMMA CallersStep == Types /\ CallersOK /\ [Next]_vars => CallersOK'
<1> SUFFICES ASSUME Types, CallersOK, [Next]_vars PROVE CallersOK'
  OBVIOUS
<1> USE DEF Types, Goto, Requesting, Opening, clientVars, opVars, requestVars, procVars
<1>1. ASSUME NEW t \in Threads, Begin(t) PROVE CallersOK'
  <2>1. PICK o \in Ops : op' = [op EXCEPT ![t] = o] /\ pc' = [pc EXCEPT ![t] = Entry(o)]
    BY <1>1 DEF Begin
  <2>2. /\ op'[t] = o /\ pc'[t] = Entry(o) /\ mine'[t] = None
        /\ Entry(o) \in {"locking", "checking", "stopping"}
        /\ Entry(o) = "checking" => o \in {"lazy", "call"}
        /\ Entry(o) = "locking" => o \in Starting
    BY <1>1, <2>1 DEF Begin, Entry, OpNames, Starting
  <2>3. \A u \in Threads \ {t} : UNCHANGED <<pc[u], op[u], mine[u], target[u]>>
    BY <1>1, <2>1 DEF Begin
  <2>4. doomed' = doomed /\ proc' = proc
    BY <1>1 DEF Begin
  <2> QED
    BY <2>2, <2>3, <2>4, CallersOf
<1>2. ASSUME NEW t \in Threads, IsRunning(t) PROVE CallersOK'
  <2>1. UNCHANGED <<mine, target, procVars>> /\ pc[t] = "checking"
    BY <1>2 DEF IsRunning
  <2>2. \A u \in Threads \ {t} : UNCHANGED <<pc[u], op[u]>>
    BY <1>2 DEF IsRunning
  <2>3. /\ pc'[t] \in {"checking", "calling", "locking", "idle"}
        /\ pc'[t] \in {"checking", "calling"} => op'[t] = "call"
        /\ op'[t] = "call" /\ mine[t] # None => mine[t] \in doomed
        /\ pc'[t] = "locking" => op'[t] \in Starting
    BY <1>2 DEF IsRunning, CallersOK, Starting
  <2> QED
    BY <2>1, <2>2, <2>3, CallersOf
<1>3. ASSUME NEW t \in Threads, NEW label, Goto(t, label), pc[t] \in Opening,
             label \in Opening \union {"stopping", "idle"}, UNCHANGED <<op, mine, target>>,
             doomed' = doomed, proc' = proc
      PROVE  CallersOK'
  BY <1>3 DEF CallersOK
<1>4. ASSUME NEW t \in Threads, LockStart(t) \/ Refuse(t) \/ SpawnFails(t) PROVE CallersOK'
  BY <1>3, <1>4 DEF LockStart, Refuse, SpawnFails
<1>5. ASSUME NEW t \in Threads, Spawn(t) PROVE CallersOK'
  <2>1. PICK p \in Incs : SpawnAs(t, p)
    BY <1>5 DEF Spawn
  <2>2. \A u \in Threads \ {t} : UNCHANGED <<pc[u], op[u], mine[u], target[u]>>
    BY <2>1 DEF SpawnAs
  <2>3. doomed' = doomed /\ \A q \in Incs : proc[q] # "none" => proc'[q] # "none"
    BY <2>1 DEF SpawnAs
  <2>4. pc[t] = "starting" /\ op[t] \in Starting
    BY <1>5 DEF Spawn, CallersOK
  <2>5. pc'[t] = "initializing" /\ op'[t] \in Starting
    BY <2>1, <2>4 DEF SpawnAs
  <2>6. op'[t] # "call"
    BY <2>5 DEF Starting
  <2> QED
    BY <2>2, <2>3, <2>5, <2>6, CallersOf
<1>6. ASSUME NEW t \in Threads, SendInitialize(t) \/ InitializeAnswered(t) \/ SendInitialized(t)
      PROVE  CallersOK'
  <2>1. CASE SendInitialize(t)
    BY <1>3, <2>1 DEF SendInitialize, FailStart
  <2>2. CASE InitializeAnswered(t)
    BY <1>3, <2>2 DEF InitializeAnswered, FailStart
  <2>3. CASE SendInitialized(t)
    BY <1>3, <2>3 DEF SendInitialized, FailStart
  <2> QED
    BY <1>6, <2>1, <2>2, <2>3
<1>7. ASSUME NEW t \in Threads, AfterStart(t) PROVE CallersOK'
  <2>1. /\ op[t] \in Starting /\ UNCHANGED <<mine, target, proc>> /\ doomed \subseteq doomed'
        /\ op[t] # "start" /\ mine[t] # None => mine[t] \in doomed'
    BY <1>7 DEF AfterStart, CallersOK, CancelContext
  <2>2. \A u \in Threads \ {t} : UNCHANGED <<pc[u], op[u]>>
    BY <1>7 DEF AfterStart
  <2>3. \/ pc'[t] = "checking" /\ op'[t] = "call" /\ op[t] = "lazy"
        \/ pc'[t] = "idle" /\ op'[t] = op[t]
    BY <1>7 DEF AfterStart
  <2>4. op'[t] = "call" => op[t] # "start"
    BY <2>1, <2>3 DEF Starting
  <2> QED
    BY <2>1, <2>2, <2>3, <2>4, CallersOf
<1>8. ASSUME NEW t \in Threads, Expire(t) PROVE CallersOK'
  BY <1>8 DEF Expire, CancelContext, CallersOK
<1>9. ASSUME NEW t \in Threads, Stop(t) PROVE CallersOK'
  <2>1. \A u \in Threads : pc'[u] = pc[u] \/ pc'[u] = "idle"
    BY <1>9 DEF Stop
  <2>2. UNCHANGED <<op, mine, target, doomed>> /\ \A p \in Incs : proc[p] # "none" => proc'[p] # "none"
    BY <1>9 DEF Stop, Kill
  <2> QED
    BY <2>1, <2>2 DEF CallersOK
<1>10. ASSUME NEW t \in Threads, ReadProtocol(t) \/ WriteRequest(t) \/ ReceiveAnswer(t)
       PROVE  CallersOK'
  <2>1. CASE ReadProtocol(t)
    BY <2>1 DEF ReadProtocol, CallersOK
  <2>2. CASE WriteRequest(t)
    BY <2>2 DEF WriteRequest, CallersOK, Live
  <2>3. CASE ReceiveAnswer(t)
    BY <2>3 DEF ReceiveAnswer, CallersOK
  <2> QED
    BY <1>10, <2>1, <2>2, <2>3
<1>11. ASSUME NEW t \in Threads, Answer(t) PROVE CallersOK'
  BY <1>11 DEF Answer, CallersOK
<1>12. ASSUME NEW p \in Incs, Watch(p) \/ Exit(p) PROVE CallersOK'
  <2>1. UNCHANGED <<pc, op, mine, target, doomed>>
        /\ \A q \in Incs : proc[q] # "none" => proc'[q] # "none"
    BY <1>12 DEF Watch, Exit, Kill
  <2> QED
    BY <2>1 DEF CallersOK
<1>13. CASE UNCHANGED vars
  BY <1>13 DEF vars, CallersOK
<1> QED
  BY <1>1, <1>2, <1>4, <1>5, <1>6, <1>7, <1>8, <1>9, <1>10, <1>11, <1>12, <1>13
  DEF Next, Lock, ThreadStep

\* Whenever a handler starts a client to make a call (http.go:554), the call
\* goes to a process that os/exec is about to kill, under any interleaving and
\* however long the server takes; and if the kill comes before the answer the
\* call never ends, whatever is started or stopped later.
THEOREM LazyStartsAreDoomed == Spec => []LazyDoomed /\ [][LostForGood]_vars
<1>1. CallersOK => LazyDoomed
  <2> SUFFICES ASSUME CallersOK, NEW t \in Threads, pc[t] = "waiting", target[t] = mine[t]
               PROVE  target[t] \in doomed
    BY DEF LazyDoomed
  <2>1. op[t] = "call" /\ target[t] \in Incs
    BY DEF CallersOK, Requesting
  <2> QED
    BY <2>1 DEF CallersOK
<1>2. Types /\ CallersOK /\ [Next]_vars => LostForGood
  <2> SUFFICES ASSUME Types, CallersOK, [Next]_vars, NEW t \in Threads, Lost(t) PROVE Lost(t)'
    BY DEF LostForGood
  <2> USE DEF Types, Goto, clientVars, opVars, requestVars, procVars
  <2>1. /\ pc[t] = "waiting" /\ answer[t] = "none" /\ target[t] \in Incs
        /\ proc[target[t]] = "dead"
    BY DEF Lost, CallersOK, Live
  <2>2. ASSUME UNCHANGED <<pc[t], target[t], answer[t]>>, proc'[target[t]] = "dead" PROVE Lost(t)'
    BY <2>1, <2>2 DEF Lost, Live
  <2>3. ASSUME NEW u \in Threads, Begin(u) \/ LockStart(u) \/ Refuse(u) \/ SpawnFails(u) \/ Expire(u)
        PROVE  Lost(t)'
    BY <2>1, <2>2, <2>3 DEF Begin, LockStart, Refuse, SpawnFails, Expire
  <2>4. ASSUME NEW u \in Threads, IsRunning(u) PROVE Lost(t)'
    BY <2>1, <2>2, <2>4 DEF IsRunning
  <2>5. ASSUME NEW u \in Threads, Stop(u) PROVE Lost(t)'
    BY <2>1, <2>2, <2>5 DEF Stop, Kill, Live
  <2>6. ASSUME NEW u \in Threads, Spawn(u) PROVE Lost(t)'
    BY <2>1, <2>2, <2>6 DEF Spawn, SpawnAs
  <2>7. ASSUME NEW u \in Threads,
               SendInitialize(u) \/ InitializeAnswered(u) \/ SendInitialized(u) \/ AfterStart(u)
        PROVE  Lost(t)'
    BY <2>1, <2>2, <2>7
    DEF SendInitialize, InitializeAnswered, SendInitialized, FailStart, AfterStart
  <2>8. ASSUME NEW u \in Threads, ReadProtocol(u) \/ WriteRequest(u) \/ ReceiveAnswer(u)
        PROVE  Lost(t)'
    BY <2>1, <2>2, <2>8 DEF ReadProtocol, WriteRequest, ReceiveAnswer
  <2>9. ASSUME NEW u \in Threads, Answer(u) PROVE Lost(t)'
    BY <2>1, <2>2, <2>9 DEF Answer, Live
  <2>10. ASSUME NEW p \in Incs, Watch(p) \/ Exit(p) PROVE Lost(t)'
    BY <2>1, <2>2, <2>10 DEF Watch, Exit, Kill, Live
  <2>11. CASE UNCHANGED vars
    BY <2>1, <2>2, <2>11 DEF vars
  <2> QED
    BY <2>3, <2>4, <2>5, <2>6, <2>7, <2>8, <2>9, <2>10, <2>11 DEF Next, Lock, ThreadStep
<1>3. IInv => Types
  BY DEF IInv
<1> QED
  BY <1>1, <1>2, <1>3, CallersInit, CallersStep, Invariance, PTL DEF Spec
=============================================================================
