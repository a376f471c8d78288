--------------------------- MODULE Runtime_proofs ---------------------------
(***************************************************************************)
(* Theorems about Runtime, for any threads, servers and clients.  The      *)
(* manager's invariant comes from Manager_proofs, since every step of the  *)
(* runtime is one of the manager or leaves it alone.                       *)
(***************************************************************************)
EXTENDS Runtime, Manager_proofs

USE RuntimeAssumption

-----------------------------------------------------------------------------
(* The runtime implements the manager.                                     *)

LEMMA StepOfManager == [RuntimeNext]_allVars => [Next]_vars
<1> SUFFICES ASSUME [RuntimeNext]_allVars PROVE [Next]_vars
  OBVIOUS
<1>1. CASE UNCHANGED allVars
  BY <1>1 DEF allVars
<1>2. CASE Listen \/ Serve \/ DieEarly \/ Signal \/ Exit \/ OpenStream \/ CloseStreams
  BY <1>2 DEF Listen, Serve, DieEarly, Signal, Exit, OpenStream, CloseStreams, Draining
<1>3. CASE StopServers
  <2>1. Begin(Main) /\ Main \in Threads
    BY <1>3 DEF StopServers
  <2> QED
    BY <2>1 DEF Next
<1>4. ASSUME NEW t \in Threads, Proceed(t) PROVE [Next]_vars
  BY <1>4 DEF Proceed, Works, Starts, Shakes, Next, Step, Handshake
<1>5. ASSUME NEW t \in Threads, Call(t) PROVE [Next]_vars
  BY <1>5 DEF Call, Bootstraps, Handles, Next
<1> QED
  BY <1>1, <1>2, <1>3, <1>4, <1>5 DEF RuntimeNext

\* Whatever main does around it, the manager behaves as Manager says.
THEOREM RuntimeImplementsManager == RuntimeSpec => ImplementsManager
<1>1. RuntimeInit => Init
  BY DEF RuntimeInit
<1> QED
  BY <1>1, StepOfManager, PTL DEF RuntimeSpec, ImplementsManager, Spec

-----------------------------------------------------------------------------
(* What a step does, as far as the invariants need it.                     *)

LEMMA MadeAreClients ==
    ASSUME Types
    PROVE  made \in Nat /\ 1 .. made \subseteq Clients
  BY ConstantsAssumption DEF Types, Clients

\* Only a Start leads into a handshake, only the end of one makes a client run,
\* and only a new client comes into the map.
LEMMA WorkFacts ==
    ASSUME IInv, NEW t \in Threads, Works(t)
    PROVE  /\ pc'[t] # "handshake"
           /\ \A c \in Clients : isRunning'[c] => isRunning[c]
           /\ \A c \in Mapped' : c \in Mapped \/ c = made + 1
<1> USE DEF IInv, Types, Clients
<1>1. Enter(t) \/ (Step(t) /\ ~StartLock(t))
  BY DEF Works, StartLock
<1>2. pc'[t] # "handshake"
  <2>1. CASE LookUp(t) /\ clients[name[t]] # 0
    BY <2>1 DEF LookUp, Goto, HasClient
  <2>2. CASE LookUp(t) /\ clients[name[t]] = 0
    BY <2>2 DEF LookUp, Goto, Return
  <2>3. CASE ~LookUp(t)
    BY <1>1, <2>3 DEF Enter, Step, RLock, Announce, Drained, CheckFree, Insert, Find, Probe, Halt,
       Delete, Visit, EndVisit, Stop, GoOn, Goto, Return
  <2> QED
    BY <2>1, <2>2, <2>3
<1>3. UNCHANGED isRunning \/ isRunning' = [isRunning EXCEPT ![hand[t]] = FALSE]
  BY <1>1 DEF Enter, Step, RLock, Announce, Drained, CheckFree, Insert, Find, Probe, Halt,
     Delete, Visit, EndVisit, LookUp, Stop, clientVars
<1>4. ASSUME NEW c \in Mapped' PROVE c \in Mapped \/ c = made + 1
  <2>1. CASE Insert(t)
    BY <1>4, <2>1 DEF Insert, Mapped
  <2>2. CASE Delete(t)
    BY <1>4, <2>2 DEF Delete, Mapped
  <2>3. CASE UNCHANGED clients
    BY <1>4, <2>3 DEF Mapped
  <2> QED
    BY <1>1, <2>1, <2>2, <2>3 DEF Enter, Step, RLock, Announce, Drained, CheckFree, Find,
       Probe, Halt, Visit, EndVisit, LookUp, Stop, RUnlock, managerVars
<1>5. \A c \in Clients : isRunning'[c] => isRunning[c]
  BY <1>3
<1> QED
  BY <1>2, <1>4, <1>5

\* A Start locks a client nobody handshakes with, under the context of its
\* thread.
LEMMA StartFacts ==
    ASSUME IInv, NEW t \in Threads, Starts(t)
    PROVE  /\ UNCHANGED <<clients, made, isRunning>>
           /\ hand[t] \in 1 .. made
           /\ \/ pc'[t] = "idle" /\ UNCHANGED startVars
              \/ /\ pc'[t] = "handshake" /\ hand'[t] = hand[t]
                 /\ ~isRunning[hand[t]] /\ held[hand[t]] = None
                 /\ context' = [context EXCEPT ![hand[t]] = ContextOf(t)]
                 /\ escaped' = IF Passed(hand[t]) THEN escaped \union {hand[t]} ELSE escaped
<1> USE DEF IInv, Types
<1>1. hand[t] \in 1 .. made
  BY DEF Starts, StartLock, HasClient, Working
<1>2. UNCHANGED <<clients, made, isRunning>>
  BY DEF Starts, StartLock, managerVars
<1>3. CASE isRunning[hand[t]]
  BY <1>1, <1>2, <1>3 DEF Starts, StartLock, Return, Goto
<1>4. CASE ~isRunning[hand[t]]
  BY <1>1, <1>2, <1>4 DEF Starts, StartLock, GoOn, Goto, locals
<1> QED
  BY <1>3, <1>4

\* A handshake under a cancelled context does not make the client run.
LEMMA ShakeFacts ==
    ASSUME IInv, NEW t \in Threads, Shakes(t)
    PROVE  /\ pc[t] = "handshake" /\ pc'[t] # "handshake"
           /\ UNCHANGED <<clients, made, startVars>>
           /\ hand[t] \in 1 .. made
           /\ \/ UNCHANGED isRunning
              \/ /\ context[hand[t]] # "cancelled"
                 /\ isRunning' = [isRunning EXCEPT ![hand[t]] = TRUE]
<1> USE DEF IInv, Types
<1>1. pc[t] = "handshake" /\ hand[t] \in 1 .. made
  BY DEF Shakes, HasClient, Working
<1>2. Handshake(t) /\ UNCHANGED startVars
  BY DEF Shakes, Handshake
<1>3. pc'[t] # "handshake" /\ UNCHANGED <<clients, made>>
  BY <1>2 DEF Handshake, HandshakeOK, SpawnFails, HandshakeFails, GoOn, Goto, Return, managerVars
<1>4. CASE context[hand[t]] = "cancelled"
  BY <1>1, <1>2, <1>3, <1>4 DEF Shakes, SpawnFails
<1>5. CASE context[hand[t]] # "cancelled"
  BY <1>1, <1>2, <1>3, <1>5 DEF Handshake, HandshakeOK, SpawnFails, HandshakeFails, clientVars
<1> QED
  BY <1>4, <1>5

-----------------------------------------------------------------------------
(* The invariant.                                                          *)

\* Where main is in its code, and in StopAll.
PhaseInv ==
    /\ cancelled <=> phase \in {"stopping", "stopAll", "exited"}
    /\ phase \in {"listening", "serving", "stopping", "exited"} => pc[Main] = "idle"
    /\ phase = "stopAll" =>
         /\ pc[Main] \in {"rlock", "visiting", "halting", "idle"}
         /\ pc[Main] # "idle" => op[Main] = "stopAll"

\* What runs, or is about to, behind StopAll's back escaped it and does not
\* depend on main's context.
PassedInv ==
    \A c \in 1 .. made : Passed(c) /\ c \in Mapped =>
        /\ isRunning[c] => c \in escaped /\ context[c] = "own"
        /\ \A t \in Threads : pc[t] = "handshake" /\ hand[t] = c =>
             c \in escaped /\ context[c] \in {"own", "cancelled"}

Fresh == \A c \in Clients : isRunning[c] => c \in 1 .. made

RInv == IInv /\ RuntimeTypeOK /\ PhaseInv /\ Fresh /\ PassedInv
LEMMA InitInv == Init => IInv
<1> SUFFICES ASSUME Init PROVE IInv
  OBVIOUS
<1>1. Types /\ HasClient
  BY TypeInit
<1>2. WriterInv /\ StartsInv
  BY DEF Init, WriterInv, Injective, WriterOf, InWriter, Removing, StartsInv
<1> QED
  BY <1>1, <1>2 DEF IInv

LEMMA RuntimeInitInv == RuntimeInit => RInv
<1> SUFFICES ASSUME RuntimeInit PROVE RInv
  OBVIOUS
<1>1. Init
  BY DEF RuntimeInit
<1>2. IInv
  BY <1>1, InitInv
<1>3. RuntimeTypeOK
  BY <1>2 DEF RuntimeInit, RuntimeTypeOK, IInv, Phases
<1>4. PhaseInv /\ Fresh
  BY <1>1 DEF RuntimeInit, Init, PhaseInv, Fresh
<1>5. PassedInv
  BY DEF RuntimeInit, PassedInv, Passed
<1> QED
  BY <1>2, <1>3, <1>4, <1>5 DEF RInv

LEMMA RuntimeTypeStep == RInv /\ [RuntimeNext]_allVars => RuntimeTypeOK'
<1> SUFFICES ASSUME RInv, [RuntimeNext]_allVars PROVE RuntimeTypeOK'
  OBVIOUS
<1> USE DEF RInv, RuntimeTypeOK, Phases, mainVars, startVars
<1>1. Types' /\ made' >= made /\ made' \in Nat /\ made \in Nat
  BY StepOfManager, TypeStep, MadeGrows DEF IInv, Types
<1>2. CASE UNCHANGED allVars
  BY <1>1, <1>2 DEF allVars, runtimeVars
<1>3. CASE Listen \/ Serve \/ DieEarly \/ Signal \/ StopServers \/ Exit \/ OpenStream \/ CloseStreams
  <2>1. UNCHANGED startVars /\ phase' \in Phases
        /\ cancelled' \in BOOLEAN /\ streaming' \in BOOLEAN
    BY <1>3 DEF Listen, Serve, DieEarly, Signal, StopServers, Exit, OpenStream, CloseStreams, Draining
  <2> QED
    BY <1>1, <2>1
<1>4. ASSUME NEW t \in Threads, Starts(t), UNCHANGED mainVars PROVE RuntimeTypeOK'
  <2>1. hand[t] \in 1 .. made
    BY <1>4, StartFacts
  <2>2. ContextOf(t) \in {"own", "main", "cancelled"}
    BY DEF ContextOf
  <2>3. context' \in [Clients -> {None, "own", "main", "cancelled"}]
    <3>1. context' = context \/ context' = [context EXCEPT ![hand[t]] = ContextOf(t)]
      BY <1>4, StartFacts
    <3> QED
      BY <2>2, <3>1
  <2>4. escaped' \subseteq 1 .. made'
    <3>1. escaped' = escaped \/ escaped' = escaped \union {hand[t]}
      BY <1>4, StartFacts
    <3>2. 1 .. made \subseteq 1 .. made'
      BY <1>1
    <3>3. escaped \subseteq 1 .. made
      OBVIOUS
    <3> HIDE DEF RInv, RuntimeTypeOK
    <3> QED
      BY <2>1, <3>1, <3>2, <3>3
  <2> QED
    BY <1>1, <1>4, <2>3, <2>4
<1>5. ASSUME NEW t \in Threads, Proceed(t), ~Starts(t) PROVE RuntimeTypeOK'
  <2>1. UNCHANGED <<phase, cancelled, streaming, context, escaped>>
    BY <1>5 DEF Proceed, Works, Shakes
  <2> QED
    BY <1>1, <2>1
<1>6. ASSUME NEW t \in Threads, Call(t), UNCHANGED mainVars PROVE RuntimeTypeOK'
  BY <1>1, <1>6 DEF Call
<1> QED
  BY <1>2, <1>3, <1>4, <1>5, <1>6 DEF RuntimeNext, Proceed

LEMMA FreshStep == RInv /\ [RuntimeNext]_allVars => Fresh'
<1> SUFFICES ASSUME RInv, [RuntimeNext]_allVars PROVE Fresh'
  OBVIOUS
<1> USE DEF RInv
<1>1. \A c \in 1 .. made : c \in 1 .. made'
  BY StepOfManager, MadeGrows DEF IInv, Types
<1>2. \A c \in Clients : isRunning'[c] => isRunning[c] \/ c \in 1 .. made
  <2>1. CASE UNCHANGED isRunning
    BY <2>1
  <2>2. ASSUME NEW t \in Threads, Works(t) \/ Starts(t) \/ Shakes(t)
        PROVE  \A c \in Clients : isRunning'[c] => isRunning[c] \/ c \in 1 .. made
    BY <2>2, WorkFacts, StartFacts, ShakeFacts DEF IInv, Types
  <2>3. ASSUME NEW t \in Threads, Call(t) PROVE UNCHANGED isRunning
    BY <2>3 DEF Call, Bootstraps, Handles, Begin, clientVars
  <2>4. CASE Listen \/ Serve \/ DieEarly \/ Signal \/ StopServers \/ Exit \/ OpenStream \/ CloseStreams
    BY <2>4 DEF Listen, Serve, DieEarly, Signal, StopServers, Exit, OpenStream, CloseStreams, Draining, Begin, vars, clientVars
  <2> QED
    BY <2>1, <2>2, <2>3, <2>4 DEF RuntimeNext, Proceed, allVars, vars, clientVars
<1> QED
  BY <1>1, <1>2 DEF Fresh

\* In StopAll main takes the read lock, visits, stops and returns.
LEMMA MainSteps ==
    ASSUME RInv, phase = "stopAll", Works(Main) \/ Starts(Main) \/ Shakes(Main)
    PROVE  \/ RLock(Main) \/ EndVisit(Main) \/ Halt(Main)
           \/ \E c \in Clients : Visit(Main, c)
<1>1. pc[Main] \in {"rlock", "visiting", "halting", "idle"}
  BY DEF RInv, PhaseInv
<1> QED
  BY <1>1 DEF Works, Starts, Shakes, Enter, Step, RLock, Announce, Drained, CheckFree, Insert, Find,
     Probe, Delete, LookUp, Stop, StartLock

LEMMA PhaseStep == RInv /\ [RuntimeNext]_allVars => PhaseInv'
<1> SUFFICES ASSUME RInv, [RuntimeNext]_allVars PROVE PhaseInv'
  OBVIOUS
<1> USE DEF RInv, PhaseInv, mainVars
<1>0. Main \in Threads /\ Types
  BY DEF IInv
<1>1. CASE UNCHANGED allVars
  BY <1>1 DEF allVars, vars, runtimeVars, locals
<1>2. CASE Listen \/ Serve \/ DieEarly \/ Signal \/ Exit \/ OpenStream \/ CloseStreams
  BY <1>2 DEF Listen, Serve, DieEarly, Signal, Exit, OpenStream, CloseStreams, Draining, vars, locals
<1>3. CASE StopServers
  <2>1. pc'[Main] = "rlock" /\ op'[Main] = "stopAll"
    BY <1>0, <1>3 DEF StopServers, Begin, Goto, Writers, Types
  <2> QED
    BY <1>3, <2>1 DEF StopServers
<1>4. ASSUME NEW t \in Threads \ {Main}, Proceed(t) \/ (Call(t) /\ UNCHANGED mainVars)
      PROVE  PhaseInv'
  <2>1. Begin(t) \/ Enter(t) \/ Step(t) \/ Handshake(t)
    BY <1>4 DEF Proceed, Works, Starts, Shakes, Call, Bootstraps, Handles, Step, Handshake
  <2>2. UNCHANGED <<pc[Main], op[Main]>>
    BY <1>0, <2>1, OthersStay
  <2> QED
    BY <1>4, <2>2 DEF Proceed
<1>5. CASE Call(Main) /\ UNCHANGED mainVars
  BY <1>5 DEF Call, Bootstraps, Handles
<1>6. CASE Proceed(Main)
  <2>1. CASE phase = "stopAll"
    <3>1. \/ pc'[Main] = "idle"
          \/ pc'[Main] \in {"visiting", "halting"} /\ op'[Main] = op[Main]
      <4>1. pc[Main] # "idle" /\ op[Main] = "stopAll"
        BY <1>6, <2>1, MainSteps DEF Proceed, RLock, EndVisit, Halt, Visit
      <4>2. RLock(Main) \/ EndVisit(Main) \/ Halt(Main) \/ \E c \in Clients : Visit(Main, c)
        BY <1>6, <2>1, MainSteps DEF Proceed
      <4>3. CASE RLock(Main)
        BY <1>0, <4>1, <4>3 DEF RLock, Goto, Walkers, Types
      <4>4. CASE EndVisit(Main)
        BY <1>0, <4>4 DEF EndVisit, Return, Goto, Types
      <4>5. CASE Halt(Main)
        BY <1>0, <4>1, <4>5 DEF Halt, GoOn, Goto, locals, Types
      <4>6. CASE \E c \in Clients : Visit(Main, c)
        BY <1>0, <4>6 DEF Visit, Goto, Types
      <4> QED
        BY <4>2, <4>3, <4>4, <4>5, <4>6
    <3>2. pc[Main] # "idle"
      BY <1>6, <2>1, MainSteps DEF Proceed, RLock, EndVisit, Halt, Visit
    <3> QED
      BY <1>6, <2>1, <3>1, <3>2 DEF Proceed
  <2>2. CASE phase \in {"boot", "killed"}
    BY <1>6, <2>2 DEF Proceed
  <2>3. CASE phase \in {"listening", "serving", "stopping"}
    <3>1. pc[Main] = "idle"
      BY <2>3
    <3>2. FALSE
      BY <1>6, <3>1 DEF Proceed, Works, Starts, Shakes, Enter, Step, RLock, Announce, Drained,
         CheckFree, Insert, Find, Probe, Halt, Delete, Visit, EndVisit, LookUp, Stop, StartLock
    <3> QED
      BY <3>2
  <2> QED
    BY <1>6, <2>1, <2>2, <2>3 DEF Proceed, Gone, RuntimeTypeOK, Phases
<1> QED
  BY <1>1, <1>2, <1>3, <1>4, <1>5, <1>6 DEF RuntimeNext
\* StopAll comes to be past a client only when it does not run and nobody
\* handshakes with it.
LEMMA PassedLater ==
    ASSUME RInv, NEW t \in Threads, Works(t) \/ Starts(t) \/ Shakes(t), ~Gone, UNCHANGED mainVars,
           NEW c \in 1 .. made, c \in Mapped, ~Passed(c), Passed(c)'
    PROVE  ~isRunning'[c] /\ held[c] = None /\ UNCHANGED held
<1> USE DEF RInv, IInv, Types, mainVars
<1>1. phase = "stopAll" /\ pc[Main] # "idle"
  BY DEF Passed, Gone
<1>2. t = Main
  <2>1. SUFFICES ASSUME t # Main PROVE FALSE
    OBVIOUS
  <2>2. Enter(t) \/ Step(t) \/ Handshake(t)
    BY DEF Works, Starts, Shakes, Step, Handshake
  <2>3. Main \in Threads \ {t}
    BY <2>1
  <2>4. UNCHANGED <<pc[Main], hand[Main], todo[Main]>>
    BY <2>2, <2>3, OthersStay
  <2> QED
    BY <2>4 DEF Passed
<1>3. Main \in Threads
  OBVIOUS
<1>4. RLock(Main) \/ EndVisit(Main) \/ Halt(Main) \/ \E d \in Clients : Visit(Main, d)
  BY <1>1, <1>2, MainSteps
<1>5. ~RLock(Main)
  <2> SUFFICES ASSUME RLock(Main) PROVE FALSE
    OBVIOUS
  <2>1. op[Main] \in Walkers
    BY <1>1 DEF PhaseInv, Walkers
  <2>2. pc'[Main] = "visiting" /\ todo'[Main] = Mapped
    BY <1>3, <2>1 DEF RLock, Goto
  <2> QED
    BY <1>1, <2>2 DEF Passed
<1>6. ~EndVisit(Main)
  BY <1>1 DEF EndVisit, Passed
<1>7. ASSUME NEW d \in Clients, Visit(Main, d)
      PROVE  ~isRunning'[c] /\ held[c] = None /\ UNCHANGED held
  <2>1. pc[Main] = "visiting" /\ c \in todo[Main]
    BY <1>1, <1>7 DEF Visit, Passed
  <2>2. todo'[Main] = todo[Main] \ {d}
    BY <1>3, <1>7 DEF Visit
  <2>3. d = c
    <3>1. SUFFICES ASSUME d # c PROVE FALSE
      OBVIOUS
    <3>2. c \in todo'[Main]
      BY <2>1, <2>2, <3>1
    <3>3. pc'[Main] # "idle"
      BY <1>3, <1>7 DEF Visit, Goto
    <3> QED
      BY <1>1, <3>2, <3>3 DEF Passed
  <2>4. ~isRunning[c]
    <3>1. SUFFICES ASSUME isRunning[c] PROVE FALSE
      OBVIOUS
    <3>2. op[Main] = "stopAll"
      BY <1>1 DEF PhaseInv
    <3>3. pc'[Main] = "halting" /\ hand'[Main] = c
      BY <1>3, <1>7, <2>3, <3>1, <3>2 DEF Visit, Goto, TakeInHand
    <3> QED
      BY <1>1, <3>3 DEF Passed
  <2> QED
    BY <1>7, <2>3, <2>4 DEF Visit, clientVars
<1>8. ASSUME Halt(Main) PROVE ~isRunning'[c] /\ held[c] = None /\ UNCHANGED held
  <2>1. pc[Main] = "halting" /\ op[Main] = "stopAll"
    BY <1>1, <1>8 DEF Halt, PhaseInv
  <2>2. pc'[Main] = "visiting" /\ todo' = todo
    BY <1>3, <1>8, <2>1 DEF Halt, GoOn, Goto, locals
  <2>3. hand[Main] = c
    BY <1>1, <2>1, <2>2 DEF Passed
  <2>4. c \in Clients
    BY MadeAreClients
  <2> QED
    BY <1>8, <2>3, <2>4 DEF Halt
<1> QED
  BY <1>4, <1>5, <1>6, <1>7, <1>8

LEMMA PassedByThread ==
    ASSUME RInv, IInv', NEW t \in Threads, Works(t) \/ Starts(t) \/ Shakes(t), ~Gone,
           UNCHANGED mainVars
    PROVE  PassedInv'
<1> USE DEF RInv, Clients
<1>1. Enter(t) \/ Step(t) \/ Handshake(t)
  BY DEF Works, Starts, Shakes, Step, Handshake
<1>2. \A u \in Threads \ {t} : UNCHANGED <<pc[u], hand[u]>>
  BY <1>1, OthersStay DEF IInv
<1>3. \A u \in Threads : pc[u] = "handshake" => held[hand[u]] = u
  BY DEF IInv, StartsInv
<1>4. \A u \in Threads : pc'[u] = "handshake" => held'[hand'[u]] = u
  BY DEF IInv, StartsInv
<1>5. \A u \in Threads : hand[u] \in 0 .. made
  BY DEF IInv, Types
<1>6. \A d \in Mapped' : d \in Mapped \/ d = made + 1
  <2>1. CASE Works(t)
    BY <2>1, WorkFacts
  <2>2. CASE Starts(t) \/ Shakes(t)
    BY <2>2, StartFacts, ShakeFacts DEF Mapped
  <2> QED
    BY <2>1, <2>2
<1> SUFFICES ASSUME NEW c \in 1 .. made', Passed(c)', c \in Mapped'
             PROVE  /\ isRunning'[c] => c \in escaped' /\ context'[c] = "own"
                    /\ \A u \in Threads : pc'[u] = "handshake" /\ hand'[u] = c =>
                         c \in escaped' /\ context'[c] \in {"own", "cancelled"}
  BY DEF PassedInv
<1>7. made \in Nat /\ made' \in Nat /\ c \in Clients
  <2>1. made \in Nat
    BY MadeAreClients DEF IInv
  <2>2. made' \in 0 .. MaxClients
    BY ConstantsAssumption DEF IInv, Types
  <2> QED
    BY <2>1, <2>2, ConstantsAssumption
<1>8. CASE c \notin Mapped
  <2>1. c = made + 1
    BY <1>6, <1>8
  <2>2. Works(t)
    BY <1>8, StartFacts, ShakeFacts DEF Mapped
  <2>3. ~isRunning'[c]
    BY <1>7, <2>1, <2>2, WorkFacts DEF Fresh
  <2>4. ASSUME NEW u \in Threads, pc'[u] = "handshake", hand'[u] = c PROVE FALSE
    <3>1. u # t
      BY <2>2, <2>4, WorkFacts
    <3>2. hand[u] = c
      BY <1>2, <2>4, <3>1
    <3> QED
      BY <1>5, <1>7, <2>1, <3>2
  <2> QED
    BY <2>3, <2>4
<1>9. ASSUME c \in Mapped PROVE c \in 1 .. made
  BY <1>7, <1>9 DEF Mapped, IInv, Types
<1>10. CASE c \in Mapped /\ ~Passed(c)
  <2>1. ~isRunning'[c] /\ held[c] = None /\ UNCHANGED held
    BY <1>9, <1>10, PassedLater
  <2> QED
    BY <1>4, <2>1, ConstantsAssumption DEF None
<1>11. CASE c \in Mapped /\ Passed(c)
  <2>1. /\ isRunning[c] => c \in escaped /\ context[c] = "own"
        /\ \A u \in Threads : pc[u] = "handshake" /\ hand[u] = c =>
             c \in escaped /\ context[c] \in {"own", "cancelled"}
    BY <1>9, <1>11 DEF PassedInv
  <2>2. CASE Works(t)
    BY <1>2, <1>7, <2>1, <2>2, WorkFacts DEF Works, startVars
  <2>3. CASE Shakes(t)
    <3>1. UNCHANGED <<context, escaped>>
      BY <2>3, ShakeFacts DEF startVars
    <3>2. isRunning'[c] => c \in escaped /\ context[c] = "own"
      <4>1. pc[t] = "handshake"
        BY <2>3, ShakeFacts
      <4>2. CASE UNCHANGED isRunning
        BY <2>1, <4>2
      <4>3. CASE /\ context[hand[t]] # "cancelled"
                 /\ isRunning' = [isRunning EXCEPT ![hand[t]] = TRUE]
        <5>1. CASE hand[t] = c
          BY <2>1, <4>1, <4>3, <5>1
        <5>2. CASE hand[t] # c
          <6>1. isRunning \in [Clients -> BOOLEAN]
            BY DEF IInv, Types
          <6>2. isRunning'[c] = isRunning[c]
            BY <1>7, <4>3, <5>2, <6>1
          <6> QED
            BY <2>1, <6>2
        <5> QED
          BY <5>1, <5>2
      <4> QED
        BY <2>3, <4>2, <4>3, ShakeFacts
    <3> QED
      BY <1>2, <2>1, <2>3, <3>1, <3>2, ShakeFacts
  <2>4. CASE Starts(t) /\ UNCHANGED startVars /\ pc'[t] = "idle"
    BY <1>2, <2>1, <2>4, StartFacts DEF startVars
  <2>5. CASE Starts(t) /\ ~(UNCHANGED startVars /\ pc'[t] = "idle")
    <3>1. /\ pc'[t] = "handshake" /\ hand'[t] = hand[t] /\ UNCHANGED isRunning
          /\ ~isRunning[hand[t]] /\ held[hand[t]] = None
          /\ context' = [context EXCEPT ![hand[t]] = ContextOf(t)]
          /\ escaped' = IF Passed(hand[t]) THEN escaped \union {hand[t]} ELSE escaped
      BY <2>5, StartFacts
    <3>2. CASE hand[t] = c
      <4>1. ContextOf(t) \in {"own", "cancelled"}
        BY <1>11 DEF Passed, PhaseInv, ContextOf
      <4>2. context'[c] \in {"own", "cancelled"} /\ c \in escaped'
        BY <1>7, <1>11, <3>1, <3>2, <4>1 DEF RuntimeTypeOK
      <4> QED
        BY <3>1, <3>2, <4>2
    <3>3. CASE hand[t] # c
      <4>1. context'[c] = context[c] /\ escaped \subseteq escaped'
        BY <1>7, <3>1, <3>3 DEF RuntimeTypeOK
      <4> QED
        BY <1>2, <2>1, <3>1, <3>3, <4>1
    <3> QED
      BY <3>2, <3>3
  <2> QED
    BY <2>2, <2>3, <2>4, <2>5
<1> QED
  BY <1>8, <1>10, <1>11

LEMMA PassedStep == RInv /\ [RuntimeNext]_allVars => PassedInv'
<1> SUFFICES ASSUME RInv, [RuntimeNext]_allVars PROVE PassedInv'
  OBVIOUS
<1>1. IInv'
  BY StepOfManager, TypeStep, HasClientStep, WriterStep, StartsStep DEF RInv, IInv
<1>2. ASSUME UNCHANGED <<clients, made, isRunning, startVars>>,
             \A c \in 1 .. made : Passed(c)' => Passed(c),
             \A t \in Threads : pc'[t] = "handshake" => pc[t] = "handshake" /\ hand'[t] = hand[t]
      PROVE  PassedInv'
  BY <1>2 DEF RInv, PassedInv, Mapped, startVars
<1>3. CASE UNCHANGED allVars \/ Listen \/ Serve \/ DieEarly \/ Signal \/ Exit \/ OpenStream \/ CloseStreams
  <2>1. UNCHANGED <<vars, startVars>>
    BY <1>3 DEF Listen, Serve, DieEarly, Signal, Exit, OpenStream, CloseStreams, Draining, allVars, runtimeVars
  <2>2. UNCHANGED <<clients, made, isRunning, pc, hand, todo>>
    BY <2>1 DEF vars, managerVars, clientVars, locals
  <2>3. \A c \in 1 .. made : Passed(c)' => Passed(c)
    BY <1>3, <2>2 DEF Listen, Serve, DieEarly, Signal, Exit, OpenStream, CloseStreams, Draining, allVars, runtimeVars, mainVars, Passed
  <2> QED
    BY <1>2, <2>1, <2>2, <2>3
<1>4. ASSUME NEW t \in Threads, Begin(t), UNCHANGED startVars,
             \A c \in 1 .. made : Passed(c)' => Passed(c)
      PROVE  PassedInv'
  <2>1. /\ UNCHANGED <<clients, made, isRunning, hand>> /\ pc'[t] # "handshake"
        /\ \A u \in Threads \ {t} : UNCHANGED pc[u]
    BY <1>4 DEF RInv, IInv, Types, Begin, Goto, managerVars, clientVars
  <2> QED
    BY <1>2, <1>4, <2>1
<1>5. CASE StopServers
  <2>1. Main \in Threads /\ Begin(Main) /\ pc'[Main] = "rlock" /\ UNCHANGED startVars
    BY <1>5 DEF StopServers, Begin, Goto, Writers, RInv, IInv, Types
  <2>2. \A c \in 1 .. made : ~Passed(c)'
    BY <1>5, <2>1 DEF StopServers, Passed
  <2> QED
    BY <1>4, <2>1, <2>2
<1>6. ASSUME NEW t \in Threads, Call(t), UNCHANGED mainVars PROVE PassedInv'
  <2>1. Begin(t) /\ UNCHANGED startVars
    BY <1>6 DEF Call, Bootstraps, Handles
  <2>2. CASE t = Main
    <3>1. phase' = "boot"
      BY <1>6, <2>2 DEF Call, Bootstraps, Handles, mainVars
    <3> QED
      BY <1>4, <2>1, <3>1 DEF Passed
  <2>3. CASE t # Main
    <3>1. Main \in Threads \ {t}
      BY <2>3
    <3>2. UNCHANGED <<pc[Main], hand[Main], todo[Main]>>
      BY <2>1, <3>1, OthersStay DEF RInv, IInv
    <3> QED
      BY <1>4, <1>6, <2>1, <3>2 DEF Passed, mainVars
  <2> QED
    BY <2>2, <2>3
<1>7. ASSUME NEW t \in Threads, Proceed(t) PROVE PassedInv'
  BY <1>1, <1>7, PassedByThread DEF Proceed
<1> QED
  BY <1>3, <1>5, <1>6, <1>7 DEF RuntimeNext

LEMMA RuntimeInvariance == RuntimeSpec => []RInv
<1>1. RInv /\ [RuntimeNext]_allVars => RInv'
  <2>1. RInv /\ [RuntimeNext]_allVars => IInv'
    BY StepOfManager, TypeStep, HasClientStep, WriterStep, StartsStep DEF RInv, IInv
  <2> QED
    BY <2>1, RuntimeTypeStep, PhaseStep, FreshStep, PassedStep DEF RInv
<1> QED
  BY <1>1, RuntimeInitInv, PTL DEF RuntimeSpec

-----------------------------------------------------------------------------
(* The theorems.                                                           *)

\* Every variable of the runtime keeps its type.
THEOREM RuntimeTypeCorrect == RuntimeSpec => []RuntimeTypeOK
<1>1. RInv => RuntimeTypeOK
  BY DEF RInv
<1> QED
  BY <1>1, RuntimeInvariance, PTL

\* main.go:143: what StopAll leaves running began to start when it had passed.
THEOREM OnlyLateStartsSurvive == RuntimeSpec => []SurvivorsAreLate
<1>1. RInv => SurvivorsAreLate
  <2> SUFFICES ASSUME RInv, phase = "exited", NEW c \in Mapped, isRunning[c]
               PROVE  c \in escaped
    BY DEF SurvivorsAreLate
  <2>1. Passed(c)
    BY DEF RInv, PhaseInv, Passed
  <2>2. c \in 1 .. made
    BY DEF RInv, IInv, Types, Mapped
  <2> QED
    BY <2>1, <2>2 DEF RInv, PassedInv
<1> QED
  BY <1>1, RuntimeInvariance, PTL

\* main.go:141-143: the context is cancelled before StopAll runs, so that no
\* server main or the retry goroutine has started survives.
THEOREM MainLeavesNothing == RuntimeSpec => []MainContextLeavesNothing
<1>1. RInv => MainContextLeavesNothing
  <2> SUFFICES ASSUME RInv, phase = "exited", NEW c \in Mapped, isRunning[c]
               PROVE  context[c] = "own"
    BY DEF MainContextLeavesNothing
  <2>1. Passed(c)
    BY DEF RInv, PhaseInv, Passed
  <2>2. c \in 1 .. made
    BY DEF RInv, IInv, Types, Mapped
  <2> QED
    BY <2>1, <2>2 DEF RInv, PassedInv
<1> QED
  BY <1>1, RuntimeInvariance, PTL

\* Main, the retry goroutine and the handlers never wait for each other in a
\* circle, not in the shutdown either: StopAll waits under the manager's mutex
\* for handshakes, and no handshake waits for that mutex.
THEOREM RuntimeNeverDeadlocked == RuntimeSpec => [](LockOrder /\ SomeoneGoesOn)
<1>1. RuntimeSpec => Spec
  BY RuntimeImplementsManager DEF ImplementsManager
<1>2. QED
  BY <1>1, LocksTakenInOrder, NeverDeadlocked, PTL

LEMMA StuckInvariance == RuntimeSpec => []StuckInv
<1>1. RuntimeSpec => Spec
  BY RuntimeImplementsManager DEF ImplementsManager
<1> QED
  BY <1>1, StuckForever, PTL

\* StopAll does not get past a client that somebody has locked for ever.
LEMMA StopAllWaits ==
    ASSUME RInv, StuckInv, NEW c \in Clients, LockedForGood(c), Awaits(c),
           NEW t \in Threads, Works(t) \/ Starts(t) \/ Shakes(t), UNCHANGED mainVars
    PROVE  Awaits(c)'
<1> USE DEF Awaits, Passed, mainVars
<1>0. Types /\ Types'
  <2>1. Types /\ HasClient /\ [Next]_vars
    BY DEF RInv, IInv, Works, Starts, Shakes, Step, Handshake, Next
  <2> QED
    BY <2>1, TypeStep DEF IInv
<1>1. held[c] # None
  BY ConstantsAssumption DEF LockedForGood, StuckInv
<1>2. /\ pc[Main] \in {"visiting", "halting"} /\ op[Main] = "stopAll" /\ phase = "stopAll"
      /\ c \in todo[Main] \/ (pc[Main] = "halting" /\ hand[Main] = c)
  BY DEF RInv, PhaseInv
<1>3. CASE t # Main
  <2>1. UNCHANGED <<pc[Main], hand[Main], todo[Main]>>
    BY <1>0, <1>3, OthersStay DEF Works, Starts, Shakes, Step, Handshake
  <2> QED
    BY <1>2, <2>1
<1>4. CASE t = Main
  <2>1. RLock(Main) \/ EndVisit(Main) \/ Halt(Main) \/ \E d \in Clients : Visit(Main, d)
    BY <1>2, <1>4, MainSteps
  <2>2. ~RLock(Main) /\ ~EndVisit(Main)
    BY <1>2 DEF RLock, EndVisit
  <2>3. CASE Halt(Main)
    <3>1. c \in todo[Main] /\ pc'[Main] = "visiting" /\ todo' = todo
      BY <1>0, <1>1, <1>2, <2>3 DEF Halt, GoOn, Goto, locals, Types
    <3> QED
      BY <1>2, <3>1
  <2>4. ASSUME NEW d \in Clients, Visit(Main, d) PROVE Awaits(c)'
    <3>1. d # c /\ c \in todo[Main] /\ c \in todo'[Main]
      BY <1>0, <1>1, <1>2, <2>4 DEF Visit, Types
    <3>2. pc'[Main] \in {"visiting", "halting"}
      BY <1>0, <1>2, <2>4 DEF Visit, Goto, Types
    <3> QED
      BY <1>2, <3>1, <3>2
  <2> QED
    BY <2>1, <2>2, <2>3, <2>4
<1> QED
  BY <1>3, <1>4

\* main.go:143 and 320: the exception of ShutdownEnds has no end, and a bootstrap
\* has the same one.
THEOREM OneServerBlocks == RuntimeSpec => OneServerBlocksMain
<1> DEFINE Blocks ==
      /\ \A c \in Clients : LockedForGood(c) /\ Awaits(c) => LockedForGood(c)' /\ Awaits(c)'
      /\ phase = "boot" /\ pc[Main] = "stuck" => pc'[Main] = "stuck" /\ phase' \in {"boot", "killed"}
<1>1. RInv /\ StuckInv /\ [RuntimeNext]_allVars => Blocks
  <2> SUFFICES ASSUME RInv, StuckInv, [RuntimeNext]_allVars PROVE Blocks
    OBVIOUS
  <2>1. \A t \in Threads : pc[t] = "stuck" => UNCHANGED <<pc[t], hand[t]>>
    BY StepOfManager, StuckStep DEF RInv, StuckForGood
  <2>2. \A c \in Clients : LockedForGood(c) => LockedForGood(c)'
    BY <2>1 DEF LockedForGood
  <2>3. phase = "boot" /\ pc[Main] = "stuck" => pc'[Main] = "stuck" /\ phase' \in {"boot", "killed"}
    <3> SUFFICES ASSUME phase = "boot", pc[Main] = "stuck" PROVE phase' \in {"boot", "killed"}
      BY <2>1, RuntimeAssumption
    <3> QED
      BY DEF RuntimeNext, Listen, Serve, DieEarly, Signal, StopServers, Exit, OpenStream, CloseStreams, Draining, Proceed, mainVars, allVars,
         runtimeVars
  <2>4. ASSUME NEW c \in Clients, LockedForGood(c), Awaits(c) PROVE Awaits(c)'
    <3>1. phase = "stopAll" /\ pc[Main] \in {"visiting", "halting"}
      BY <2>4 DEF Awaits
    <3>2. CASE UNCHANGED allVars
      BY <2>4, <3>2 DEF Awaits, Passed, allVars, runtimeVars, mainVars, vars, locals
    <3>3. ~(Listen \/ Serve \/ DieEarly \/ Signal \/ StopServers \/ Exit)
      BY <3>1 DEF Listen, Serve, DieEarly, Signal, StopServers, Exit, Draining
    <3>6. CASE OpenStream \/ CloseStreams
      BY <2>4, <3>6 DEF OpenStream, CloseStreams, Awaits, Passed, vars, locals
    <3>4. ASSUME NEW t \in Threads, Proceed(t) PROVE Awaits(c)'
      BY <2>4, <3>4, StopAllWaits DEF Proceed
    <3>5. ASSUME NEW t \in Threads, Call(t), UNCHANGED mainVars PROVE Awaits(c)'
      <4>1. Begin(t) /\ t # Main
        BY <3>1, <3>5 DEF Call, Bootstraps, Handles, Begin
      <4>2. UNCHANGED <<pc[Main], hand[Main], todo[Main]>>
        BY <4>1, OthersStay DEF RInv, IInv
      <4> QED
        BY <2>4, <3>5, <4>2 DEF Awaits, Passed, mainVars
    <3> QED
      BY <3>2, <3>3, <3>4, <3>5, <3>6 DEF RuntimeNext
  <2> QED
    BY <2>2, <2>3, <2>4
<1>2. RuntimeSpec => [][Blocks]_allVars
  BY <1>1, RuntimeInvariance, StuckInvariance, PTL DEF RuntimeSpec
<1> QED
  BY <1>2 DEF OneServerBlocksMain
=============================================================================
