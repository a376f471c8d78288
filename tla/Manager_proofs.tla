--------------------------- MODULE Manager_proofs ---------------------------
(***************************************************************************)
(* Theorems about Manager, for any threads, servers and clients.           *)
(***************************************************************************)
EXTENDS Manager, TLAPS, FiniteSetTheorems

USE ConstantsAssumption DEF None

LEMMA ANameInNames == AName \in Names
  BY DEF AName

\* A thread that works on a client has one, and one that looks a client up
\* starts or stops it.
HasClient ==
    \A t \in Threads :
        /\ pc[t] \in Working => hand[t] \in 1 .. made
        /\ pc[t] = "rlock" => op[t] \notin Writers
        /\ pc[t] = "looking" => op[t] \in {"start", "stop"}

LEMMA ReturnTypes ==
    ASSUME Types, NEW t \in Threads, Return(t)
    PROVE  /\ pc' \in [Threads -> Labels] /\ op' \in [Threads -> OpNames]
           /\ name' \in [Threads -> Names] /\ hand' \in [Threads -> 0 .. made]
           /\ todo' \in [Threads -> SUBSET (1 .. made)]
           /\ pc'[t] = "idle" /\ \A u \in Threads \ {t} : UNCHANGED <<pc[u], hand[u]>>
<1> USE DEF Types, Return, Goto, TakeInHand
<1>1. pc' \in [Threads -> Labels]
  BY DEF Labels
<1>2. op' \in [Threads -> OpNames]
  BY DEF OpNames, Walkers
<1>3. name' \in [Threads -> Names]
  BY ANameInNames
<1>4. hand' \in [Threads -> 0 .. made] /\ todo' \in [Threads -> SUBSET (1 .. made)]
  OBVIOUS
<1>5. QED
  BY <1>1, <1>2, <1>3, <1>4

LEMMA TypeInit == Init => Types /\ HasClient
<1> SUFFICES ASSUME Init PROVE Types /\ HasClient
  OBVIOUS
<1> USE DEF Init
<1>1. clients \in [Names -> 0 .. made] /\ made \in 0 .. MaxClients
  OBVIOUS
<1>2. writer \in Threads \union {None} /\ readers \subseteq Threads
  OBVIOUS
<1>3. held \in [Clients -> Threads \union {None}] /\ isRunning \in [Clients -> BOOLEAN]
  OBVIOUS
<1>4. pc \in [Threads -> Labels] /\ op \in [Threads -> OpNames]
  BY DEF Labels, OpNames, Walkers
<1>5. name \in [Threads -> Names] /\ hand \in [Threads -> 0 .. made]
  BY ANameInNames
<1>6. todo \in [Threads -> SUBSET (1 .. made)] /\ late \subseteq 1 .. made
  OBVIOUS
<1>7. HasClient
  BY DEF HasClient, Working
<1>8. QED
  BY <1>1, <1>2, <1>3, <1>4, <1>5, <1>6, <1>7 DEF Types

LEMMA TypeStep == Types /\ HasClient /\ [Next]_vars => Types'
<1> SUFFICES ASSUME Types, HasClient, [Next]_vars PROVE Types'
  OBVIOUS
<1> USE DEF Types, Labels, managerVars, clientVars, locals
<1>1. ASSUME NEW t \in Threads, Begin(t) PROVE Types'
  <2>1. op' \in [Threads -> OpNames] /\ name' \in [Threads -> Names] /\ pc' \in [Threads -> Labels]
    BY <1>1 DEF Begin, Goto
  <2>2. QED
    BY <1>1, <2>1 DEF Begin
<1>2. ASSUME NEW t \in Threads, RLock(t) PROVE Types'
  <2>1. readers' \subseteq Threads /\ pc' \in [Threads -> Labels]
    BY <1>2 DEF RLock, Goto
  <2>2. todo' \in [Threads -> SUBSET (1 .. made)]
    BY <1>2 DEF RLock, Mapped
  <2>3. QED
    BY <1>2, <2>1, <2>2 DEF RLock
<1>3. ASSUME NEW t \in Threads, Announce(t) \/ Drained(t) PROVE Types'
  BY <1>3 DEF Announce, Drained, GoOn, Goto
<1>4. ASSUME NEW t \in Threads, CheckFree(t) PROVE Types'
  BY <1>4, ReturnTypes DEF CheckFree, GoOn, Goto, Unlock
<1>5. ASSUME NEW t \in Threads, Insert(t) PROVE Types'
  <2>1. made' = made + 1 /\ made' \in 0 .. MaxClients
    BY <1>5 DEF Insert
  <2>2. (\A c \in 0 .. made : c \in 0 .. made') /\ (\A c \in 1 .. made : c \in 1 .. made')
    BY <2>1
  <2>3. clients' \in [Names -> 0 .. made']
    BY <1>5, <2>1, <2>2 DEF Insert
  <2>4. hand' \in [Threads -> 0 .. made']
    BY <1>5, <2>2, ReturnTypes DEF Insert
  <2>5. todo' \in [Threads -> SUBSET (1 .. made')]
    <3>1. todo' \in [Threads -> SUBSET (1 .. made)]
      BY <1>5, ReturnTypes DEF Insert
    <3>2. SUBSET (1 .. made) \subseteq SUBSET (1 .. made')
      BY <2>2
    <3>3. QED
      BY <3>1, <3>2
  <2>6. late' \subseteq 1 .. made'
    BY <1>5, <2>2 DEF Insert
  <2>7. /\ pc' \in [Threads -> Labels] /\ op' \in [Threads -> OpNames]
        /\ name' \in [Threads -> Names]
    BY <1>5, ReturnTypes DEF Insert
  <2>8. QED
    BY <1>5, <2>1, <2>3, <2>4, <2>5, <2>6, <2>7 DEF Insert, Unlock
<1>6. ASSUME NEW t \in Threads, Find(t) PROVE Types'
  <2>1. clients[name[t]] \in 0 .. made
    OBVIOUS
  <2>2. QED
    BY <1>6, <2>1, ReturnTypes DEF Find, Goto, TakeInHand, Unlock
<1>7. ASSUME NEW t \in Threads, Probe(t) PROVE Types'
  BY <1>7 DEF Probe, GoOn, Goto
<1>8. ASSUME NEW t \in Threads, Halt(t) PROVE Types'
  BY <1>8 DEF Halt, GoOn, Goto
<1>9. ASSUME NEW t \in Threads, Delete(t) PROVE Types'
  BY <1>9, ReturnTypes DEF Delete, Unlock
<1>10. ASSUME NEW t \in Threads, NEW c \in Clients, Visit(t, c) PROVE Types'
  <2>1. c \in 1 .. made
    BY <1>10 DEF Visit
  <2>2. todo' \in [Threads -> SUBSET (1 .. made)]
    BY <1>10 DEF Visit
  <2>3. pc' \in [Threads -> Labels] /\ hand' \in [Threads -> 0 .. made]
    BY <1>10, <2>1 DEF Visit, Goto, TakeInHand
  <2>4. QED
    BY <1>10, <2>2, <2>3 DEF Visit
<1>11. ASSUME NEW t \in Threads, EndVisit(t) PROVE Types'
  <2>1. readers' \subseteq Threads
    BY <1>11 DEF EndVisit, RUnlock
  <2>2. QED
    BY <1>11, <2>1, ReturnTypes DEF EndVisit, RUnlock
<1>12. ASSUME NEW t \in Threads, LookUp(t) PROVE Types'
  <2>1. clients[name[t]] \in 0 .. made /\ op[t] \in Labels
    BY <1>12 DEF LookUp, HasClient
  <2>2. readers' \subseteq Threads
    BY <1>12 DEF LookUp, RUnlock
  <2>3. CASE clients[name[t]] = 0
    BY <1>12, <2>2, <2>3, ReturnTypes DEF LookUp, RUnlock
  <2>4. CASE clients[name[t]] # 0
    BY <1>12, <2>1, <2>2, <2>4 DEF LookUp, RUnlock, Goto, TakeInHand
  <2>5. QED
    BY <2>3, <2>4
<1>13. ASSUME NEW t \in Threads, Stop(t) PROVE Types'
  BY <1>13, ReturnTypes DEF Stop
<1>14. ASSUME NEW t \in Threads, StartLock(t) PROVE Types'
  <2>1. hand[t] \in 1 .. made
    BY <1>14 DEF StartLock, HasClient, Working
  <2>2. CASE isRunning[hand[t]]
    BY <1>14, <2>2, ReturnTypes DEF StartLock
  <2>3. CASE ~isRunning[hand[t]]
    <3>1. late' \subseteq 1 .. made
      <4>1. late' = late \/ late' = late \union {hand[t]}
        BY <1>14, <2>3 DEF StartLock
      <4> QED
        BY <2>1, <4>1
    <3>2. held' \in [Clients -> Threads \union {None}] /\ pc' \in [Threads -> Labels]
      <4>1. held' \in [Clients -> Threads \union {None}]
        <5>1. held' = [held EXCEPT ![hand[t]] = t]
          BY <1>14, <2>3 DEF StartLock
        <5>2. held \in [Clients -> Threads \union {None}]
          OBVIOUS
        <5> HIDE DEF Types
        <5> QED
          BY <5>1, <5>2
      <4>2. pc' = [pc EXCEPT ![t] = "handshake"]
        BY <1>14, <2>3 DEF StartLock, GoOn, Goto
      <4>3. pc' \in [Threads -> Labels]
        BY <4>2
      <4> QED
        BY <4>1, <4>3
    <3>3. QED
      BY <1>14, <2>3, <3>1, <3>2 DEF StartLock, GoOn
  <2>4. QED
    BY <2>2, <2>3
<1>15. ASSUME NEW t \in Threads, HandshakeOK(t) \/ SpawnFails(t) PROVE Types'
  BY <1>15, ReturnTypes DEF HandshakeOK, SpawnFails
<1>16. ASSUME NEW t \in Threads, HandshakeFails(t) PROVE Types'
  BY <1>16 DEF HandshakeFails, GoOn, Goto
<1>17. ASSUME UNCHANGED vars PROVE Types'
  BY <1>17 DEF vars
<1>18. QED
  BY <1>1, <1>2, <1>3, <1>4, <1>5, <1>6, <1>7, <1>8, <1>9, <1>10, <1>11, <1>12, <1>13, <1>14,
     <1>15, <1>16, <1>17 DEF Next, Enter, Step, Handshake

\* What a step does to the thread that takes it leaves the others alone.
LEMMA OthersStay ==
    ASSUME Types, NEW t \in Threads, Begin(t) \/ Enter(t) \/ Step(t) \/ Handshake(t),
           NEW u \in Threads \ {t}
    PROVE  UNCHANGED <<pc[u], op[u], name[u], hand[u], todo[u]>>
  BY DEF Types, Begin, Enter, Step, Handshake, RLock, Announce, Drained, CheckFree, Insert, Find,
     Probe, Halt, Delete, Visit, EndVisit, LookUp, Stop, StartLock, HandshakeOK, SpawnFails,
     HandshakeFails, GoOn, Goto, Return, TakeInHand, locals

LEMMA MadeGrows ==
    ASSUME Types, [Next]_vars
    PROVE  made' \in Nat /\ made' >= made
  BY DEF Types, vars, managerVars, Next, Begin, Enter, Step, Handshake, RLock, Announce, Drained,
     CheckFree, Insert, Find, Probe, Halt, Delete, Visit, EndVisit, LookUp, Stop, StartLock,
     HandshakeOK, SpawnFails, HandshakeFails, RUnlock

LEMMA HasClientStep == Types /\ HasClient /\ [Next]_vars => HasClient'
<1> SUFFICES ASSUME Types, HasClient, [Next]_vars PROVE HasClient'
  OBVIOUS
<1> USE DEF Types
<1>0. \A c \in 1 .. made : c \in 1 .. made'
  BY MadeGrows
<1>1. CASE UNCHANGED vars
  BY <1>1 DEF HasClient, vars, managerVars, locals
<1>2. ASSUME NEW t \in Threads, Begin(t) \/ Enter(t) \/ Step(t) \/ Handshake(t) PROVE HasClient'
  <2>1. ASSUME NEW u \in Threads \ {t}
        PROVE  /\ pc'[u] \in Working => hand'[u] \in 1 .. made'
               /\ pc'[u] = "rlock" => op'[u] \notin Writers
               /\ pc'[u] = "looking" => op'[u] \in {"start", "stop"}
    BY <1>0, <1>2, OthersStay DEF HasClient
  <2>2. /\ pc'[t] \in Working => hand'[t] \in 1 .. made'
        /\ pc'[t] = "rlock" => op'[t] \notin Writers
        /\ pc'[t] = "looking" => op'[t] \in {"start", "stop"}
    <3> USE DEF HasClient, Working, Writers
    <3>1. CASE Return(t)
      BY <3>1 DEF Return, Goto
    <3>2. CASE Begin(t)
      BY <3>2 DEF Begin, Goto
    <3>3. CASE RLock(t)
      BY <3>3 DEF RLock, Goto, OpNames
    <3>4. CASE Announce(t) \/ Drained(t) \/ HandshakeFails(t)
      BY <3>4 DEF Announce, Drained, HandshakeFails, GoOn, Goto
    <3>5. CASE Probe(t) \/ Halt(t)
      BY <1>0, <3>5 DEF Probe, Halt, GoOn, Goto, locals
    <3>6. CASE CheckFree(t) \/ StartLock(t)
      BY <1>0, <3>1, <3>6 DEF CheckFree, StartLock, GoOn, Goto, locals
    <3>7. CASE Find(t)
      <4>1. clients[name[t]] \in 0 .. made
        OBVIOUS
      <4>2. QED
        BY <1>0, <3>1, <3>7, <4>1 DEF Find, Goto, TakeInHand
    <3>8. CASE LookUp(t)
      <4>1. clients[name[t]] \in 0 .. made
        OBVIOUS
      <4>2. CASE clients[name[t]] = 0
        BY <3>1, <3>8, <4>2 DEF LookUp
      <4>3. CASE clients[name[t]] # 0
        <5>1. /\ pc'[t] = op[t] /\ hand'[t] = clients[name[t]]
              /\ op[t] \in {"start", "stop"}
          BY <3>8, <4>3 DEF LookUp, Goto, TakeInHand
        <5>2. QED
          BY <1>0, <4>1, <4>3, <5>1
      <4>4. QED
        BY <4>2, <4>3
    <3>9. CASE \E c \in Clients : Visit(t, c)
      <4>1. PICK c \in Clients : Visit(t, c)
        BY <3>9
      <4>2. c \in 1 .. made /\ pc[t] = "visiting"
        BY <4>1 DEF Visit
      <4>3. pc'[t] = "visiting" \/ (pc'[t] = "halting" /\ hand'[t] = c)
        BY <4>1, <4>2 DEF Visit, Goto, TakeInHand
      <4>4. QED
        BY <1>0, <4>2, <4>3
    <3>10. QED
      BY <1>2, <3>1, <3>2, <3>3, <3>4, <3>5, <3>6, <3>7, <3>8, <3>9
      DEF Enter, Step, Handshake, Insert, Delete, EndVisit, Stop, HandshakeOK, SpawnFails
  <2>3. QED
    BY <2>1, <2>2 DEF HasClient
<1>3. QED
  BY <1>1, <1>2 DEF Next

-----------------------------------------------------------------------------
(* The write lock.                                                         *)

Removing(t) ==
    pc[t] \in {"probing", "deleting"} \/ (pc[t] = "halting" /\ op[t] = "unregister")
InWriter(t) == Removing(t) \/ pc[t] \in {"draining", "checking", "inserting", "removing"}

\* What a writer found in the map holds as long as it has the lock.
WriterOf(t) ==
    /\ InWriter(t) => writer = t
    /\ pc[t] = "inserting" => clients[name[t]] = 0
    /\ Removing(t) => hand[t] = clients[name[t]] /\ hand[t] # 0

Injective == \A m, n \in Names : clients[m] = clients[n] /\ clients[m] # 0 => m = n

WriterInv == Injective /\ \A t \in Threads : WriterOf(t)

LEMMA WriterStep == Types /\ HasClient /\ WriterInv /\ [Next]_vars => WriterInv'
<1> SUFFICES ASSUME Types, HasClient, WriterInv, [Next]_vars PROVE WriterInv'
  OBVIOUS
<1> USE DEF Types, InWriter, Removing, WriterOf
<1>1. CASE UNCHANGED vars
  BY <1>1 DEF WriterInv, Injective, vars, managerVars, locals
<1>2. ASSUME NEW t \in Threads, Begin(t) \/ Enter(t) \/ Step(t) \/ Handshake(t) PROVE WriterInv'
  <2>1. \/ UNCHANGED <<clients, writer>>
        \/ writer = None /\ writer' = t /\ UNCHANGED clients
        \/ writer = t
    BY <1>2 DEF WriterInv, Begin, Enter, Step, Handshake, RLock, Announce, Drained, CheckFree,
       Insert, Find, Probe, Halt, Delete, Visit, EndVisit, LookUp, Stop, StartLock, HandshakeOK,
       SpawnFails, HandshakeFails, RUnlock, managerVars
  <2>2. ASSUME NEW u \in Threads \ {t} PROVE WriterOf(u)'
    <3>1. WriterOf(u) /\ UNCHANGED <<pc[u], op[u], name[u], hand[u]>>
      BY <1>2, OthersStay DEF WriterInv
    <3>2. CASE InWriter(u)
      BY <2>1, <3>1, <3>2
    <3>3. CASE ~InWriter(u)
      BY <3>1, <3>3
    <3>4. QED
      BY <3>2, <3>3
  <2>3. WriterOf(t)'
    <3>0. WriterOf(t)
      BY DEF WriterInv
    <3>1. CASE Return(t)
      BY <3>1 DEF Return, Goto
    <3>2. CASE Begin(t) \/ RLock(t)
      BY <3>2 DEF Begin, RLock, Goto
    <3>3. CASE Announce(t) \/ Drained(t) \/ HandshakeFails(t)
      BY <3>0, <3>3 DEF Announce, Drained, HandshakeFails, GoOn, Goto, managerVars, locals
    <3>4. CASE CheckFree(t) \/ StartLock(t)
      BY <3>0, <3>1, <3>4 DEF CheckFree, StartLock, GoOn, Goto, managerVars, locals
    <3>5. CASE Find(t)
      BY <3>0, <3>1, <3>5 DEF Find, Goto, TakeInHand
    <3>6. CASE Probe(t) \/ Halt(t)
      BY <3>0, <3>6 DEF Probe, Halt, GoOn, Goto, managerVars, locals
    <3>7. CASE LookUp(t)
      <4>1. CASE clients[name[t]] = 0
        BY <3>1, <3>7, <4>1 DEF LookUp
      <4>2. CASE clients[name[t]] # 0
        <5>1. pc'[t] \in {"start", "stop"}
          BY <3>7, <4>2 DEF LookUp, Goto, HasClient
        <5>2. QED
          BY <5>1
      <4>3. QED
        BY <4>1, <4>2
    <3>8. CASE \E c \in Clients : Visit(t, c)
      <4>1. pc'[t] = "visiting" \/ (pc'[t] = "halting" /\ op'[t] = "stopAll")
        BY <3>8 DEF Visit, Goto
      <4>2. QED
        BY <4>1
    <3>9. QED
      BY <1>2, <3>1, <3>2, <3>3, <3>4, <3>5, <3>6, <3>7, <3>8
      DEF Enter, Step, Handshake, Insert, Delete, EndVisit, Stop, HandshakeOK, SpawnFails
  <2>4. Injective'
    <3>1. CASE Insert(t)
      <4>1. /\ clients' = [clients EXCEPT ![name[t]] = made + 1]
            /\ \A n \in Names : clients[n] # made + 1
        BY <3>1 DEF Insert
      <4>2. QED
        BY <4>1 DEF WriterInv, Injective
    <3>2. CASE Delete(t)
      BY <3>2 DEF Delete, WriterInv, Injective
    <3>3. CASE UNCHANGED clients
      BY <3>3 DEF WriterInv, Injective
    <3>4. QED
      BY <1>2, <3>1, <3>2, <3>3 DEF Begin, Enter, Step, Handshake, RLock, Announce, Drained,
         CheckFree, Find, Probe, Halt, Visit, EndVisit, LookUp, Stop, StartLock, HandshakeOK,
         SpawnFails, HandshakeFails, RUnlock, managerVars
  <2>5. QED
    BY <2>2, <2>3, <2>4 DEF WriterInv
<1>3. QED
  BY <1>1, <1>2 DEF Next

-----------------------------------------------------------------------------
(* Starts that come late.                                                  *)

\* A handshake holds its client's mutex, and one that began past the last look
\* of UnregisterServer is on record; so is a client that runs by then.
StartsInv ==
    /\ \A t \in Threads : pc[t] = "handshake" => held[hand[t]] = t
    /\ \A t \in Threads, c \in 1 .. made :
         pc[t] = "handshake" /\ hand[t] = c /\ PastProbe(c) => c \in late
    /\ \A c \in 1 .. made : isRunning[c] /\ PastProbe(c) => c \in late

\* A client that was not past the last look comes to be so only when it is not
\* running and nobody starts it.
LEMMA PastProbeStep ==
    ASSUME Types, HasClient, WriterInv, StartsInv,
           NEW t \in Threads, Begin(t) \/ Enter(t) \/ Step(t) \/ Handshake(t),
           NEW c \in 1 .. made, ~PastProbe(c), PastProbe(c)'
    PROVE  /\ held[c] = None /\ UNCHANGED held
           /\ ~isRunning'[c]
<1> USE DEF Types, WriterInv, WriterOf, Removing, InWriter
<1>1. \A u \in Threads \ {t} : UNCHANGED <<pc[u], hand[u]>>
  BY OthersStay
<1>2. CASE Probe(t)
  <2>1. UNCHANGED clients
    BY <1>2 DEF Probe, managerVars
  <2>2. hand[t] = c /\ pc'[t] = "deleting"
    BY <1>1, <1>2, <2>1 DEF PastProbe, Mapped, Probe, GoOn, Goto, locals
  <2>3. QED
    BY <1>2, <2>2 DEF Probe, GoOn, Goto, clientVars
<1>3. CASE Halt(t)
  <2>1. UNCHANGED clients
    BY <1>3 DEF Halt, managerVars
  <2>2. hand[t] = c /\ pc'[t] = "deleting"
    BY <1>1, <1>3, <2>1 DEF PastProbe, Mapped, Halt, GoOn, Goto, locals
  <2>3. c \in Clients
    BY DEF Clients
  <2>4. QED
    BY <1>3, <2>2, <2>3 DEF Halt
<1>4. CASE ~Probe(t) /\ ~Halt(t)
  <2>1. pc'[t] # "deleting"
    <3>1. CASE LookUp(t) /\ clients[name[t]] # 0
      BY <3>1 DEF LookUp, Goto, HasClient
    <3>2. CASE LookUp(t) /\ clients[name[t]] = 0
      BY <3>2 DEF LookUp, Goto, Return
    <3>3. CASE Begin(t)
      BY <3>3 DEF Begin, Goto
    <3>4. CASE RLock(t) \/ Announce(t) \/ Drained(t) \/ CheckFree(t) \/ Insert(t) \/ Find(t)
      BY <3>4 DEF RLock, Announce, Drained, CheckFree, Insert, Find, GoOn, Goto, Return
    <3>5. CASE Delete(t) \/ EndVisit(t) \/ Stop(t) \/ \E d \in Clients : Visit(t, d)
      BY <3>5 DEF Delete, Visit, EndVisit, Stop, Goto, Return
    <3>6. CASE StartLock(t) \/ Handshake(t)
      BY <3>6 DEF StartLock, Handshake, HandshakeOK, SpawnFails, HandshakeFails, GoOn, Goto, Return
    <3>7. QED
      BY <1>4, <3>1, <3>2, <3>3, <3>4, <3>5, <3>6 DEF Enter, Step
  <2>2. c \notin Mapped'
    BY <1>1, <2>1 DEF PastProbe
  <2>3. c \in Mapped /\ ~(pc[t] = "deleting" /\ hand[t] = c)
    BY DEF PastProbe
  <2>4. PICK n \in Names : clients[n] = c
    BY <2>3 DEF Mapped
  <2>5. clients'[n] # c
    BY <2>2 DEF Mapped
  <2>6. CASE Insert(t)
    <3>1. clients[name[t]] = 0
      BY <2>6 DEF Insert
    <3>2. QED
      BY <2>4, <2>5, <2>6, <3>1 DEF Insert
  <2>7. CASE Delete(t)
    BY <2>3, <2>4, <2>5, <2>7 DEF Delete
  <2>8. CASE UNCHANGED clients
    BY <2>4, <2>5, <2>8
  <2>9. QED
    BY <2>6, <2>7, <2>8 DEF Begin, Enter, Step, Handshake, RLock, Announce, Drained,
       CheckFree, Find, Probe, Halt, Visit, EndVisit, LookUp, Stop, StartLock, HandshakeOK,
       SpawnFails, HandshakeFails, RUnlock, managerVars
<1>5. QED
  BY <1>2, <1>3, <1>4

LEMMA StartsStep ==
    Types /\ HasClient /\ WriterInv /\ StartsInv /\ [Next]_vars => StartsInv'
<1> SUFFICES ASSUME Types, HasClient, WriterInv, StartsInv, [Next]_vars PROVE StartsInv'
  OBVIOUS
<1> USE DEF Types, Clients
<1>1. CASE UNCHANGED vars
  <2>1. UNCHANGED <<clients, made, held, isRunning, late, pc, hand>>
    BY <1>1 DEF vars, managerVars, clientVars, locals
  <2>2. Mapped' = Mapped
    BY <2>1 DEF Mapped
  <2>3. \A c : PastProbe(c)' <=> PastProbe(c)
    BY <2>1, <2>2 DEF PastProbe
  <2> HIDE DEF Types
  <2> QED
    BY <2>1, <2>2, <2>3 DEF StartsInv
<1>2. ASSUME NEW t \in Threads, Begin(t) \/ Enter(t) \/ Step(t) \/ Handshake(t) PROVE StartsInv'
  <2>1. \A u \in Threads \ {t} : UNCHANGED <<pc[u], hand[u]>>
    BY <1>2, OthersStay
  <2>2. \A u \in Threads : pc[u] = "handshake" => hand[u] \in 1 .. made
    BY DEF HasClient, Working
  \* The mutexes.
  <2>3. ASSUME NEW u \in Threads, pc'[u] = "handshake" PROVE held'[hand'[u]] = u
    <3>1. CASE StartLock(t)
      <4>1. CASE isRunning[hand[t]]
        BY <2>1, <2>3, <3>1, <4>1 DEF StartLock, StartsInv, Goto, Return
      <4>2. CASE ~isRunning[hand[t]]
        <5>1. /\ held[hand[t]] = None /\ held' = [held EXCEPT ![hand[t]] = t] /\ hand' = hand
              /\ hand[t] \in 1 .. made
          BY <3>1, <4>2 DEF StartLock, GoOn, locals, HasClient, Working
        <5>2. CASE u = t
          BY <5>1, <5>2
        <5>3. CASE u # t
          <6>1. pc[u] = "handshake" /\ held[hand[u]] = u /\ hand[u] \in 1 .. made
            BY <2>1, <2>2, <2>3, <5>3 DEF StartsInv
          <6>2. QED
            BY <5>1, <6>1
        <5>4. QED
          BY <5>2, <5>3
      <4>3. QED
        BY <4>1, <4>2
    <3>2. CASE HandshakeOK(t) \/ SpawnFails(t)
      BY <2>1, <2>2, <2>3, <3>2 DEF HandshakeOK, SpawnFails, StartsInv, Goto, Return
    <3>3. CASE ~StartLock(t) /\ ~HandshakeOK(t) /\ ~SpawnFails(t)
      <4>1. UNCHANGED held
        BY <1>2, <3>3 DEF Begin, Enter, Step, Handshake, RLock, Announce, Drained, CheckFree,
           Insert, Find, Probe, Halt, Delete, Visit, EndVisit, LookUp, Stop, HandshakeFails,
           clientVars
      <4>2. pc'[t] # "handshake"
        <5>1. CASE LookUp(t) /\ clients[name[t]] # 0
          BY <5>1 DEF LookUp, Goto, HasClient
        <5>2. CASE LookUp(t) /\ clients[name[t]] = 0
          BY <5>2 DEF LookUp, Goto, Return
        <5>3. CASE ~LookUp(t)
          BY <1>2, <3>3, <5>3 DEF Begin, Enter, Step, Handshake, RLock, Announce, Drained,
             CheckFree, Insert, Find, Probe, Halt, Delete, Visit, EndVisit, Stop, HandshakeFails,
             GoOn, Goto, Return
        <5>4. QED
          BY <5>1, <5>2, <5>3
      <4>3. QED
        BY <2>1, <2>3, <4>1, <4>2 DEF StartsInv
    <3>4. QED
      BY <3>1, <3>2, <3>3
  \* Who is on record remains so.
  <2>4. late \subseteq late' /\ (late' = late \/ StartLock(t))
    BY <1>2 DEF Begin, Enter, Step, Handshake, RLock, Announce, Drained, CheckFree, Insert, Find,
       Probe, Halt, Delete, Visit, EndVisit, LookUp, Stop, StartLock, HandshakeOK, SpawnFails,
       HandshakeFails, clientVars
  <2>5. ASSUME NEW u \in Threads, NEW c \in 1 .. made',
               pc'[u] = "handshake", hand'[u] = c, PastProbe(c)'
        PROVE  c \in late'
    <3>1. CASE pc[u] = "handshake" /\ hand'[u] = hand[u]
      <4>1. c = hand[u] /\ c \in 1 .. made /\ held[c] # None
        BY <2>2, <2>5, <3>1 DEF StartsInv
      <4>2. PastProbe(c)
        BY <1>2, <2>5, <3>1, <4>1, PastProbeStep
      <4>3. QED
        BY <2>4, <3>1, <4>1, <4>2 DEF StartsInv
    <3>2. CASE ~(pc[u] = "handshake" /\ hand'[u] = hand[u])
      <4>1. u = t /\ StartLock(t) /\ ~isRunning[hand[t]]
        <5>1. u = t
          BY <2>1, <2>5, <3>2
        <5>2. CASE LookUp(t) /\ clients[name[t]] # 0
          BY <2>5, <5>1, <5>2 DEF LookUp, Goto, HasClient
        <5>3. CASE LookUp(t) /\ clients[name[t]] = 0
          BY <2>5, <5>1, <5>3 DEF LookUp, Goto, Return
        <5>4. CASE ~LookUp(t)
          BY <1>2, <2>5, <5>1, <5>4, <3>2 DEF Begin, Enter, Step, Handshake, RLock, Announce,
             Drained, CheckFree, Insert, Find, Probe, Halt, Delete, Visit, EndVisit, Stop,
             StartLock, HandshakeOK, SpawnFails, HandshakeFails, GoOn, Goto, Return
        <5>5. QED
          BY <5>1, <5>2, <5>3, <5>4
      <4>2. /\ hand' = hand /\ UNCHANGED clients /\ pc[t] = "start" /\ pc'[t] = "handshake"
            /\ late' = IF PastProbe(hand[t]) THEN late \union {hand[t]} ELSE late
        BY <4>1 DEF StartLock, GoOn, Goto, locals, managerVars
      <4>3. c = hand[t]
        BY <2>5, <4>1, <4>2
      <4>4. Mapped' = Mapped
        BY <4>2 DEF Mapped
      <4>5. PastProbe(c)
        BY <2>1, <2>5, <4>2, <4>4 DEF PastProbe
      <4>6. QED
        BY <4>2, <4>3, <4>5
    <3>3. QED
      BY <3>1, <3>2
  <2>6. ASSUME NEW c \in 1 .. made', isRunning'[c], PastProbe(c)'
        PROVE  c \in late'
    <3>1. CASE HandshakeOK(t) /\ c = hand[t]
      <4>1. UNCHANGED clients /\ pc[t] = "handshake" /\ pc'[t] = "idle"
        BY <3>1 DEF HandshakeOK, Return, Goto, managerVars
      <4>2. PastProbe(c)
        BY <2>1, <2>6, <4>1 DEF PastProbe, Mapped
      <4>3. QED
        BY <2>4, <3>1, <4>1, <4>2 DEF StartsInv
    <3>2. CASE Insert(t) /\ c = made + 1
      <4>1. c \in Mapped'
        BY <3>2 DEF Insert, Mapped
      <4>2. PICK u \in Threads : pc'[u] = "deleting" /\ hand'[u] = c
        BY <2>6, <4>1 DEF PastProbe
      <4>3. u # t /\ pc[u] = "deleting" /\ hand[u] = made + 1
        BY <2>1, <3>2, <4>2 DEF Insert, Return, Goto
      <4>4. QED
        BY <4>3
    <3>3. CASE ~(HandshakeOK(t) /\ c = hand[t]) /\ ~(Insert(t) /\ c = made + 1)
      <4>1. c \in 1 .. made
        <5>1. made' = made \/ (Insert(t) /\ made' = made + 1)
          BY <1>2 DEF Begin, Enter, Step, Handshake, RLock, Announce, Drained, CheckFree,
             Insert, Find, Probe, Halt, Delete, Visit, EndVisit, LookUp, Stop, StartLock,
             HandshakeOK, SpawnFails, HandshakeFails, RUnlock, managerVars
        <5>2. QED
          BY <2>6, <3>3, <5>1
      <4>2. isRunning[c]
        <5>1. \/ UNCHANGED isRunning
              \/ isRunning' = [isRunning EXCEPT ![hand[t]] = FALSE]
              \/ HandshakeOK(t)
          BY <1>2 DEF Begin, Enter, Step, Handshake, RLock, Announce, Drained,
           CheckFree, Insert, Find, Probe, Halt, Delete, Visit, EndVisit, LookUp, Stop,
           StartLock, HandshakeOK, SpawnFails, HandshakeFails, clientVars
        <5>2. CASE HandshakeOK(t)
          BY <2>6, <3>3, <4>1, <5>2 DEF HandshakeOK
        <5>3. CASE isRunning' = [isRunning EXCEPT ![hand[t]] = FALSE]
          <6>1. c \in Clients
            BY <4>1
          <6>2. isRunning'[c] = IF c = hand[t] THEN FALSE ELSE isRunning[c]
            BY <5>3, <6>1
          <6>3. QED
            BY <2>6, <6>2
        <5>4. CASE UNCHANGED isRunning
          BY <2>6, <5>4
        <5>5. QED
          BY <5>1, <5>2, <5>3, <5>4
      <4>3. PastProbe(c)
        BY <1>2, <2>6, <4>1, PastProbeStep
      <4>4. QED
        BY <2>4, <4>1, <4>2, <4>3 DEF StartsInv
    <3>4. QED
      BY <3>1, <3>2, <3>3
  <2>7. QED
    BY <2>3, <2>5, <2>6 DEF StartsInv
<1>3. QED
  BY <1>1, <1>2 DEF Next

-----------------------------------------------------------------------------
(* The lock order.                                                         *)

\* Every lock is held by a thread that is where it needs it.
LockInv ==
    /\ writer # None => InWriter(writer)
    /\ \A t \in readers : pc[t] \in {"looking", "visiting"} \/ (pc[t] = "halting" /\ op[t] = "stopAll")
    /\ \A c \in Clients : held[c] # None => pc[held[c]] \in {"handshake", "stuck"} /\ hand[held[c]] = c

\* Which operation a thread is in, where its next step depends on it.
OpInv ==
    \A t \in Threads :
        /\ pc[t] \in {"lock", "draining"} => op[t] \in Writers
        /\ pc[t] \in {"removing", "probing"} => op[t] = "unregister"
        /\ pc[t] = "halting" => op[t] \in {"unregister", "stopAll"}
        /\ pc[t] = "visiting" => op[t] \in Walkers

LEMMA OpStep == Types /\ HasClient /\ OpInv /\ [Next]_vars => OpInv'
<1> SUFFICES ASSUME Types, HasClient, OpInv, [Next]_vars PROVE OpInv'
  OBVIOUS
<1> USE DEF Types
<1>1. CASE UNCHANGED vars
  BY <1>1 DEF OpInv, vars, locals
<1>2. ASSUME NEW t \in Threads, Begin(t) \/ Enter(t) \/ Step(t) \/ Handshake(t) PROVE OpInv'
  <2>1. ASSUME NEW u \in Threads \ {t}
        PROVE  /\ pc'[u] \in {"lock", "draining"} => op'[u] \in Writers
               /\ pc'[u] \in {"removing", "probing"} => op'[u] = "unregister"
               /\ pc'[u] = "halting" => op'[u] \in {"unregister", "stopAll"}
               /\ pc'[u] = "visiting" => op'[u] \in Walkers
    BY <1>2, OthersStay DEF OpInv
  <2>2. /\ pc'[t] \in {"lock", "draining"} => op'[t] \in Writers
        /\ pc'[t] \in {"removing", "probing"} => op'[t] = "unregister"
        /\ pc'[t] = "halting" => op'[t] \in {"unregister", "stopAll"}
        /\ pc'[t] = "visiting" => op'[t] \in Walkers
    <3> USE DEF OpInv
    <3>1. CASE Return(t)
      BY <3>1 DEF Return, Goto
    <3>2. CASE Begin(t)
      BY <3>2 DEF Begin, Goto
    <3>3. CASE RLock(t)
      BY <3>3 DEF RLock, Goto, HasClient, OpNames
    <3>4. CASE Announce(t) \/ Drained(t) \/ HandshakeFails(t)
      BY <3>4 DEF Announce, Drained, HandshakeFails, GoOn, Goto, locals, Writers
    <3>5. CASE Probe(t)
      BY <3>5 DEF Probe, GoOn, Goto, locals
    <3>6. CASE Halt(t)
      BY <3>6 DEF Halt, GoOn, Goto, locals, Walkers
    <3>7. CASE CheckFree(t) \/ StartLock(t)
      BY <3>1, <3>7 DEF CheckFree, StartLock, GoOn, Goto, locals
    <3>8. CASE Find(t)
      BY <3>1, <3>8 DEF Find, Goto
    <3>9. CASE LookUp(t)
      BY <3>1, <3>9 DEF LookUp, Goto, HasClient
    <3>10. CASE \E c \in Clients : Visit(t, c)
      BY <3>10 DEF Visit, Goto
    <3>11. QED
      BY <1>2, <3>1, <3>2, <3>3, <3>4, <3>5, <3>6, <3>7, <3>8, <3>9, <3>10
      DEF Enter, Step, Handshake, Insert, Delete, EndVisit, Stop, HandshakeOK, SpawnFails
  <2>3. QED
    BY <2>1, <2>2 DEF OpInv
<1>3. QED
  BY <1>1, <1>2 DEF Next

LEMMA LockStep == Types /\ HasClient /\ OpInv /\ LockInv /\ [Next]_vars => LockInv'
<1> SUFFICES ASSUME Types, HasClient, OpInv, LockInv, [Next]_vars PROVE LockInv'
  OBVIOUS
<1> USE DEF Types
<1>1. CASE UNCHANGED vars
  BY <1>1 DEF LockInv, InWriter, Removing, vars, managerVars, clientVars, locals
<1>2. ASSUME NEW t \in Threads, Begin(t) \/ Enter(t) \/ Step(t) \/ Handshake(t) PROVE LockInv'
  <2>0. \A u \in Threads \ {t} : UNCHANGED <<pc[u], op[u], hand[u]>>
    BY <1>2, OthersStay
  \* The manager's mutex, taken for writing.
  <2>1. writer' # None => InWriter(writer)'
    <3> USE DEF InWriter, Removing
    <3>1. ASSUME NEW u \in Threads \ {t}, InWriter(u) PROVE InWriter(u)'
      BY <2>0, <3>1
    <3>2. ASSUME InWriter(t) PROVE InWriter(t)' \/ writer' = None
      <4>1. CASE Drained(t) \/ CheckFree(t) \/ Find(t)
        BY <4>1 DEF Drained, CheckFree, Find, GoOn, Goto, Unlock
      <4>2. CASE Probe(t) \/ Halt(t)
        BY <3>2, <4>2 DEF Probe, Halt, GoOn, Goto, locals, OpInv
      <4>3. CASE Insert(t) \/ Delete(t)
        BY <4>3 DEF Insert, Delete, Unlock
      <4>4. QED
        BY <1>2, <3>2, <4>1, <4>2, <4>3 DEF Begin, Enter, Step, Handshake, RLock, Announce, Visit,
           EndVisit, LookUp, Stop, StartLock, HandshakeOK, SpawnFails, HandshakeFails
    <3>3. writer' = writer \/ writer' = None \/ (writer' = t /\ Announce(t))
      BY <1>2 DEF Begin, Enter, Step, Handshake, RLock, Announce, Drained, CheckFree, Insert,
         Find, Probe, Halt, Delete, Visit, EndVisit, LookUp, Stop, StartLock, HandshakeOK,
         SpawnFails, HandshakeFails, RUnlock, Unlock, managerVars
    <3>4. CASE writer' = t /\ Announce(t)
      BY <3>4 DEF Announce, GoOn, Goto
    <3>5. CASE writer' = writer /\ writer # None
      BY <3>1, <3>2, <3>5 DEF LockInv
    <3>6. QED
      BY <3>3, <3>4, <3>5
  \* The same, taken for reading.
  <2>2. ASSUME NEW u \in readers'
        PROVE  (pc[u] \in {"looking", "visiting"} \/ (pc[u] = "halting" /\ op[u] = "stopAll"))'
    <3>1. CASE u # t
      <4>1. u \in readers
        BY <1>2, <2>2, <3>1 DEF Begin, Enter, Step, Handshake, RLock, Announce, Drained, CheckFree,
           Insert, Find, Probe, Halt, Delete, Visit, EndVisit, LookUp, Stop, StartLock, HandshakeOK,
           SpawnFails, HandshakeFails, RUnlock, Unlock, managerVars
      <4>2. QED
        BY <2>0, <3>1, <4>1 DEF LockInv
    <3>2. CASE u = t
      <4>1. CASE RLock(t)
        BY <3>2, <4>1 DEF RLock, Goto
      <4>2. CASE LookUp(t) \/ EndVisit(t)
        BY <2>2, <3>2, <4>2 DEF LookUp, EndVisit, RUnlock
      <4>3. CASE \E c \in Clients : Visit(t, c)
        BY <3>2, <4>3 DEF Visit, Goto
      <4>4. CASE Halt(t)
        BY <2>2, <3>2, <4>4 DEF Halt, GoOn, Goto, LockInv, managerVars
      <4>5. ASSUME ~RLock(t), ~LookUp(t), ~EndVisit(t), ~Halt(t), ~\E c \in Clients : Visit(t, c)
            PROVE  FALSE
        <5>1. t \in readers
          BY <1>2, <2>2, <3>2, <4>5 DEF Begin, Enter, Step, Handshake, Announce, Drained, CheckFree,
             Insert, Find, Probe, Delete, Stop, StartLock, HandshakeOK, SpawnFails, HandshakeFails,
             Unlock, managerVars
        <5>2. pc[t] \in {"looking", "visiting", "halting"}
          BY <5>1 DEF LockInv
        <5>3. QED
          BY <1>2, <4>5, <5>2 DEF Begin, Enter, Step, Handshake, Announce, Drained, CheckFree,
             Insert, Find, Probe, Delete, Stop, StartLock, HandshakeOK, SpawnFails, HandshakeFails
      <4>6. QED
        BY <4>1, <4>2, <4>3, <4>4, <4>5
    <3>3. QED
      BY <3>1, <3>2
  \* The mutexes of the clients.
  <2>3. ASSUME NEW c \in Clients, held'[c] # None
        PROVE  (pc[held[c]] \in {"handshake", "stuck"} /\ hand[held[c]] = c)'
    <3>1. CASE held'[c] = held[c]
      <4>1. held[c] \in Threads /\ pc[held[c]] \in {"handshake", "stuck"} /\ hand[held[c]] = c
        BY <2>3, <3>1 DEF LockInv
      <4>2. CASE held[c] # t
        BY <2>0, <3>1, <4>1, <4>2
      <4>3. CASE held[c] = t
        <5>1. HandshakeOK(t) \/ SpawnFails(t) \/ HandshakeFails(t)
          BY <1>2, <4>1, <4>3 DEF Begin, Enter, Step, Handshake, RLock, Announce, Drained, CheckFree,
             Insert, Find, Probe, Halt, Delete, Visit, EndVisit, LookUp, Stop, StartLock
        <5>2. CASE HandshakeFails(t)
          BY <3>1, <4>1, <4>3, <5>2 DEF HandshakeFails, GoOn, Goto, locals
        <5>3. CASE HandshakeOK(t) \/ SpawnFails(t)
          BY <2>3, <3>1, <4>1, <4>3, <5>3 DEF HandshakeOK, SpawnFails
        <5>4. QED
          BY <5>1, <5>2, <5>3
      <4>4. QED
        BY <4>2, <4>3
    <3>2. CASE held'[c] # held[c]
      <4>1. (StartLock(t) /\ ~isRunning[hand[t]]) \/ HandshakeOK(t) \/ SpawnFails(t)
        BY <1>2, <3>2 DEF Begin, Enter, Step, Handshake, RLock, Announce, Drained, CheckFree, Insert,
           Find, Probe, Halt, Delete, Visit, EndVisit, LookUp, Stop, StartLock, HandshakeFails,
           clientVars
      <4>2. CASE StartLock(t) /\ ~isRunning[hand[t]]
        <5>1. held' = [held EXCEPT ![hand[t]] = t] /\ pc'[t] = "handshake" /\ hand' = hand
          BY <4>2 DEF StartLock, GoOn, Goto, locals
        <5>2. c = hand[t] /\ held'[c] = t
          BY <3>2, <5>1
        <5>3. QED
          BY <5>1, <5>2
      <4>3. CASE HandshakeOK(t) \/ SpawnFails(t)
        BY <2>3, <3>2, <4>3 DEF HandshakeOK, SpawnFails
      <4>4. QED
        BY <4>1, <4>2, <4>3
    <3>3. QED
      BY <3>1, <3>2
  <2>4. QED
    BY <2>1, <2>2, <2>3 DEF LockInv
<1>3. QED
  BY <1>1, <1>2 DEF Next

-----------------------------------------------------------------------------
(* The theorems.                                                           *)

IInv == Types /\ HasClient /\ WriterInv /\ StartsInv

LEMMA Invariance == Spec => []IInv
<1>1. Init => IInv
  <2> SUFFICES ASSUME Init PROVE IInv
    OBVIOUS
  <2>1. Types /\ HasClient
    BY TypeInit
  <2>2. WriterInv
    BY DEF Init, WriterInv, Injective, WriterOf, InWriter, Removing
  <2>3. StartsInv
    BY DEF Init, StartsInv
  <2>4. QED
    BY <2>1, <2>2, <2>3 DEF IInv
<1>2. IInv /\ [Next]_vars => IInv'
  BY TypeStep, HasClientStep, WriterStep, StartsStep DEF IInv
<1>3. QED
  BY <1>1, <1>2, PTL DEF Spec

\* Every variable of the manager keeps its type, and whoever calls a method of a
\* client has one.
THEOREM TypeCorrect == Spec => []TypeOK
<1>1. IInv => TypeOK
  <2> SUFFICES ASSUME IInv, NEW t \in Threads, pc[t] \in Working PROVE hand[t] # 0
    BY DEF IInv, TypeOK
  <2>1. made \in Nat /\ hand[t] \in 1 .. made
    BY DEF IInv, Types, HasClient
  <2> QED
    BY <2>1
<1>2. QED
  BY <1>1, Invariance, PTL

\* A process outlives the removal of its server only by a Start that began
\* after UnregisterServer had looked at the client for the last time.
THEOREM OrphansOnlyFromLateStarts == Spec => []OrphansAreLate
<1>1. IInv => OrphansAreLate
  BY DEF IInv, StartsInv, PastProbe, OrphansAreLate
<1>2. QED
  BY <1>1, Invariance, PTL

LEMMA LocksInvariance == Spec => [](OpInv /\ LockInv)
<1>1. Init => OpInv /\ LockInv
  BY DEF Init, OpInv, LockInv, Clients
<1>2. IInv /\ OpInv /\ LockInv /\ [Next]_vars => (OpInv /\ LockInv)'
  BY OpStep, LockStep DEF IInv
<1>3. QED
  BY <1>1, <1>2, Invariance, PTL DEF Spec

\* The manager's mutex is taken before those of the clients, everywhere, and no
\* operation returns with a lock: whoever waits, waits for threads that are
\* further on in that order than itself.
THEOREM LocksTakenInOrder == Spec => []LockOrder
<1>1. IInv /\ OpInv /\ LockInv => LockOrder
  <2> SUFFICES ASSUME IInv, OpInv, LockInv, NEW t \in Threads, NEW u \in Threads, WaitsFor(t, u)
               PROVE  Rank(u) < Rank(t)
    BY DEF LockOrder
  <2>0. Types /\ HasClient
    BY DEF IInv
  <2>1. CASE pc[t] \in {"lock", "rlock"} /\ writer = u
    <3>1. pc[u] \in {"probing", "deleting", "halting", "draining", "checking", "inserting", "removing"}
      BY <2>1 DEF LockInv, InWriter, Removing
    <3>2. Rank(u) \in 0 .. 2 /\ Rank(t) = 3
      BY <2>1, <3>1 DEF Rank
    <3>3. QED
      BY <3>2
  <2>2. CASE pc[t] = "draining" /\ u \in readers
    <3>1. pc[u] \in {"looking", "visiting", "halting"}
      BY <2>2 DEF LockInv
    <3>2. Rank(u) \in 0 .. 1 /\ Rank(t) = 2
      BY <2>2, <3>1 DEF Rank
    <3>3. QED
      BY <3>2
  <2>3. ASSUME NEW c \in Clients, held[c] = u, Rank(t) = 1 PROVE Rank(u) < Rank(t)
    <3>1. pc[u] \in {"handshake", "stuck"}
      BY <2>3 DEF LockInv
    <3>2. Rank(u) = 0
      BY <3>1 DEF Rank
    <3>3. QED
      BY <2>3, <3>2
  <2>4. CASE pc[t] \in {"probing", "halting", "start", "stop"} /\ held[hand[t]] = u
    <3>1. hand[t] \in Clients
      BY <2>0, <2>4 DEF HasClient, Working, Types, Clients
    <3>2. Rank(t) = 1
      BY <2>4 DEF Rank
    <3>3. QED
      BY <2>3, <2>4, <3>1, <3>2
  <2>5. ASSUME pc[t] = "visiting", NEW c \in todo[t], held[c] = u PROVE Rank(u) < Rank(t)
    <3>1. c \in Clients
      BY <2>0 DEF Types, Clients
    <3>2. Rank(t) = 1
      BY <2>5 DEF Rank
    <3>3. QED
      BY <2>3, <2>5, <3>1, <3>2
  <2>6. QED
    BY <2>1, <2>2, <2>4, <2>5 DEF WaitsFor
<1>2. QED
  BY <1>1, Invariance, LocksInvariance, PTL

\* As long as calls are under way, one of them waits for no other thread: the
\* manager never comes to a state in which all wait for each other.  That one may
\* be stuck, by a failed handshake, but not because of the others.
Waits(t) == \E u \in Threads : WaitsFor(t, u)
SomeoneGoesOn ==
    (\E t \in Threads : pc[t] # "idle") => \E t \in Threads : pc[t] # "idle" /\ ~Waits(t)

THEOREM NeverDeadlocked == Spec => []SomeoneGoesOn
<1>1. LockOrder => SomeoneGoesOn
  <2> SUFFICES ASSUME LockOrder, NEW t \in Threads, pc[t] # "idle",
                      \A u \in Threads : pc[u] # "idle" => Waits(u)
               PROVE  FALSE
    BY DEF SomeoneGoesOn
  <2>1. \A u \in Threads : Rank(u) \in 0 .. 4 /\ (Rank(u) # 4 <=> pc[u] # "idle")
    BY DEF Rank
  <2>2. \A u \in Threads : Rank(u) # 4 => \E v \in Threads : Rank(v) < Rank(u) /\ Rank(v) # 4
    BY <2>1 DEF LockOrder, Waits
  <2> HIDE DEF Rank
  <2>3. PICK a \in Threads : Rank(a) < Rank(t) /\ Rank(a) # 4
    BY <2>1, <2>2
  <2>4. PICK b \in Threads : Rank(b) < Rank(a) /\ Rank(b) # 4
    BY <2>2, <2>3
  <2>5. PICK c \in Threads : Rank(c) < Rank(b) /\ Rank(c) # 4
    BY <2>2, <2>4
  <2>6. PICK d \in Threads : Rank(d) < Rank(c) /\ Rank(d) # 4
    BY <2>2, <2>5
  <2>7. QED
    BY <2>1, <2>3, <2>4, <2>5, <2>6
<1>2. QED
  BY <1>1, LocksTakenInOrder, PTL

\* The manager's map, with its lock and its multi-step operations, is a
\* registry.
THEOREM ManagerImplementsRegistry == Spec => ImplementsRegistry
<1> USE DEF Mapped
<1>1. Init => Map!Init
  BY DEF Init, Map!Init
<1>2. IInv /\ [Next]_vars => [Map!Next]_(Map!vars)
  <2> SUFFICES ASSUME IInv, [Next]_vars PROVE [Map!Next]_(Map!vars)
    OBVIOUS
  <2>1. Types /\ Injective /\ \A t \in Threads : WriterOf(t)
    BY DEF IInv, WriterInv
  <2>2. CASE UNCHANGED <<clients, made>>
    BY <2>2 DEF Map!vars
  <2>3. ASSUME NEW t \in Threads, Insert(t) PROVE Map!Next
    <3>1. /\ name[t] \in Names /\ clients[name[t]] = 0
          /\ made' = made + 1 /\ made + 1 \in Clients
          /\ clients' = [clients EXCEPT ![name[t]] = made + 1]
      BY <2>1, <2>3 DEF Insert, Types, WriterOf, Clients
    <3>2. /\ made + 1 \notin (1 .. made) \ Mapped
          /\ \A m \in Names : clients[m] # made + 1
      BY <2>1 DEF Types
    <3>3. Mapped' = Mapped \union {made + 1}
      BY <2>1, <3>1 DEF Types
    <3>4. ((1 .. made) \ Mapped)' = (1 .. made) \ Mapped
      BY <2>1, <3>1, <3>3 DEF Types
    <3>5. QED
      BY <3>1, <3>2, <3>4 DEF Map!Next, Map!Register
  <2>4. ASSUME NEW t \in Threads, Delete(t) PROVE Map!Next
    <3>1. /\ name[t] \in Names /\ clients[name[t]] \in 1 .. made /\ made' = made
          /\ clients' = [clients EXCEPT ![name[t]] = 0]
      BY <2>1, <2>4 DEF Delete, Types, WriterOf, Removing
    <3>2. Mapped' = Mapped \ {clients[name[t]]}
      BY <2>1, <3>1 DEF Types, Injective
    <3>3. ((1 .. made) \ Mapped)' = ((1 .. made) \ Mapped) \union {clients[name[t]]}
      BY <3>1, <3>2
    <3>4. PICK n \in Names : n = name[t]
      BY <3>1
    <3>5. /\ clients[n] # 0
          /\ ((1 .. made) \ Mapped)' = ((1 .. made) \ Mapped) \union {clients[n]}
          /\ clients' = [clients EXCEPT ![n] = 0]
      BY <3>1, <3>3, <3>4
    <3>6. Map!Unregister(n)
      BY <3>5 DEF Map!Unregister
    <3>7. QED
      BY <3>4, <3>6 DEF Map!Next
  <2>5. QED
    BY <2>2, <2>3, <2>4 DEF Next, Begin, Enter, Step, Handshake, RLock, Announce, Drained,
       CheckFree, Find, Probe, Halt, Visit, EndVisit, LookUp, Stop, StartLock, HandshakeOK,
       SpawnFails, HandshakeFails, RUnlock, managerVars, vars
<1>3. QED
  BY <1>1, <1>2, Invariance, PTL DEF Spec, Map!Spec, ImplementsRegistry

\* What a step does to the mutexes of the clients and to what runs.
LEMMA ClientEffects ==
    ASSUME NEW t \in Threads, Begin(t) \/ Enter(t) \/ Step(t) \/ Handshake(t)
    PROVE  \/ UNCHANGED <<held, isRunning>>
           \/ Halt(t) \/ Stop(t) \/ (StartLock(t) /\ ~isRunning[hand[t]])
           \/ HandshakeOK(t) \/ SpawnFails(t)
  BY DEF Begin, Enter, Step, Handshake, RLock, Announce, Drained, CheckFree, Insert, Find, Probe,
     Delete, Visit, EndVisit, LookUp, StartLock, HandshakeFails, clientVars

\* Every client behind the manager keeps the contract that StdioClient is shown
\* to keep: whether it runs is settled for everybody else while it is started.
THEOREM ManagerImplementsClientIface == Spec => ImplementsClientIface
<1>1. Init => \A c \in Clients : Iface(c)!Init
  BY DEF Init, Iface!Init
<1>2. IInv /\ [Next]_vars => [\A c \in Clients : [Iface(c)!Next]_(Iface(c)!vars)]_<<held, isRunning>>
  <2> SUFFICES ASSUME IInv, NEW t \in Threads, Begin(t) \/ Enter(t) \/ Step(t) \/ Handshake(t),
                      ~UNCHANGED <<held, isRunning>>, NEW c \in Clients
               PROVE  Iface(c)!Next \/ UNCHANGED <<held[c], isRunning[c]>>
    BY DEF Next, Iface!vars, vars, clientVars
  <2> USE DEF Iface!Next
  <2>0. /\ held \in [Clients -> Threads \union {None}] /\ isRunning \in [Clients -> BOOLEAN]
        /\ pc[t] \in Working => hand[t] \in Clients
        /\ pc[t] = "handshake" => held[hand[t]] # None
    <3>1. /\ held \in [Clients -> Threads \union {None}] /\ isRunning \in [Clients -> BOOLEAN]
          /\ made \in 0 .. MaxClients
      BY DEF IInv, Types
    <3>2. pc[t] \in Working => hand[t] \in 1 .. made
      BY DEF IInv, HasClient
    <3>3. pc[t] = "handshake" => held[hand[t]] = t
      BY DEF IInv, StartsInv
    <3>4. QED
      BY <3>1, <3>2, <3>3 DEF Clients
  <2>1. CASE Halt(t) \/ Stop(t)
    <3>1. /\ held' = held /\ held[hand[t]] = None
          /\ isRunning' = [isRunning EXCEPT ![hand[t]] = FALSE]
      BY <2>1 DEF Halt, Stop
    <3>2. CASE c = hand[t]
      BY <2>0, <3>1, <3>2 DEF Iface!Stop
    <3>3. CASE c # hand[t]
      BY <2>0, <3>1, <3>3
    <3>4. QED
      BY <3>2, <3>3
  <2>2. CASE StartLock(t) /\ ~isRunning[hand[t]]
    <3>1. /\ held' = [held EXCEPT ![hand[t]] = t] /\ held[hand[t]] = None
          /\ isRunning' = isRunning
      BY <2>2 DEF StartLock
    <3>2. CASE c = hand[t]
      BY <2>0, <2>2, <3>1, <3>2 DEF Iface!Start
    <3>3. CASE c # hand[t]
      BY <2>0, <3>1, <3>3
    <3>4. QED
      BY <3>2, <3>3
  <2>3. CASE HandshakeOK(t) \/ SpawnFails(t)
    <3>1. /\ held' = [held EXCEPT ![hand[t]] = None] /\ held[hand[t]] # None
          /\ isRunning' = [isRunning EXCEPT ![hand[t]] = TRUE] \/ isRunning' = isRunning
      BY <2>0, <2>3 DEF HandshakeOK, SpawnFails
    <3>2. CASE c = hand[t]
      BY <2>0, <3>1, <3>2 DEF Iface!Started, Iface!NotSpawned
    <3>3. CASE c # hand[t]
      BY <2>0, <3>1, <3>3
    <3>4. QED
      BY <3>2, <3>3
  <2>4. QED
    BY <2>1, <2>2, <2>3, ClientEffects
<1>3. QED
  BY <1>1, <1>2, Invariance, PTL DEF Spec, ImplementsClientIface
-----------------------------------------------------------------------------
(* Calls are finite.                                                       *)

\* How many steps the call of t may still take: what its place allows, and two
\* for each client it still has to visit.
Left(label) ==
    CASE label \in {"inserting", "deleting", "visiting", "stop", "stuck"} -> 1
      [] label \in {"halting", "handshake"} -> 2
      [] label \in {"probing", "start"} -> 3
      [] label \in {"checking", "removing", "looking"} -> 4
      [] label = "draining" -> 5
      [] label = "lock" -> 6
      [] label = "rlock" -> 2 * MaxClients + 6
      [] OTHER -> 0
Visits(t) == IF pc[t] \in {"visiting", "halting"} /\ op[t] \in Walkers THEN todo[t] ELSE {}
Measure(t) == Left(pc[t]) + 2 * Cardinality(Visits(t))

LEMMA ClientsFinite ==
    ASSUME NEW S \in SUBSET Clients
    PROVE  IsFiniteSet(S) /\ Cardinality(S) \in 0 .. MaxClients
<1>1. IsFiniteSet(Clients) /\ Cardinality(Clients) = MaxClients
  BY FS_Interval DEF Clients
<1>2. IsFiniteSet(S) /\ Cardinality(S) <= Cardinality(Clients)
  BY <1>1, FS_Subset
<1>3. QED
  BY <1>1, <1>2, FS_CardinalityType

LEMMA MeasureType == Types => \A t \in Threads : Measure(t) \in 0 .. 2 * MaxClients + 6
<1> SUFFICES ASSUME Types, NEW t \in Threads PROVE Measure(t) \in 0 .. 2 * MaxClients + 6
  OBVIOUS
<1>1. Visits(t) \in SUBSET Clients
  BY DEF Visits, Types, Clients
<1>2. Cardinality(Visits(t)) \in 0 .. MaxClients
  BY <1>1, ClientsFinite
<1>3. CASE pc[t] \in {"visiting", "halting"}
  <2>1. Left(pc[t]) \in 1 .. 2
    BY <1>3 DEF Left
  <2>2. QED
    BY <1>2, <2>1 DEF Measure
<1>4. CASE pc[t] \notin {"visiting", "halting"}
  <2>1. Visits(t) = {}
    BY <1>4 DEF Visits
  <2>2. Cardinality(Visits(t)) = 0
    BY <2>1, FS_EmptySet
  <2>3. Left(pc[t]) \in 0 .. 2 * MaxClients + 6
    BY DEF Left
  <2>4. QED
    BY <2>2, <2>3 DEF Measure
<1>5. QED
  BY <1>3, <1>4

\* Every step that t takes in a call brings it closer to its end, and the steps
\* of others do not take it further from it.
CallsShrink ==
    \A t \in Threads :
        pc[t] # "idle" => UNCHANGED <<pc[t], op[t], todo[t]>> \/ Measure(t)' < Measure(t)
BoundedCalls == \A t \in Threads : Measure(t) \in 0 .. 2 * MaxClients + 6

LEMMA StepShrinks ==
    ASSUME Types, HasClient, OpInv, NEW t \in Threads, Enter(t) \/ Step(t) \/ Handshake(t)
    PROVE  Measure(t)' < Measure(t)
<1>0. Types'
  <2>1. [Next]_vars
    BY DEF Next
  <2>2. QED
    BY <2>1, TypeStep
<1> DEFINE n == Cardinality(Visits(t))
<1>1. /\ n \in Nat /\ n' \in 0 .. MaxClients /\ MaxClients \in Nat
      /\ pc[t] \notin {"visiting", "halting"} \/ op[t] \notin Walkers => n = 0
      /\ (pc[t] \notin {"visiting", "halting"} \/ op[t] \notin Walkers => n = 0)'
  <2>1. Visits(t) \in SUBSET Clients
    BY DEF Visits, Types, Clients
  <2>2. todo'[t] \in SUBSET (1 .. made') /\ made' \in 0 .. MaxClients
    BY <1>0 DEF Types
  <2>3. Visits(t)' \in SUBSET Clients
    BY <2>2 DEF Visits, Clients
  <2>4. n \in 0 .. MaxClients /\ n' \in 0 .. MaxClients
    BY <2>1, <2>3, ClientsFinite
  <2>5. QED
    BY <2>4, FS_EmptySet DEF Visits
<1> HIDE DEF n
<1>2. Measure(t) = Left(pc[t]) + 2 * n /\ Measure(t)' = Left(pc'[t]) + 2 * n'
  <2>1. Left(pc[t])' = Left(pc'[t])
    BY DEF Left
  <2>2. QED
    BY <2>1 DEF Measure, n
<1>3. pc \in [Threads -> Labels] /\ op \in [Threads -> OpNames] /\ todo \in [Threads -> SUBSET (1 .. made)]
  BY DEF Types
\* The call returns.
<1>4. ASSUME Return(t), pc[t] # "idle" PROVE Measure(t)' < Measure(t)
  <2>1. pc'[t] = "idle" /\ Left("idle") = 0 /\ Left(pc[t]) \in Nat \ {0}
    BY <1>3, <1>4 DEF Return, Goto, Left, Labels
  <2>2. QED
    BY <1>1, <1>2, <2>1
\* It goes on, with nothing to visit.
<1>5. ASSUME pc[t] \notin {"visiting", "halting"} \/ op[t] \notin Walkers,
             pc'[t] \notin {"visiting", "halting"} \/ op'[t] \notin Walkers,
             Left(pc'[t]) < Left(pc[t])
      PROVE  Measure(t)' < Measure(t)
  <2>1. Left(pc[t]) \in Nat /\ Left(pc'[t]) \in Nat
    BY <1>1 DEF Left
  <2>2. n = 0 /\ n' = 0
    BY <1>1, <1>5
  <2>3. QED
    BY <1>2, <1>5, <2>1, <2>2
<1>6. CASE RLock(t)
  <2>1. pc[t] = "rlock" /\ pc'[t] \in {"visiting", "looking"}
    BY <1>3, <1>6 DEF RLock, Goto
  <2>2. Left(pc[t]) = 2 * MaxClients + 6 /\ Left(pc'[t]) \in {1, 4} /\ n = 0
    BY <1>1, <2>1 DEF Left
  <2>3. Left(pc'[t]) = 4 => n' = 0
    BY <1>1, <2>1 DEF Left
  <2>4. QED
    BY <1>1, <1>2, <2>2, <2>3
<1>7. CASE Announce(t) \/ Drained(t)
  BY <1>3, <1>5, <1>7 DEF Announce, Drained, GoOn, Goto, Left
<1>8. CASE CheckFree(t) \/ Find(t)
  BY <1>3, <1>4, <1>5, <1>8 DEF CheckFree, Find, GoOn, Goto, Left
<1>9. CASE Insert(t) \/ Delete(t) \/ Stop(t) \/ EndVisit(t) \/ HandshakeOK(t) \/ SpawnFails(t)
  BY <1>4, <1>9 DEF Insert, Delete, Stop, EndVisit, HandshakeOK, SpawnFails
<1>10. CASE Probe(t)
  <2>1. pc[t] = "probing" /\ pc'[t] \in {"halting", "deleting"} /\ op'[t] = "unregister"
    BY <1>3, <1>10 DEF Probe, GoOn, Goto, locals, OpInv
  <2>2. Left(pc[t]) = 3 /\ Left(pc'[t]) \in 1 .. 2
    BY <2>1 DEF Left
  <2>3. QED
    BY <1>5, <2>1, <2>2 DEF Walkers
<1>11. CASE LookUp(t) \/ StartLock(t) \/ HandshakeFails(t)
  <2>1. CASE Return(t)
    BY <1>4, <1>11, <2>1 DEF LookUp, StartLock, HandshakeFails
  <2>2. CASE ~Return(t)
    BY <1>3, <1>5, <1>11, <2>2 DEF LookUp, StartLock, HandshakeFails, HasClient, GoOn, Goto, Left
  <2>3. QED
    BY <2>1, <2>2
\* Visiting: two steps for each client.
<1>12. CASE Halt(t)
  <2>1. pc[t] = "halting" /\ UNCHANGED <<op, todo>>
        /\ pc' = [pc EXCEPT ![t] = IF op[t] = "unregister" THEN "deleting" ELSE "visiting"]
    BY <1>12 DEF Halt, GoOn, Goto, locals
  <2>2. CASE op[t] = "unregister"
    <3>1. pc'[t] = "deleting" /\ Left("deleting") = 1 /\ Left("halting") = 2
      BY <1>3, <2>1, <2>2 DEF Left
    <3>2. QED
      BY <1>5, <2>1, <2>2, <3>1 DEF Walkers
  <2>3. CASE op[t] # "unregister"
    <3>1. pc'[t] = "visiting" /\ Left("visiting") = 1 /\ Left("halting") = 2
      BY <1>3, <2>1, <2>3 DEF Left
    <3>2. n' = n
      BY <2>1, <3>1 DEF n, Visits
    <3>3. QED
      BY <1>1, <1>2, <2>1, <3>1, <3>2
  <2>4. QED
    BY <2>2, <2>3
<1>13. ASSUME NEW c \in Clients, Visit(t, c) PROVE Measure(t)' < Measure(t)
  <2>1. /\ pc[t] = "visiting" /\ pc'[t] \in {"visiting", "halting"} /\ op' = op
        /\ c \in todo[t] /\ todo'[t] = todo[t] \ {c}
    BY <1>3, <1>13 DEF Visit, Goto
  <2>2. op[t] \in Walkers
    BY <2>1 DEF OpInv
  <2>3. Visits(t) = todo[t] /\ Visits(t)' = todo[t] \ {c}
    BY <2>1, <2>2 DEF Visits
  <2>4. IsFiniteSet(todo[t])
    <3>1. todo[t] \in SUBSET Clients
      BY <1>3 DEF Types, Clients
    <3>2. QED
      BY <3>1, ClientsFinite
  <2>5. n' = n - 1
    BY <2>1, <2>3, <2>4, FS_RemoveElement DEF n
  <2>6. Left("visiting") = 1 /\ Left("halting") = 2
    BY DEF Left
  <2>7. QED
    BY <1>1, <1>2, <2>1, <2>5, <2>6
<1>14. QED
  BY <1>6, <1>7, <1>8, <1>9, <1>10, <1>11, <1>12, <1>13 DEF Enter, Step, Handshake

\* A call of the manager takes no more than 2 * MaxClients + 6 steps, however
\* the others interfere; with NeverDeadlocked, whoever waits, waits for calls
\* that end.
THEOREM CallsAreBounded == Spec => []BoundedCalls /\ [][CallsShrink]_vars
<1>1. IInv => BoundedCalls
  BY MeasureType DEF IInv, BoundedCalls
<1>2. IInv /\ OpInv /\ [Next]_vars => [CallsShrink]_vars
  <2> SUFFICES ASSUME IInv, OpInv, NEW t \in Threads, Begin(t) \/ Enter(t) \/ Step(t) \/ Handshake(t),
                      NEW u \in Threads, pc[u] # "idle"
               PROVE  UNCHANGED <<pc[u], op[u], todo[u]>> \/ Measure(u)' < Measure(u)
    BY DEF CallsShrink, Next
  <2>1. Types /\ HasClient
    BY DEF IInv
  <2>2. CASE u = t
    BY <2>1, <2>2, StepShrinks DEF Begin
  <2>3. CASE u # t
    BY <2>1, <2>3, OthersStay
  <2>4. QED
    BY <2>2, <2>3
<1>3. QED
  BY <1>1, <1>2, Invariance, LocksInvariance, PTL DEF Spec

-----------------------------------------------------------------------------
(* Handshakes that failed.                                                 *)

\* A call whose handshake failed has its client's mutex.
StuckInv == \A t \in Threads : pc[t] = "stuck" => hand[t] \in Clients /\ held[hand[t]] = t
StuckForGood == \A t \in Threads : pc[t] = "stuck" => UNCHANGED <<pc[t], hand[t]>>

LEMMA StuckStep == IInv /\ StuckInv /\ [Next]_vars => StuckInv' /\ StuckForGood
<1> SUFFICES ASSUME IInv, StuckInv, NEW t \in Threads, Begin(t) \/ Enter(t) \/ Step(t) \/ Handshake(t)
             PROVE  StuckInv' /\ StuckForGood
  BY DEF StuckInv, StuckForGood, Next, vars, clientVars, locals
<1>0. Types /\ HasClient /\ StartsInv
  BY DEF IInv
<1>1. /\ pc[t] # "stuck"
      /\ pc'[t] = "stuck" => HandshakeFails(t)
  BY <1>0 DEF Begin, Enter, Step, Handshake, RLock, Announce, Drained, CheckFree, Insert, Find,
     Probe, Halt, Delete, Visit, EndVisit, LookUp, Stop, StartLock, HandshakeOK, SpawnFails,
     HandshakeFails, GoOn, Goto, Return, Writers, HasClient, Types
<1>2. \A u \in Threads \ {t} : UNCHANGED <<pc[u], hand[u]>>
  BY <1>0, OthersStay
<1>3. StuckForGood
  BY <1>1, <1>2 DEF StuckForGood
<1>4. ASSUME NEW u \in Threads \ {t}, pc[u] = "stuck"
      PROVE  held'[hand[u]] = u
  <2>1. hand[u] \in Clients /\ held[hand[u]] = u
    BY <1>4 DEF StuckInv
  <2>2. ASSUME NEW x \in Threads \union {None}, held' = [held EXCEPT ![hand[t]] = x], hand[t] # hand[u]
        PROVE  held'[hand[u]] = u
    BY <1>0, <2>1, <2>2 DEF Types
  <2>3. CASE HandshakeOK(t) \/ SpawnFails(t)
    <3>1. held[hand[t]] = t /\ held' = [held EXCEPT ![hand[t]] = None]
      BY <1>0, <2>3 DEF HandshakeOK, SpawnFails, StartsInv
    <3>2. QED
      BY <2>1, <2>2, <3>1
  <2>4. CASE StartLock(t) /\ ~isRunning[hand[t]]
    <3>1. held[hand[t]] = None /\ held' = [held EXCEPT ![hand[t]] = t]
      BY <2>4 DEF StartLock
    <3>2. QED
      BY <2>1, <2>2, <3>1
  <2>5. CASE held' = held
    BY <2>1, <2>5
  <2>6. QED
    BY <2>3, <2>4, <2>5, ClientEffects DEF Halt, Stop
<1>5. ASSUME HandshakeFails(t) PROVE hand'[t] \in Clients /\ held'[hand'[t]] = t
  <2>1. pc[t] = "handshake" /\ UNCHANGED <<hand, held>>
    BY <1>5 DEF HandshakeFails, GoOn, locals, clientVars
  <2>2. hand[t] \in Clients /\ held[hand[t]] = t
    BY <1>0, <2>1 DEF HasClient, Working, StartsInv, Types, Clients
  <2>3. QED
    BY <2>1, <2>2
<1>6. QED
  BY <1>1, <1>2, <1>3, <1>4, <1>5 DEF StuckInv

\* A client whose handshake failed keeps its mutex for ever, and the call that
\* started it never returns: the exception of EveryCallReturns has no end.
THEOREM StuckForever == Spec => []StuckInv /\ [][StuckForGood]_vars
<1>1. Init => StuckInv
  BY DEF Init, StuckInv
<1>2. QED
  BY <1>1, StuckStep, Invariance, PTL DEF Spec
=============================================================================
