------------------------- MODULE Reconciler_proofs -------------------------
(***************************************************************************)
(* Theorems about Reconciler, for any servers, callers and configurations. *)
(***************************************************************************)
EXTENDS Reconciler, TLAPS, FiniteSetTheorems

USE ConstantsAssumption DEF None, Boot, Api, Off

Client0 == {Absent} \union MadeClients

LEMMA ClientTypes ==
    /\ Absent \in Client0 /\ Absent \notin MadeClients
    /\ \A p \in Procs : \A kind : Client(p, kind) \in Client0 /\ Client(p, kind) # Absent
    /\ Client(Api, "plain") \in Client0 /\ Client(Api, "plain") # Absent
  BY DEF Client0, MadeClients, Absent, Client, Procs

LEMMA TypeInit == Init => TypeOK
<1> SUFFICES ASSUME Init PROVE TypeOK
  OBVIOUS
<1>1. NoConfigs \in Configs
  BY DEF NoConfigs, Configs
<1>2. backend \in Configs /\ configs \in [Procs -> Configs]
  BY <1>1 DEF Init
<1>3. servers \in [Names -> Client0]
  BY ClientTypes DEF Init
<1>4. changes \in 0 .. MaxChanges /\ apiCalls \in 0 .. MaxApi
  BY DEF Init
<1>5. /\ serving \in BOOLEAN /\ recent \in BOOLEAN /\ succeeded \in BOOLEAN
      /\ mu \in Callers \union {None}
  BY DEF Init
<1>6. pc \in [Procs -> Labels]
  BY DEF Init, Labels, InRefresh
<1>7. /\ todo \in [Procs -> SUBSET Names] /\ disturbed \in [Procs -> SUBSET Names]
      /\ current \in [Procs -> Names \union {None}]
  BY DEF Init
<1>8. QED
  BY <1>2, <1>3, <1>4, <1>5, <1>6, <1>7 DEF TypeOK, Client0

\* What registering and unregistering do, to the map and to the others.
LEMMA SetServerEffect ==
    ASSUME TypeOK, NEW p, NEW n \in Names, NEW client \in Client0, SetServer(p, n, client)
    PROVE  /\ servers' \in [Names -> Client0]
           /\ disturbed' \in [Procs -> SUBSET Names]
           /\ Registered' = IF client = Absent THEN Registered \ {n} ELSE Registered \union {n}
           /\ \A q \in Procs \ {p} :
                pc[q] \in Reconciling => disturbed'[q] = disturbed[q] \union {n}
           /\ p \in Procs => disturbed'[p] = disturbed[p]
<1>1. servers' = [servers EXCEPT ![n] = client] /\ servers \in [Names -> Client0]
  BY DEF SetServer, TypeOK, Client0
<1>2. servers' \in [Names -> Client0]
  BY <1>1
<1>3. Registered' = IF client = Absent THEN Registered \ {n} ELSE Registered \union {n}
  BY <1>1 DEF Registered
<1>4. disturbed' \in [Procs -> SUBSET Names]
  BY DEF SetServer, TypeOK
<1>5. /\ \A q \in Procs \ {p} : pc[q] \in Reconciling => disturbed'[q] = disturbed[q] \union {n}
      /\ p \in Procs => disturbed'[p] = disturbed[p]
  BY DEF SetServer, TypeOK
<1>6. QED
  BY <1>2, <1>3, <1>4, <1>5

\* Contexts come and go without changing what is registered.
LEMMA ProcessEffect ==
    ASSUME TypeOK, NEW n \in Registered, NEW c \in Procs \union {Api, None, "cancelled"},
           servers' = [servers EXCEPT ![n].process = c]
    PROVE  servers' \in [Names -> Client0] /\ Registered' = Registered
<1> DEFINE client == [servers[n] EXCEPT !.process = c]
<1>1. n \in Names /\ servers[n] \in MadeClients /\ servers \in [Names -> Client0]
  BY DEF TypeOK, Client0, MadeClients, Registered
<1>2. client \in MadeClients
  BY <1>1 DEF MadeClients
<1>3. client \in Client0 /\ client # Absent
  BY <1>2, ClientTypes DEF Client0
<1>4. servers' = [servers EXCEPT ![n] = client]
  OBVIOUS
<1> HIDE DEF client
<1> QED
  BY <1>1, <1>3, <1>4 DEF Registered

LEMMA StartEffect ==
    ASSUME TypeOK, NEW p \in Procs, Start(p)
    PROVE  servers' \in [Names -> Client0] /\ Registered' = Registered
<1>1. CASE UNCHANGED servers
  BY <1>1 DEF Registered, TypeOK, Client0
<1>2. CASE StartUnder(current[p], p)
  BY <1>2, ProcessEffect DEF StartUnder, Procs
<1>3. QED
  BY <1>1, <1>2 DEF Start

\* The handlers that start and stop leave everything but processes alone.
HandlerStarts(n) == ApiStart(n) \/ ApiStop(n) \/ LazyStart(n)

LEMMA HandlerEffect ==
    ASSUME TypeOK, NEW n \in Names, HandlerStarts(n)
    PROVE  /\ servers' \in [Names -> Client0] /\ Registered' = Registered
           /\ UNCHANGED <<backendVars, refresherVars, disturbed, apiCalls, serving, pc, locals>>
<1>1. PICK c \in {Api, None, "cancelled"} :
         n \in Registered /\ servers' = [servers EXCEPT ![n].process = c]
  BY DEF HandlerStarts, ApiStart, ApiStop, LazyStart, StartUnder
<1>2. servers' \in [Names -> Client0] /\ Registered' = Registered
  BY <1>1, ProcessEffect
<1> QED
  BY <1>2 DEF HandlerStarts, ApiStart, ApiStop, LazyStart

LEMMA ExceptTwice ==
    ASSUME NEW r, NEW c, NEW d
    PROVE  [r EXCEPT !.token = c, !.process = d] = [[r EXCEPT !.token = c] EXCEPT !.process = d]
  OBVIOUS

LEMMA EndRequestEffect ==
    ASSUME TypeOK, NEW p \in Procs, EndRequest(p)
    PROVE  servers' \in [Names -> Client0] /\ Registered' = Registered
<1> DEFINE cut(n) == [servers[n] EXCEPT !.token = Cut(p, @), !.process = Cut(p, @)]
<1>1. \A n \in Names : cut(n) \in Client0 /\ (cut(n) # Absent <=> servers[n] # Absent)
  <2> SUFFICES ASSUME NEW n \in Names
               PROVE  cut(n) \in Client0 /\ (cut(n) # Absent <=> servers[n] # Absent)
    OBVIOUS
  <2>1. CASE servers[n] = Absent
    <3>1. Cut(p, Absent.token) = None /\ Cut(p, Absent.process) = None
      BY DEF Cut, Procs, Absent
    <3>2. cut(n) = [Absent EXCEPT !.token = None, !.process = None]
      BY <2>1, <3>1
    <3>3. [Absent EXCEPT !.token = None] = Absent /\ [Absent EXCEPT !.process = None] = Absent
      BY DEF Absent
    <3>4. cut(n) = Absent
      BY <3>2, <3>3, ExceptTwice
    <3> QED
      BY <2>1, <3>4 DEF Client0
  <2>2. CASE servers[n] \in MadeClients
    <3>1. cut(n) \in MadeClients
      BY <2>2 DEF MadeClients, Cut
    <3> QED
      BY <2>2, <3>1, ClientTypes DEF Client0
  <2> QED
    BY <2>1, <2>2 DEF TypeOK, Client0
<1>2. servers' = [n \in Names |-> cut(n)]
  BY DEF EndRequest
<1>3. servers' \in [Names -> Client0] /\ \A n \in Names : servers'[n] = cut(n)
  BY <1>1, <1>2
<1> QED
  BY <1>1, <1>3 DEF Registered

\* The client of a name after each kind of step.
LEMMA SetServerAt ==
    ASSUME TypeOK, NEW p, NEW m \in Names, NEW client, SetServer(p, m, client), NEW n \in Names
    PROVE  servers'[n] = IF n = m THEN client ELSE servers[n]
  BY DEF SetServer, TypeOK

LEMMA StartAt ==
    ASSUME TypeOK, NEW m \in Names, NEW c, StartUnder(m, c), NEW n \in Names
    PROVE  /\ servers'[n].maker = servers[n].maker
           /\ servers'[n].token = servers[n].token
           /\ servers'[n].process = IF n = m THEN c ELSE servers[n].process
           /\ n = m => servers[n].process = None
<1>1. servers[m] \in MadeClients /\ servers \in [Names -> Client0]
  BY DEF StartUnder, Registered, TypeOK, Client0
<1>2. servers'[n] = IF n = m THEN [servers[m] EXCEPT !.process = c] ELSE servers[n]
  BY <1>1 DEF StartUnder
<1> QED
  BY <1>1, <1>2 DEF StartUnder, MadeClients

LEMMA StopAt ==
    ASSUME TypeOK, NEW m \in Names, ApiStop(m), NEW n \in Names
    PROVE  /\ servers'[n].maker = servers[n].maker
           /\ servers'[n].token = servers[n].token
           /\ servers'[n].process = IF n = m THEN None ELSE servers[n].process
<1>1. servers[m] \in MadeClients /\ servers \in [Names -> Client0]
  BY DEF ApiStop, Registered, TypeOK, Client0
<1>2. servers'[n] = IF n = m THEN [servers[m] EXCEPT !.process = None] ELSE servers[n]
  BY <1>1 DEF ApiStop
<1> QED
  BY <1>1, <1>2 DEF MadeClients

LEMMA EndRequestAt ==
    ASSUME TypeOK, NEW p \in Procs, EndRequest(p), NEW n \in Names
    PROVE  /\ servers'[n].maker = servers[n].maker
           /\ servers'[n].token = Cut(p, servers[n].token)
           /\ servers'[n].process = Cut(p, servers[n].process)
<1>1. servers[n] \in Client0
  BY DEF TypeOK, Client0
<1>2. servers'[n] = [servers[n] EXCEPT !.token = Cut(p, @), !.process = Cut(p, @)]
  BY DEF EndRequest
<1> QED
  BY <1>1, <1>2 DEF Client0, MadeClients, Absent

\* The world leaves the bootstraps alone.
LEMMA WorldLeaves ==
    World => UNCHANGED <<mu, succeeded, serving, pc, configs, todo, current>> /\ (recent' => recent)
  BY DEF World, ChangeBackend, IntervalElapses, Handler, ApiRegister, ApiUnregister, ApiStart,
     ApiStop, LazyStart, refresherVars, locals

\* A process that registers or starts has a name in hand.
CurrentKnown == \A p \in Procs : pc[p] \in {"adding", "starting"} => current[p] \in Names

LEMMA CurrentStep == TypeOK /\ CurrentKnown /\ [Next]_vars => CurrentKnown'
<1> SUFFICES ASSUME TypeOK, CurrentKnown, [Next]_vars PROVE CurrentKnown'
  OBVIOUS
<1> USE DEF CurrentKnown, TypeOK, locals
<1>1. ASSUME NEW p \in Procs,
             Request(p) \/ Lock(p) \/ Fetch(p) \/ FetchFails(p) \/ ReadNames(p)
               \/ EndRemoving(p) \/ EndRegistering(p) \/ EndRequest(p)
      PROVE  CurrentKnown'
  <2>1. CASE Request(p)
    BY <2>1 DEF Request, Goto
  <2>2. CASE Lock(p)
    BY <2>2 DEF Lock, Goto
  <2>3. CASE Fetch(p)
    BY <2>3 DEF Fetch, Goto
  <2>4. CASE FetchFails(p)
    BY <2>4 DEF FetchFails, Goto
  <2>5. CASE ReadNames(p)
    BY <2>5 DEF ReadNames, Goto
  <2>6. CASE EndRemoving(p)
    BY <2>6 DEF EndRemoving, Goto
  <2>7. CASE EndRegistering(p)
    BY <2>7 DEF EndRegistering, Goto
  <2>8. CASE EndRequest(p)
    BY <2>8 DEF EndRequest, Goto
  <2> QED
    BY <1>1, <2>1, <2>2, <2>3, <2>4, <2>5, <2>6, <2>7, <2>8
<1>2. ASSUME NEW p \in Procs, Register(p) \/ Start(p) \/ Finish(p) PROVE CurrentKnown'
  BY <1>2 DEF Register, Start, Finish, Goto
<1>3. ASSUME NEW p \in Procs, NEW n \in Names, Remove(p, n) \/ Consider(p, n)
      PROVE  CurrentKnown'
  BY <1>3 DEF Remove, Consider, Goto
<1>4. ASSUME World \/ Retry \/ UNCHANGED vars PROVE CurrentKnown'
  BY <1>4, WorldLeaves DEF Retry, Goto, vars
<1>5. QED
  BY <1>1, <1>2, <1>3, <1>4 DEF Next, Step

LEMMA TypeStep == TypeOK /\ CurrentKnown /\ [Next]_vars => TypeOK'
<1> SUFFICES ASSUME TypeOK, CurrentKnown, [Next]_vars PROVE TypeOK'
  OBVIOUS
<1> USE DEF TypeOK, Client0, Labels, InRefresh
<1> USE DEF backendVars, refresherVars, managerVars, locals
<1>1. ASSUME ChangeBackend PROVE TypeOK'
  <2>1. PICK n \in Names, k \in Kinds \union {Off} : backend' = [backend EXCEPT ![n] = k]
    BY <1>1 DEF ChangeBackend
  <2>2. backend' \in Configs
    BY <2>1 DEF Configs
  <2>3. changes' \in 0 .. MaxChanges
    BY <1>1 DEF ChangeBackend
  <2>4. QED
    BY <1>1, <2>2, <2>3 DEF ChangeBackend
<1>2. ASSUME IntervalElapses PROVE TypeOK'
  BY <1>2 DEF IntervalElapses
<1>3. ASSUME NEW n \in Names, ApiRegister(n) \/ ApiUnregister(n) PROVE TypeOK'
  <2>1. servers' \in [Names -> Client0] /\ disturbed' \in [Procs -> SUBSET Names]
    BY <1>3, SetServerEffect, ClientTypes DEF ApiRegister, ApiUnregister
  <2>2. apiCalls' \in 0 .. MaxApi
    BY <1>3 DEF ApiRegister, ApiUnregister
  <2>3. UNCHANGED <<backendVars, refresherVars, serving, pc, locals>>
    BY <1>3 DEF ApiRegister, ApiUnregister
  <2>4. QED
    BY <2>1, <2>2, <2>3
<1>4. ASSUME NEW p \in Procs, Request(p) PROVE TypeOK'
  BY <1>4 DEF Request, Goto
<1>5. ASSUME NEW p \in Procs, Lock(p) PROVE TypeOK'
  BY <1>5 DEF Lock, Goto
<1>6. ASSUME Retry PROVE TypeOK'
  BY <1>6 DEF Retry, Goto
<1>7. ASSUME NEW p \in Procs, Fetch(p) PROVE TypeOK'
  <2>1. configs' \in [Procs -> Configs] /\ pc' \in [Procs -> Labels] /\ succeeded' \in BOOLEAN
    BY <1>7 DEF Fetch, Goto
  <2>2. QED
    BY <1>7, <2>1 DEF Fetch
<1>8. ASSUME NEW p \in Procs, FetchFails(p) PROVE TypeOK'
  BY <1>8 DEF FetchFails, Goto
<1>9. ASSUME NEW p \in Procs, ReadNames(p) PROVE TypeOK'
  <2>1. todo' \in [Procs -> SUBSET Names] /\ disturbed' \in [Procs -> SUBSET Names]
    BY <1>9 DEF ReadNames, Registered
  <2>2. pc' \in [Procs -> Labels]
    BY <1>9 DEF ReadNames, Goto
  <2>3. QED
    BY <1>9, <2>1, <2>2 DEF ReadNames
<1>10. ASSUME NEW p \in Procs, NEW n \in Names, Remove(p, n) PROVE TypeOK'
  <2>1. servers' \in [Names -> Client0] /\ disturbed' \in [Procs -> SUBSET Names]
    BY <1>10, SetServerEffect, ClientTypes DEF Remove
  <2>2. todo' \in [Procs -> SUBSET Names]
    BY <1>10 DEF Remove, Treated
  <2>3. QED
    BY <1>10, <2>1, <2>2 DEF Remove
<1>11. ASSUME NEW p \in Procs, EndRemoving(p) PROVE TypeOK'
  <2>1. todo' \in [Procs -> SUBSET Names]
    BY <1>11 DEF EndRemoving, EnabledIn
  <2>2. pc' \in [Procs -> Labels]
    BY <1>11 DEF EndRemoving, Goto
  <2>3. QED
    BY <1>11, <2>1, <2>2 DEF EndRemoving
<1>12. ASSUME NEW p \in Procs, NEW n \in Names, Consider(p, n) PROVE TypeOK'
  <2>1. todo' \in [Procs -> SUBSET Names]
    BY <1>12 DEF Consider, Treated
  <2>2. pc' \in [Procs -> Labels] /\ current' \in [Procs -> Names \union {None}]
    BY <1>12 DEF Consider, Goto
  <2>3. QED
    BY <1>12, <2>1, <2>2 DEF Consider
<1>13. ASSUME NEW p \in Procs, Register(p) PROVE TypeOK'
  <2>0. current[p] \in Names
    BY <1>13 DEF Register, CurrentKnown
  <2>1. servers' \in [Names -> Client0] /\ disturbed' \in [Procs -> SUBSET Names]
    BY <1>13, <2>0, SetServerEffect, ClientTypes DEF Register
  <2>2. pc' \in [Procs -> Labels]
    BY <1>13 DEF Register, Goto
  <2>3. QED
    BY <1>13, <2>1, <2>2 DEF Register
<1>14. ASSUME NEW p \in Procs, Start(p) PROVE TypeOK'
  BY <1>14, StartEffect DEF Start, Goto
<1>15. ASSUME NEW p \in Procs, EndRegistering(p) PROVE TypeOK'
  BY <1>15 DEF EndRegistering, Goto
<1>16. ASSUME NEW p \in Procs, Finish(p) PROVE TypeOK'
  <2>1. NoConfigs \in Configs
    BY DEF NoConfigs, Configs
  <2>2. /\ configs' \in [Procs -> Configs] /\ current' \in [Procs -> Names \union {None}]
        /\ disturbed' \in [Procs -> SUBSET Names]
    BY <1>16, <2>1 DEF Finish
  <2>3. /\ pc' \in [Procs -> Labels] /\ mu' \in Callers \union {None}
        /\ recent' \in BOOLEAN /\ serving' \in BOOLEAN
    BY <1>16 DEF Finish, Goto
  <2>4. QED
    BY <1>16, <2>2, <2>3 DEF Finish
<1>17. ASSUME NEW p \in Procs, EndRequest(p) PROVE TypeOK'
  BY <1>17, EndRequestEffect DEF EndRequest, Goto
<1>18. ASSUME UNCHANGED vars PROVE TypeOK'
  BY <1>18 DEF vars
<1>19. ASSUME NEW n \in Names, HandlerStarts(n) PROVE TypeOK'
  BY <1>19, HandlerEffect
<1>20. QED
  BY <1>1, <1>2, <1>3, <1>4, <1>5, <1>6, <1>7, <1>8, <1>9, <1>10, <1>11, <1>12, <1>13, <1>14,
     <1>15, <1>16, <1>17, <1>18, <1>19 DEF Next, World, Handler, HandlerStarts, Step

-----------------------------------------------------------------------------
(* The mutex of the refresher.                                             *)

\* Whoever refreshes holds the mutex, and has its configurations from the
\* fetch until the end of the second loop.
HoldsMutex ==
    \A p \in Callers :
        /\ pc[p] \in InRefresh => mu = p /\ ~recent
        /\ pc[p] \in InRefresh \ {"fetching", "finishing"} => succeeded

LEMMA MutexStep == TypeOK /\ HoldsMutex /\ [Next]_vars => HoldsMutex'
<1> SUFFICES ASSUME TypeOK, HoldsMutex, [Next]_vars PROVE HoldsMutex'
  OBVIOUS
<1> USE DEF HoldsMutex, TypeOK, InRefresh, refresherVars, Procs
<1>1. ASSUME NEW p \in Procs, Request(p) \/ Lock(p) \/ EndRequest(p) PROVE HoldsMutex'
  BY <1>1 DEF Request, Lock, EndRequest, Goto
<1>2. ASSUME NEW p \in Procs, Fetch(p) \/ FetchFails(p) PROVE HoldsMutex'
  <2>1. CASE Fetch(p)
    BY <2>1 DEF Fetch, Goto
  <2>2. CASE FetchFails(p)
    BY <2>2 DEF FetchFails, Goto
  <2> QED
    BY <1>2, <2>1, <2>2
<1>3. ASSUME NEW p \in Procs,
             ReadNames(p) \/ EndRemoving(p) \/ EndRegistering(p) \/ Register(p) \/ Start(p)
      PROVE  HoldsMutex'
  BY <1>3 DEF ReadNames, EndRemoving, EndRegistering, Register, Start, Goto
<1>4. ASSUME NEW p \in Procs, NEW n \in Names, Remove(p, n) \/ Consider(p, n)
      PROVE  HoldsMutex'
  BY <1>4 DEF Remove, Consider, Goto
<1>5. ASSUME NEW p \in Procs, Finish(p) PROVE HoldsMutex'
  BY <1>5 DEF Finish, Goto
<1>6. ASSUME World \/ Retry \/ UNCHANGED vars PROVE HoldsMutex'
  BY <1>6, WorldLeaves DEF Retry, Goto, vars
<1>7. QED
  BY <1>1, <1>2, <1>3, <1>4, <1>5, <1>6 DEF Next, Step

-----------------------------------------------------------------------------
(* What a bootstrap has achieved so far, for the names nobody else touched. *)

Mine(p) == Names \ disturbed[p]
Pending(p) == IF pc[p] = "adding" THEN todo[p] \union {current[p]} ELSE todo[p]
InSecondLoop(p) == pc[p] \in {"registering", "adding", "starting"}
Fetched(p) == p \in Callers => succeeded

NothingElse(p) ==
    /\ pc[p] = "removing" =>
         Registered \intersect Mine(p) \subseteq EnabledIn(configs[p]) \union todo[p]
    /\ InSecondLoop(p) \/ (pc[p] = "finishing" /\ Fetched(p)) =>
         Registered \intersect Mine(p) \subseteq EnabledIn(configs[p])

NothingMissing(p) ==
    /\ InSecondLoop(p) =>
         /\ ValidIn(configs[p]) \intersect Mine(p) \subseteq Registered \union Pending(p)
         /\ todo[p] \subseteq EnabledIn(configs[p])
    /\ pc[p] \in {"adding", "starting"} => current[p] \in EnabledIn(configs[p])
    /\ pc[p] = "finishing" /\ Fetched(p) =>
         ValidIn(configs[p]) \intersect Mine(p) \subseteq Registered

Applied == \A p \in Procs : NothingElse(p) /\ NothingMissing(p)

\* A step of somebody else that changes the registration of at most one name,
\* which it marks as disturbed.
LEMMA OtherStep ==
    ASSUME NEW p \in Procs, NothingElse(p), NothingMissing(p),
           UNCHANGED <<pc[p], configs[p], todo[p], current[p]>>,
           pc[p] = "finishing" /\ Fetched(p)' => Fetched(p),
           NEW D, disturbed'[p] = disturbed[p] \union D,
           \A n \in Names \ D : n \in Registered' <=> n \in Registered
    PROVE  NothingElse(p)' /\ NothingMissing(p)'
<1>1. /\ Mine(p)' = Mine(p) \ D
      /\ \A n \in Mine(p)' : n \in Names \ D /\ n \in Mine(p)
  BY DEF Mine
<1>2. Pending(p)' = Pending(p) /\ InSecondLoop(p)' = InSecondLoop(p)
  BY DEF Pending, InSecondLoop
<1>3. /\ EnabledIn(configs[p])' = EnabledIn(configs[p])
      /\ ValidIn(configs[p])' = ValidIn(configs[p])
  BY DEF EnabledIn, ValidIn
<1>4. /\ EnabledIn(configs[p]) \subseteq Names /\ ValidIn(configs[p]) \subseteq Names
      /\ Registered' \subseteq Names
  BY DEF EnabledIn, ValidIn, Registered
<1>5. NothingElse(p)'
  BY <1>1, <1>2, <1>3, <1>4 DEF NothingElse
<1>6. NothingMissing(p)'
  BY <1>1, <1>2, <1>3, <1>4 DEF NothingMissing
<1>7. QED
  BY <1>5, <1>6

ProcStep(q) == Request(q) \/ Lock(q) \/ Fetch(q) \/ Start(q) \/ Step(q)

\* What a process does changes no other process's place.
LEMMA OthersStay ==
    ASSUME TypeOK, NEW q \in Procs, ProcStep(q), NEW p \in Procs \ {q}
    PROVE  UNCHANGED <<pc[p], configs[p], todo[p], current[p]>>
<1> USE DEF TypeOK
<1>1. CASE Request(q) \/ Lock(q) \/ Fetch(q) \/ Start(q) \/ FetchFails(q)
  BY <1>1 DEF Request, Lock, Fetch, Start, FetchFails, Goto, locals
<1>2. CASE ReadNames(q) \/ EndRemoving(q) \/ EndRegistering(q)
  BY <1>2 DEF ReadNames, EndRemoving, EndRegistering, Goto, locals
<1>3. CASE Register(q) \/ Finish(q) \/ EndRequest(q)
  BY <1>3 DEF Register, Finish, EndRequest, Goto, locals
<1>4. ASSUME NEW n \in Names, Remove(q, n) \/ Consider(q, n)
      PROVE  UNCHANGED <<pc[p], configs[p], todo[p], current[p]>>
  BY <1>4 DEF Remove, Consider, Goto, Treated
<1> QED
  BY <1>1, <1>2, <1>3, <1>4 DEF ProcStep, Step

\* Only a bootstrap that has read RegisteredNames has achieved anything.
LEMMA NothingToKeep ==
    ASSUME NEW p \in Procs, pc'[p] \notin Reconciling
    PROVE  NothingElse(p)' /\ NothingMissing(p)'
  BY DEF Reconciling, NothingElse, NothingMissing, InSecondLoop

\* What a process does leaves the achievements of the others standing.
LEMMA OthersKeep ==
    ASSUME TypeOK, CurrentKnown, HoldsMutex, Applied,
           NEW q \in Procs, ProcStep(q), NEW p \in Procs \ {q}
    PROVE  NothingElse(p)' /\ NothingMissing(p)'
<1> USE DEF TypeOK
<1>1. UNCHANGED <<pc[p], configs[p], todo[p], current[p]>>
  BY OthersStay
<1> SUFFICES ASSUME pc[p] \in Reconciling PROVE NothingElse(p)' /\ NothingMissing(p)'
  BY <1>1, NothingToKeep
<1>2. pc[p] = "finishing" /\ Fetched(p)' => Fetched(p)
  <2>1. CASE UNCHANGED succeeded
    BY <2>1 DEF Fetched
  <2>2. CASE Fetch(q) \/ FetchFails(q)
    <3>1. CASE q = Boot
      BY <2>2, <3>1 DEF Fetch, FetchFails, Fetched
    <3>2. CASE q # Boot
      BY <2>2, <3>2 DEF Fetch, FetchFails, Fetched, HoldsMutex, InRefresh, Procs
    <3>3. QED
      BY <3>1, <3>2
  <2>3. QED
    BY <2>1, <2>2 DEF ProcStep, Request, Lock, Start, Step, ReadNames, EndRemoving,
       EndRegistering, Register, Finish, EndRequest, Remove, Consider, refresherVars
<1>3. \E D : /\ disturbed'[p] = disturbed[p] \union D
             /\ \A n \in Names \ D : n \in Registered' <=> n \in Registered
  <2>1. ASSUME UNCHANGED managerVars
        PROVE  /\ disturbed'[p] = disturbed[p] \union {}
               /\ \A n \in Names \ {} : n \in Registered' <=> n \in Registered
    BY <2>1 DEF managerVars, Registered
  <2>2. ASSUME ReadNames(q) \/ Finish(q)
        PROVE  /\ disturbed'[p] = disturbed[p] \union {}
               /\ \A n \in Names \ {} : n \in Registered' <=> n \in Registered
    BY <2>2 DEF ReadNames, Finish, Registered
  <2>3. ASSUME Start(q) \/ EndRequest(q)
        PROVE  /\ disturbed'[p] = disturbed[p] \union {}
               /\ \A n \in Names \ {} : n \in Registered' <=> n \in Registered
    BY <2>3, StartEffect, EndRequestEffect DEF Start, EndRequest
  <2>4. ASSUME NEW n \in Names, NEW client \in Client0, SetServer(q, n, client)
        PROVE  /\ disturbed'[p] = disturbed[p] \union {n}
               /\ \A m \in Names \ {n} : m \in Registered' <=> m \in Registered
    <3>1. /\ Registered' = IF client = Absent THEN Registered \ {n} ELSE Registered \union {n}
          /\ disturbed'[p] = disturbed[p] \union {n}
      BY <2>4, SetServerEffect
    <3> QED
      BY <3>1
  <2>5. CASE \E n \in Names : Remove(q, n)
    BY <2>1, <2>4, <2>5, ClientTypes DEF Remove
  <2>6. CASE Register(q)
    <3>1. current[q] \in Names
      BY <2>6 DEF Register, CurrentKnown
    <3>2. QED
      BY <2>1, <2>4, <2>6, <3>1, ClientTypes DEF Register
  <2>7. QED
    BY <2>1, <2>2, <2>3, <2>5, <2>6 DEF ProcStep, Request, Lock, Fetch, Step, EndRemoving,
       EndRegistering, FetchFails, Consider
<1>4. QED
  BY <1>1, <1>2, <1>3, OtherStep DEF Applied

\* What a process does for itself.
LEMMA OwnStep ==
    ASSUME TypeOK, CurrentKnown, HoldsMutex, Applied, NEW p \in Procs, ProcStep(p)
    PROVE  NothingElse(p)' /\ NothingMissing(p)'
<1> USE DEF TypeOK, Mine, Pending, InSecondLoop
<1>1. NothingElse(p) /\ NothingMissing(p)
  BY DEF Applied
<1>2. CASE Request(p) \/ Lock(p) \/ EndRequest(p)
  <2>1. pc'[p] \in {"locking", "listing", "fetching", "idle"}
    BY <1>2 DEF Request, Lock, EndRequest, Goto
  <2>2. QED
    BY <2>1 DEF NothingElse, NothingMissing
<1>3. CASE Fetch(p) \/ FetchFails(p)
  <2>1. \/ pc'[p] \in {"reading", "waiting"}
        \/ pc'[p] = "finishing" /\ ~Fetched(p)'
    BY <1>3 DEF Fetch, FetchFails, Goto, Fetched, Procs
  <2>2. QED
    BY <2>1 DEF NothingElse, NothingMissing
<1>4. CASE Finish(p)
  <2>1. pc'[p] \in {"done", "listing"}
    BY <1>4 DEF Finish, Goto
  <2>2. QED
    BY <2>1 DEF NothingElse, NothingMissing
<1>5. CASE ReadNames(p)
  <2>1. /\ pc'[p] = "removing" /\ UNCHANGED <<servers, configs>>
        /\ todo'[p] = Registered \ EnabledIn(configs[p])
    BY <1>5 DEF ReadNames, Goto
  <2>2. Registered' = Registered /\ EnabledIn(configs[p])' = EnabledIn(configs[p])
    BY <2>1 DEF Registered, EnabledIn
  <2>3. QED
    BY <2>1, <2>2 DEF NothingElse, NothingMissing
<1>6. CASE \E n \in Names : Remove(p, n)
  <2>1. PICK n \in Names : Remove(p, n)
    BY <1>6
  <2>2. /\ pc[p] = "removing" /\ pc'[p] = "removing" /\ UNCHANGED configs
        /\ todo'[p] = todo[p] \ {n}
    BY <2>1 DEF Remove, Treated
  <2>3. Registered' = Registered \ {n} /\ disturbed'[p] = disturbed[p]
    <3>1. CASE n \in Registered
      BY <2>1, <3>1, SetServerEffect, ClientTypes DEF Remove
    <3>2. CASE n \notin Registered
      BY <2>1, <3>2 DEF Remove, managerVars, Registered
    <3>3. QED
      BY <3>1, <3>2
  <2>4. EnabledIn(configs[p])' = EnabledIn(configs[p])
    BY <2>2 DEF EnabledIn
  <2>5. QED
    BY <1>1, <2>2, <2>3, <2>4 DEF NothingElse, NothingMissing
<1>7. CASE EndRemoving(p)
  <2>1. /\ pc[p] = "removing" /\ pc'[p] = "registering" /\ UNCHANGED <<configs, servers, disturbed>>
        /\ todo[p] = {} /\ todo'[p] = EnabledIn(configs[p])
    BY <1>7 DEF EndRemoving, Goto, managerVars, EnabledIn
  <2>2. Registered' = Registered /\ EnabledIn(configs[p])' = EnabledIn(configs[p])
        /\ ValidIn(configs[p])' = ValidIn(configs[p])
        /\ ValidIn(configs[p]) \subseteq EnabledIn(configs[p])
    BY <2>1 DEF Registered, EnabledIn, ValidIn
  <2>3. QED
    BY <1>1, <2>1, <2>2 DEF NothingElse, NothingMissing
<1>8. CASE \E n \in Names : Consider(p, n)
  <2>1. PICK n \in Names : Consider(p, n)
    BY <1>8
  <2>2. /\ pc[p] = "registering" /\ n \in todo[p] /\ UNCHANGED <<configs, servers, disturbed>>
        /\ todo'[p] = todo[p] \ {n}
        /\ IF n \in Registered THEN pc'[p] = "registering"
           ELSE pc'[p] = "adding" /\ current'[p] = n
    BY <2>1 DEF Consider, Treated, Goto, managerVars
  <2>3. Registered' = Registered /\ EnabledIn(configs[p])' = EnabledIn(configs[p])
        /\ ValidIn(configs[p])' = ValidIn(configs[p])
    BY <2>2 DEF Registered, EnabledIn, ValidIn
  <2>4. NothingElse(p)'
    BY <1>1, <2>2, <2>3 DEF NothingElse
  <2>5. NothingMissing(p)'
    BY <1>1, <2>2, <2>3 DEF NothingMissing
  <2>6. QED
    BY <2>4, <2>5
<1>9. CASE Register(p)
  <2> DEFINE n == current[p]
  <2>1. /\ n \in Names /\ pc[p] = "adding" /\ pc'[p] \in {"registering", "starting"}
        /\ UNCHANGED <<configs, todo, current>>
    BY <1>9 DEF Register, CurrentKnown, Goto, locals
  <2>2. /\ disturbed'[p] = disturbed[p]
        /\ Registered' \subseteq Registered \union {n} /\ Registered \subseteq Registered'
        /\ configs[p][n] # "invalid" => n \in Registered'
    <3>1. CASE n \notin Registered /\ configs[p][n] # "invalid"
      <4>1. SetServer(p, n, Client(p, configs[p][n]))
        BY <1>9, <3>1 DEF Register
      <4>2. QED
        BY <2>1, <3>1, <4>1, SetServerEffect, ClientTypes
    <3>2. CASE ~(n \notin Registered /\ configs[p][n] # "invalid")
      <4>1. UNCHANGED managerVars
        BY <1>9, <3>2 DEF Register
      <4>2. Registered' = Registered /\ disturbed' = disturbed
        BY <4>1 DEF managerVars, Registered
      <4>3. QED
        BY <3>2, <4>2
    <3>3. QED
      BY <3>1, <3>2
  <2>3. /\ EnabledIn(configs[p])' = EnabledIn(configs[p])
        /\ ValidIn(configs[p])' = ValidIn(configs[p])
        /\ n \in ValidIn(configs[p]) => configs[p][n] # "invalid"
    BY <2>1 DEF EnabledIn, ValidIn
  <2>4. NothingElse(p)'
    BY <1>1, <2>1, <2>2, <2>3 DEF NothingElse, NothingMissing
  <2>5. NothingMissing(p)'
    BY <1>1, <2>1, <2>2, <2>3 DEF NothingMissing
  <2>6. QED
    BY <2>4, <2>5
<1>10. CASE Start(p)
  <2>1. /\ pc[p] = "starting" /\ pc'[p] = "registering"
        /\ UNCHANGED <<configs, todo, disturbed>> /\ Registered' = Registered
    BY <1>10, StartEffect DEF Start, Goto, locals
  <2>2. /\ EnabledIn(configs[p])' = EnabledIn(configs[p])
        /\ ValidIn(configs[p])' = ValidIn(configs[p])
    BY <2>1 DEF EnabledIn, ValidIn
  <2>3. QED
    BY <1>1, <2>1, <2>2 DEF NothingElse, NothingMissing
<1>11. CASE EndRegistering(p)
  <2>1. /\ pc[p] = "registering" /\ pc'[p] = "finishing" /\ todo[p] = {}
        /\ UNCHANGED <<configs, todo, disturbed, servers>>
    BY <1>11 DEF EndRegistering, Goto, locals, managerVars
  <2>2. /\ EnabledIn(configs[p])' = EnabledIn(configs[p])
        /\ ValidIn(configs[p])' = ValidIn(configs[p]) /\ Registered' = Registered
    BY <2>1 DEF EnabledIn, ValidIn, Registered
  <2>3. QED
    BY <1>1, <2>1, <2>2 DEF NothingElse, NothingMissing
<1>12. QED
  BY <1>2, <1>3, <1>4, <1>5, <1>6, <1>7, <1>8, <1>9, <1>10, <1>11 DEF ProcStep, Step

\* The world, too, marks what it changes.
LEMMA WorldStep ==
    ASSUME TypeOK, Applied, World \/ Retry \/ UNCHANGED vars, NEW p \in Procs
    PROVE  NothingElse(p)' /\ NothingMissing(p)'
<1> USE DEF TypeOK, backendVars, refresherVars, managerVars, locals
<1>1. NothingElse(p) /\ NothingMissing(p)
  BY DEF Applied
<1>2. CASE Retry /\ p = Boot
  <2>1. pc'[p] = "fetching"
    BY <1>2 DEF Retry, Goto
  <2>2. QED
    BY <2>1 DEF NothingElse, NothingMissing, InSecondLoop
<1>3. CASE ~(Retry /\ p = Boot)
  <2>1. UNCHANGED <<pc[p], configs[p], todo[p], current[p]>>
    BY <1>3, WorldLeaves DEF Retry, Goto, vars
  <2>2. UNCHANGED succeeded
    BY WorldLeaves DEF Retry, vars
  <2> SUFFICES ASSUME pc[p] \in Reconciling PROVE NothingElse(p)' /\ NothingMissing(p)'
    BY <2>1, NothingToKeep
  <2>3. \E D : /\ disturbed'[p] = disturbed[p] \union D
               /\ \A n \in Names \ D : n \in Registered' <=> n \in Registered
    <3>1. ASSUME UNCHANGED managerVars
          PROVE  /\ disturbed'[p] = disturbed[p] \union {}
                 /\ \A n \in Names \ {} : n \in Registered' <=> n \in Registered
      BY <3>1 DEF Registered
    <3>2. ASSUME NEW n \in Names, NEW client \in Client0, SetServer(Api, n, client)
          PROVE  /\ disturbed'[p] = disturbed[p] \union {n}
                 /\ \A m \in Names \ {n} : m \in Registered' <=> m \in Registered
      BY <3>2, SetServerEffect DEF Procs
    <3>3. ASSUME NEW n \in Names, HandlerStarts(n)
          PROVE  /\ disturbed'[p] = disturbed[p] \union {}
                 /\ \A m \in Names \ {} : m \in Registered' <=> m \in Registered
      BY <3>3, HandlerEffect
    <3>4. ASSUME NEW n \in Names, ApiRegister(n) \/ ApiUnregister(n)
          PROVE  /\ disturbed'[p] = disturbed[p] \union {n}
                 /\ \A m \in Names \ {n} : m \in Registered' <=> m \in Registered
      BY <3>2, <3>4, ClientTypes DEF ApiRegister, ApiUnregister
    <3>5. CASE Retry \/ ChangeBackend \/ IntervalElapses \/ UNCHANGED vars
      BY <3>1, <3>5 DEF Retry, ChangeBackend, IntervalElapses, vars
    <3> QED
      BY <3>3, <3>4, <3>5 DEF World, Handler, HandlerStarts
  <2>4. QED
    BY <1>1, <2>1, <2>2, <2>3, OtherStep DEF Fetched
<1>4. QED
  BY <1>2, <1>3

-----------------------------------------------------------------------------
(* The theorems.                                                           *)

IInv == TypeOK /\ CurrentKnown /\ HoldsMutex /\ Applied

LEMMA Invariance == Spec => []IInv
<1>1. Init => IInv
  <2> SUFFICES ASSUME Init PROVE IInv
    OBVIOUS
  <2>1. \A p \in Procs : pc[p] \in {"fetching", "idle"} /\ (p \in Callers => pc[p] = "idle")
    BY DEF Init, Procs
  <2>2. CurrentKnown /\ HoldsMutex
    BY <2>1 DEF CurrentKnown, HoldsMutex, InRefresh, Procs
  <2>3. Applied
    BY <2>1 DEF Applied, NothingElse, NothingMissing, InSecondLoop
  <2>4. QED
    BY <2>2, <2>3, TypeInit DEF IInv
<1>2. IInv /\ [Next]_vars => IInv'
  <2> SUFFICES ASSUME IInv, [Next]_vars PROVE IInv'
    OBVIOUS
  <2>1. TypeOK' /\ CurrentKnown' /\ HoldsMutex'
    BY TypeStep, CurrentStep, MutexStep DEF IInv
  <2>2. ASSUME NEW q \in Procs, ProcStep(q) PROVE Applied'
    BY <2>2, OthersKeep, OwnStep DEF IInv, Applied
  <2>3. ASSUME World \/ Retry \/ UNCHANGED vars PROVE Applied'
    BY <2>3, WorldStep DEF IInv, Applied
  <2>4. Applied'
    BY <2>2, <2>3 DEF Next, ProcStep
  <2>5. QED
    BY <2>1, <2>4 DEF IInv
<1>3. QED
  BY <1>1, <1>2, PTL DEF Spec

\* Every variable of the reconciler keeps its type.
THEOREM TypeCorrect == Spec => []TypeOK
<1>1. IInv => TypeOK
  BY DEF IInv
<1>2. QED
  BY <1>1, Invariance, PTL

\* Whatever the API, the backend and other bootstraps do meanwhile, a bootstrap
\* leaves registered exactly what its list of configurations enables, among the
\* names that none of them registered or unregistered.
THEOREM BootstrapApplies == Spec => []SnapshotApplied
<1>1. IInv => SnapshotApplied
  BY DEF IInv, Applied, NothingElse, NothingMissing, SnapshotApplied, Fetched, Mine
<1>2. QED
  BY <1>1, Invariance, PTL

\* No two refreshes are less than minInterval apart, for any number of requests.
THEOREM RefreshesSpaced == Spec => []RefreshOnlyWhenStale
<1>1. IInv => RefreshOnlyWhenStale
  BY DEF IInv, HoldsMutex, RefreshOnlyWhenStale
<1>2. QED
  BY <1>1, Invariance, PTL

\* A registered server keeps its client until it is unregistered.
THEOREM ClientsKept == Spec => ClientNeverReplaced
<1> DEFINE Kept == \A n \in Names : n \in Registered /\ n \in Registered'
                     => servers'[n].maker = servers[n].maker
<1>1. IInv /\ [Next]_vars => Kept
  <2> SUFFICES ASSUME IInv, [Next]_vars PROVE Kept
    OBVIOUS
  <2> USE DEF TypeOK, Client0, managerVars
  <2>1. TypeOK
    BY DEF IInv
  <2>2. ASSUME UNCHANGED servers PROVE Kept
    BY <2>2
  <2>3. ASSUME NEW p, NEW m \in Names, SetServer(p, m, Absent) PROVE Kept
    BY <2>1, <2>3 DEF SetServer, Registered
  <2>4. ASSUME NEW p, NEW m \in Names \ Registered, NEW client, SetServer(p, m, client)
        PROVE  Kept
    BY <2>1, <2>4 DEF SetServer
  <2>5. ASSUME NEW p \in Procs, Register(p) PROVE Kept
    <3>1. current[p] \in Names
      BY <2>5 DEF Register, IInv, CurrentKnown
    <3>2. QED
      BY <2>2, <2>4, <2>5, <3>1 DEF Register
  <2>6. ASSUME NEW p \in Procs, Start(p) \/ EndRequest(p) PROVE Kept
    <3>1. CASE Start(p)
      BY <2>1, <2>2, <3>1, StartAt DEF Start, StartUnder, Registered
    <3>2. CASE EndRequest(p)
      BY <2>1, <3>2, EndRequestAt
    <3> QED
      BY <2>6, <3>1, <3>2
  <2>7. ASSUME NEW p \in Procs, NEW m \in Names, Remove(p, m) PROVE Kept
    BY <2>2, <2>3, <2>7 DEF Remove
  <2>8. ASSUME NEW m \in Names, ApiRegister(m) \/ ApiUnregister(m) PROVE Kept
    BY <2>3, <2>4, <2>8 DEF ApiRegister, ApiUnregister
  <2>9. ASSUME NEW m \in Names, HandlerStarts(m) PROVE Kept
    BY <2>1, <2>9, StartAt, StopAt DEF HandlerStarts, ApiStart, LazyStart
  <2>10. QED
    BY <2>2, <2>5, <2>6, <2>7, <2>8, <2>9 DEF Next, World, Handler, HandlerStarts, Step,
       ChangeBackend, IntervalElapses, Retry, Request, Lock, Fetch, FetchFails, ReadNames, EndRemoving, Consider, EndRegistering, Finish,
       vars
<1>2. QED
  <2>1. Spec => [][Kept]_vars
    BY <1>1, Invariance, PTL DEF Spec
  <2>2. QED
    BY <2>1 DEF ClientNeverReplaced
-----------------------------------------------------------------------------
(* Bootstraps are finite, and the refresher's mutex comes back.            *)

\* The mutex is held by a refresh under way, and by nothing else.
HeldByRefresh == \A p \in Callers : mu = p <=> pc[p] \in InRefresh

LEMMA HeldByRefreshStep == TypeOK /\ HeldByRefresh /\ [Next]_vars => HeldByRefresh'
<1> SUFFICES ASSUME TypeOK, HeldByRefresh, [Next]_vars PROVE HeldByRefresh'
  OBVIOUS
<1> USE DEF HeldByRefresh, TypeOK, InRefresh, refresherVars, Procs
<1>1. ASSUME NEW p \in Procs, Request(p) \/ Lock(p) \/ EndRequest(p) PROVE HeldByRefresh'
  <2>1. CASE Request(p) \/ Lock(p)
    BY <2>1 DEF Request, Lock, Goto
  <2>2. CASE EndRequest(p)
    BY <2>2 DEF EndRequest, Goto
  <2> QED
    BY <1>1, <2>1, <2>2
<1>2. ASSUME NEW p \in Procs, Fetch(p) PROVE HeldByRefresh'
  BY <1>2 DEF Fetch, Goto
<1>3. ASSUME NEW p \in Procs, FetchFails(p) PROVE HeldByRefresh'
  BY <1>3 DEF FetchFails, Goto
<1>4. ASSUME NEW p \in Procs, ReadNames(p) \/ EndRemoving(p) \/ EndRegistering(p) \/ Start(p)
      PROVE  HeldByRefresh'
  BY <1>4 DEF ReadNames, EndRemoving, EndRegistering, Start, Goto
<1>5. ASSUME NEW p \in Procs, Register(p) PROVE HeldByRefresh'
  BY <1>5 DEF Register, Goto
<1>6. ASSUME NEW p \in Procs, NEW n \in Names, Remove(p, n) \/ Consider(p, n) PROVE HeldByRefresh'
  BY <1>6 DEF Remove, Consider, Goto
<1>7. ASSUME NEW p \in Procs, Finish(p) PROVE HeldByRefresh'
  BY <1>7 DEF Finish, Goto
<1>8. ASSUME World \/ Retry \/ UNCHANGED vars PROVE HeldByRefresh'
  BY <1>8, WorldLeaves DEF Retry, Goto, vars
<1>9. QED
  BY <1>1, <1>2, <1>3, <1>4, <1>5, <1>6, <1>7, <1>8 DEF Next, Step

\* How many steps a bootstrap may still take at a label with n names to treat: one
\* for each name to remove, three for each to register and start.
Size == Cardinality(Names)
Left(label, n) ==
    CASE label = "fetching" -> 4 * Size + 5
      [] label = "reading" -> 4 * Size + 4
      [] label = "removing" -> 3 * Size + 3 + n
      [] label = "registering" -> 3 * n + 2
      [] label = "starting" -> 3 * n + 3
      [] label = "adding" -> 3 * n + 4
      [] label = "finishing" -> 1
      [] OTHER -> 0
Measure(p) == Left(pc[p], Cardinality(todo[p]))

\* The steps of a bootstrap bring it closer to its end, and those of others, of
\* the backend and of the API handlers do not touch it.
BootstrapShrinks ==
    \A p \in Procs :
        pc[p] \in InRefresh => UNCHANGED <<pc[p], todo[p]>> \/ Measure(p)' < Measure(p)

LEMMA NamesFinite ==
    ASSUME IsFiniteSet(Names), NEW S \in SUBSET Names
    PROVE  /\ IsFiniteSet(S) /\ Cardinality(S) \in 0 .. Size /\ Size \in Nat
           /\ \A n \in S : Cardinality(S \ {n}) = Cardinality(S) - 1
           /\ S = {} => Cardinality(S) = 0
<1>1. IsFiniteSet(S) /\ Cardinality(S) <= Size
  BY FS_Subset DEF Size
<1>2. Cardinality(S) \in Nat /\ Size \in Nat
  BY <1>1, FS_CardinalityType DEF Size
<1>3. QED
  BY <1>1, <1>2, FS_RemoveElement, FS_EmptySet

LEMMA ShrinkStep ==
    ASSUME IsFiniteSet(Names), TypeOK, NEW p \in Procs, Fetch(p) \/ Start(p) \/ Step(p),
           pc[p] \in InRefresh
    PROVE  UNCHANGED <<pc[p], todo[p]>> \/ Measure(p)' < Measure(p)
<1> DEFINE n == Cardinality(todo[p])
<1>1. /\ pc \in [Procs -> Labels] /\ todo \in [Procs -> SUBSET Names]
      /\ configs \in [Procs -> Configs]
  BY DEF TypeOK
<1>2. n \in 0 .. Size /\ Size \in Nat
  BY <1>1, NamesFinite
<1>3. Measure(p) = Left(pc[p], n) /\ Measure(p)' = Left(pc'[p], Cardinality(todo'[p]))
  BY DEF Measure, Left
<1> HIDE DEF n
<1> USE DEF Goto, Left
<1>4. CASE Fetch(p)
  BY <1>1, <1>2, <1>3, <1>4 DEF Fetch
<1>5. CASE FetchFails(p)
  BY <1>1, <1>2, <1>3, <1>5 DEF FetchFails
<1>6. CASE ReadNames(p)
  <2>1. pc[p] = "reading" /\ pc'[p] = "removing" /\ todo'[p] \in SUBSET Names
    BY <1>1, <1>6 DEF ReadNames, Registered
  <2>2. Cardinality(todo'[p]) \in 0 .. Size
    BY <2>1, NamesFinite
  <2>3. QED
    BY <1>2, <1>3, <2>1, <2>2
<1>7. CASE EndRemoving(p)
  <2>1. pc[p] = "removing" /\ pc'[p] = "registering" /\ todo'[p] \in SUBSET Names
    BY <1>1, <1>7 DEF EndRemoving, EnabledIn
  <2>2. Cardinality(todo'[p]) \in 0 .. Size
    BY <2>1, NamesFinite
  <2>3. QED
    BY <1>2, <1>3, <2>1, <2>2
<1>8. CASE EndRegistering(p)
  <2>1. pc[p] = "registering" /\ pc'[p] = "finishing"
    BY <1>1, <1>8 DEF EndRegistering
  <2>2. QED
    BY <1>2, <1>3, <2>1
<1>9. CASE Register(p) \/ Start(p)
  <2>1. /\ todo'[p] = todo[p]
        /\ \/ pc[p] = "adding" /\ pc'[p] \in {"starting", "registering"}
           \/ pc[p] = "starting" /\ pc'[p] = "registering"
    BY <1>1, <1>9 DEF Register, Start, locals
  <2>2. Cardinality(todo'[p]) = n
    BY <2>1 DEF n
  <2>3. QED
    BY <1>2, <1>3, <2>1, <2>2
<1>10. ASSUME NEW m \in Names, Remove(p, m) \/ Consider(p, m) PROVE Measure(p)' < Measure(p)
  <2>1. /\ m \in todo[p] /\ todo'[p] = todo[p] \ {m}
        /\ \/ pc[p] = "removing" /\ pc'[p] = "removing"
           \/ pc[p] = "registering" /\ pc'[p] \in {"registering", "adding"}
    BY <1>1, <1>10 DEF Remove, Consider, Treated
  <2>2. Cardinality(todo'[p]) = n - 1
    BY <1>1, <2>1, NamesFinite DEF n
  <2>3. QED
    BY <1>2, <1>3, <2>1, <2>2
<1>11. CASE Finish(p)
  <2>1. pc[p] = "finishing" /\ pc'[p] \in {"done", "listing"}
    BY <1>1, <1>11 DEF Finish
  <2>2. QED
    BY <1>3, <2>1
<1>12. ~EndRequest(p)
  BY DEF EndRequest, InRefresh
<1>13. QED
  BY <1>4, <1>5, <1>6, <1>7, <1>8, <1>9, <1>10, <1>11, <1>12 DEF Step

\* With finitely many servers, every refresh gives the mutex back after at most
\* 4 * Cardinality(Names) + 5 steps, none of which waits for another process (but
\* Start for its handshake), whatever the others do meanwhile.
THEOREM MutexComesBack ==
    ASSUME IsFiniteSet(Names)
    PROVE  Spec => []HeldByRefresh /\ [][BootstrapShrinks]_vars
<1>1. Init => HeldByRefresh
  BY DEF Init, HeldByRefresh, InRefresh, Procs
<1>2. IInv /\ [Next]_vars => [BootstrapShrinks]_vars
  <2> SUFFICES ASSUME IInv, TypeOK, NEW p \in Procs, pc[p] \in InRefresh, Next
               PROVE  UNCHANGED <<pc[p], todo[p]>> \/ Measure(p)' < Measure(p)
    BY DEF BootstrapShrinks, IInv
  <2>1. CASE ProcStep(p)
    <3>1. ~Request(p) /\ ~Lock(p)
      BY DEF Request, Lock, InRefresh
    <3>2. QED
      BY <2>1, <3>1, ShrinkStep DEF ProcStep
  <2>2. ASSUME NEW q \in Procs \ {p}, ProcStep(q) PROVE UNCHANGED <<pc[p], todo[p]>>
    BY <2>2, OthersStay
  <2>3. CASE World \/ Retry
    BY <2>3, WorldLeaves DEF Retry, Goto, locals, TypeOK, InRefresh
  <2>4. QED
    BY <2>1, <2>2, <2>3 DEF Next, ProcStep
<1>3. TypeOK /\ HeldByRefresh /\ [Next]_vars => HeldByRefresh'
  BY HeldByRefreshStep
<1>4. IInv => TypeOK
  BY DEF IInv
<1>5. QED
  BY <1>1, <1>2, <1>3, <1>4, Invariance, PTL DEF Spec
-----------------------------------------------------------------------------
(* What becomes of the contexts that requests lend to clients.             *)

Lasts(q) == pc[q] \in InRefresh \union {"listing"}
ContextsOf(n) == {servers[n].token, servers[n].process}

\* A client depends on the context of a request only while that request lasts.
ContextsEnd == \A n \in Names : \A q \in Callers \intersect ContextsOf(n) : Lasts(q)

\* The token of a client whose context is cancelled is not renewed any more.
TokenCutForGood ==
    \A n \in Names :
        servers[n].token = "cancelled" => servers'[n].token = "cancelled" \/ n \notin Registered'

\* What a step lends or takes away concerns one process, and no name gets the
\* context of another.
Lends(q) ==
    /\ \A p \in Procs \ {q} : pc'[p] = pc[p]
    /\ \A n \in Names : Callers \intersect ContextsOf(n)' \subseteq ContextsOf(n) \union {q}

LEMMA LendStep ==
    ASSUME ContextsEnd, NEW q \in Procs, Lends(q),
           Lasts(q)' \/ \A n \in Names : q \notin Callers \intersect ContextsOf(n)'
    PROVE  ContextsEnd'
<1> SUFFICES ASSUME NEW n \in Names, NEW p \in Callers, p \in ContextsOf(n)' PROVE Lasts(p)'
  BY DEF ContextsEnd
<1>1. CASE p = q
  BY <1>1
<1>2. CASE p # q
  <2>1. p \in ContextsOf(n) /\ pc'[p] = pc[p]
    BY <1>2 DEF Lends, Procs
  <2> QED
    BY <2>1 DEF ContextsEnd, Lasts
<1> QED
  BY <1>1, <1>2

\* The steps that leave the clients alone.
LEMMA QuietStep ==
    ASSUME TypeOK, ContextsEnd, NEW q \in Procs,
           Request(q) \/ Lock(q) \/ Fetch(q) \/ FetchFails(q) \/ ReadNames(q)
             \/ EndRemoving(q) \/ EndRegistering(q) \/ Finish(q)
    PROVE  ContextsEnd'
<1> USE DEF TypeOK, managerVars, Goto
<1>1. servers' = servers /\ \A p \in Procs \ {q} : pc'[p] = pc[p]
  <2>1. CASE Request(q) \/ Lock(q)
    BY <2>1 DEF Request, Lock
  <2>2. CASE Fetch(q) \/ FetchFails(q) \/ ReadNames(q)
    BY <2>2 DEF Fetch, FetchFails, ReadNames
  <2>3. CASE EndRemoving(q) \/ EndRegistering(q) \/ Finish(q)
    BY <2>3 DEF EndRemoving, EndRegistering, Finish
  <2> QED
    BY <2>1, <2>2, <2>3
<1>2. Lends(q) /\ \A n \in Names : ContextsOf(n)' = ContextsOf(n)
  BY <1>1 DEF Lends, ContextsOf
<1>3. CASE Request(q) \/ Lock(q)
  <2>1. ~Lasts(q)
    BY <1>3 DEF Request, Lock, Lasts, InRefresh
  <2>2. \A n \in Names : q \notin Callers \intersect ContextsOf(n)
    BY <2>1 DEF ContextsEnd
  <2> QED
    BY <1>2, <2>2, LendStep
<1>4. CASE q \notin Callers
  BY <1>2, <1>4, LendStep
<1>5. CASE q \in Callers /\ ~Request(q) /\ ~Lock(q)
  <2>1. Lasts(q)'
    BY <1>5 DEF Fetch, FetchFails, ReadNames, EndRemoving, EndRegistering, Finish, InRefresh, Lasts
  <2> QED
    BY <1>2, <2>1, LendStep
<1> QED
  BY <1>3, <1>4, <1>5

LEMMA HandlerContexts ==
    ASSUME TypeOK, ContextsEnd, NEW m \in Names, Handler(m)
    PROVE  ContextsEnd'
<1>1. pc' = pc
  BY DEF Handler, ApiRegister, ApiUnregister, ApiStart, ApiStop, LazyStart
<1>2. ASSUME NEW n \in Names PROVE Callers \intersect ContextsOf(n)' \subseteq ContextsOf(n)
  <2>1. CASE ApiRegister(m) \/ ApiUnregister(m)
    BY <2>1, SetServerAt DEF ApiRegister, ApiUnregister, ContextsOf, Client, Absent
  <2>2. CASE ApiStart(m) \/ LazyStart(m)
    BY <2>2, StartAt DEF ApiStart, LazyStart, ContextsOf
  <2>3. CASE ApiStop(m)
    BY <2>3, StopAt DEF ContextsOf
  <2> QED
    BY <2>1, <2>2, <2>3 DEF Handler
<1> QED
  BY <1>1, <1>2 DEF ContextsEnd, Lasts

LEMMA ContextsStep == TypeOK /\ CurrentKnown /\ ContextsEnd /\ [Next]_vars => ContextsEnd'
<1> SUFFICES ASSUME TypeOK, CurrentKnown, ContextsEnd, [Next]_vars PROVE ContextsEnd'
  OBVIOUS
<1> USE DEF Goto
<1>1. CASE Retry \/ ChangeBackend \/ IntervalElapses \/ UNCHANGED vars
  <2>1. servers' = servers /\ \A p \in Callers : pc'[p] = pc[p]
    BY <1>1 DEF Retry, ChangeBackend, IntervalElapses, vars, managerVars, Procs, TypeOK
  <2> QED
    BY <2>1 DEF ContextsEnd, ContextsOf, Lasts
<1>2. ASSUME NEW q \in Procs, NEW m \in Names, Remove(q, m) \/ Consider(q, m) PROVE ContextsEnd'
  <2>1. \A p \in Procs \ {q} : pc'[p] = pc[p]
    BY <1>2 DEF Remove, Consider, TypeOK
  <2>2. \A n \in Names : servers'[n] = servers[n] \/ servers'[n] = Absent
    BY <1>2, SetServerAt DEF Remove, Consider, managerVars
  <2>3. Lends(q)
    BY <2>1, <2>2 DEF Lends, ContextsOf, Absent
  <2>4. Lasts(q)'
    BY <1>2 DEF Remove, Consider, InRefresh, Lasts, TypeOK
  <2> QED
    BY <2>3, <2>4, LendStep
<1>3. ASSUME NEW q \in Procs, Register(q) \/ Start(q) PROVE ContextsEnd'
  <2>1. /\ \A p \in Procs \ {q} : pc'[p] = pc[p]
        /\ current[q] \in Names
        /\ Lasts(q)'
    BY <1>3 DEF Register, Start, TypeOK, CurrentKnown, Lasts, InRefresh
  <2>2. ASSUME NEW n \in Names
        PROVE  ContextsOf(n)' \subseteq ContextsOf(n) \union {q, None}
    <3>1. CASE UNCHANGED servers
      BY <3>1 DEF ContextsOf
    <3>2. ASSUME NEW kind, SetServer(q, current[q], Client(q, kind))
          PROVE  ContextsOf(n)' \subseteq ContextsOf(n) \union {q, None}
      BY <2>1, <3>2, SetServerAt DEF ContextsOf, Client
    <3>3. CASE StartUnder(current[q], q)
      BY <2>1, <3>3, StartAt DEF ContextsOf
    <3> QED
      BY <1>3, <3>1, <3>2, <3>3 DEF Register, Start, managerVars
  <2>3. Lends(q)
    BY <2>1, <2>2 DEF Lends
  <2> QED
    BY <2>1, <2>3, LendStep
<1>4. ASSUME NEW q \in Procs, EndRequest(q) PROVE ContextsEnd'
  <2>1. \A p \in Procs \ {q} : pc'[p] = pc[p]
    BY <1>4 DEF EndRequest, TypeOK
  <2>2. \A n \in Names : ContextsOf(n)' \subseteq (ContextsOf(n) \ {q}) \union {"cancelled"}
    BY <1>4, EndRequestAt DEF ContextsOf, Cut
  <2>3. Lends(q) /\ \A n \in Names : q \notin Callers \intersect ContextsOf(n)'
    BY <2>1, <2>2 DEF Lends
  <2> QED
    BY <2>3, LendStep
<1> QED
  BY <1>1, <1>2, <1>3, <1>4, QuietStep, HandlerContexts DEF Next, World, Step

\* The steps that touch no context of n, or remove n.
Spares(n) ==
    \/ n \notin Registered'
    \/ UNCHANGED servers[n]

LEMMA Touches ==
    ASSUME TypeOK, CurrentKnown, [Next]_vars, NEW n \in Registered
    PROVE  \/ Spares(n)
           \/ \E m \in Names, c \in Procs \union {Api, "cancelled"} : StartUnder(m, c)
           \/ ApiStop(n) \/ \E p \in Procs : EndRequest(p)
<1> USE DEF TypeOK, managerVars
<1>0. n \in Names
  BY DEF Registered
<1>1. ASSUME NEW p, NEW m \in Names \ Registered, NEW client, SetServer(p, m, client)
      PROVE  Spares(n)
  BY <1>0, <1>1, SetServerAt DEF Spares
<1>2. ASSUME NEW p, NEW m \in Names, SetServer(p, m, Absent) PROVE Spares(n)
  <2>1. servers'[n] = IF n = m THEN Absent ELSE servers[n]
    BY <1>0, <1>2, SetServerAt
  <2> QED
    BY <2>1 DEF Spares, Registered
<1>3. ASSUME UNCHANGED servers PROVE Spares(n)
  BY <1>3 DEF Spares
<1>4. ASSUME NEW q \in Procs, Register(q) PROVE Spares(n)
  <2>1. current[q] \in Names
    BY <1>4 DEF Register, CurrentKnown
  <2> QED
    BY <1>1, <1>3, <1>4, <2>1 DEF Register
<1>5. ASSUME NEW q \in Procs, Start(q)
      PROVE  Spares(n) \/ \E m \in Names, c \in Procs \union {Api, "cancelled"} : StartUnder(m, c)
  <2>1. current[q] \in Names
    BY <1>5 DEF Start, CurrentKnown
  <2> QED
    BY <1>3, <1>5, <2>1 DEF Start
<1>6. ASSUME NEW q \in Procs, NEW m \in Names, Remove(q, m) PROVE Spares(n)
  BY <1>2, <1>3, <1>6 DEF Remove
<1>7. ASSUME NEW m \in Names, ApiRegister(m) \/ ApiUnregister(m) PROVE Spares(n)
  BY <1>1, <1>2, <1>7 DEF ApiRegister, ApiUnregister
<1>8. ASSUME NEW m \in Names, ApiStop(m) PROVE Spares(n) \/ ApiStop(n)
  <2>1. CASE m # n
    BY <1>0, <1>8, <2>1 DEF ApiStop, Spares
  <2> QED
    BY <1>8, <2>1
<1>9. ASSUME NEW m \in Names, ApiStart(m) \/ LazyStart(m)
      PROVE  \E k \in Names, c \in Procs \union {Api, "cancelled"} : StartUnder(k, c)
  BY <1>9 DEF ApiStart, LazyStart
<1>10. CASE Retry \/ ChangeBackend \/ IntervalElapses \/ UNCHANGED vars
  BY <1>3, <1>10 DEF Retry, ChangeBackend, IntervalElapses, vars
<1>11. ASSUME NEW q \in Procs, Request(q) \/ Lock(q) \/ Fetch(q) \/ FetchFails(q) \/ ReadNames(q)
                                \/ EndRemoving(q) \/ EndRegistering(q) \/ Finish(q)
                                \/ \E m \in Names : Consider(q, m)
       PROVE  Spares(n)
  BY <1>3, <1>11 DEF Request, Lock, Fetch, FetchFails, ReadNames, EndRemoving, EndRegistering,
     Finish, Consider
<1> QED
  BY <1>4, <1>5, <1>6, <1>7, <1>8, <1>9, <1>10, <1>11 DEF Next, World, Handler, Step

\* Whatever a refresh registers or starts with the context of its request has
\* lost that context when the request is over.  From then on the token of the
\* client cannot be renewed until the server is unregistered, and its process
\* is dead, though it counts as running, until the API stops it or unregisters
\* it; so is one that a handler has started to call it.
THEOREM RequestContextsDie ==
    Spec => []ContextsEnd /\ [][TokenCutForGood]_vars /\ CutUntilStopped
<1>1. Init => ContextsEnd
  BY DEF Init, ContextsEnd, ContextsOf, Absent
<1>2. IInv /\ ContextsEnd /\ [Next]_vars => ContextsEnd'
  BY ContextsStep DEF IInv
<1> DEFINE ProcessCut ==
             \A n \in Names :
                 servers[n].process = "cancelled" =>
                    servers'[n].process = "cancelled" \/ n \notin Registered' \/ ApiStop(n)
<1>3. IInv /\ [Next]_vars => TokenCutForGood /\ ProcessCut
  <2> SUFFICES ASSUME TypeOK, CurrentKnown, [Next]_vars, NEW n \in Names
               PROVE  /\ servers[n].token = "cancelled" =>
                           servers'[n].token = "cancelled" \/ n \notin Registered'
                      /\ servers[n].process = "cancelled" =>
                           \/ servers'[n].process = "cancelled"
                           \/ n \notin Registered' \/ ApiStop(n)
    BY DEF TokenCutForGood, IInv
  <2>1. CASE n \notin Registered
    <3>1. servers[n].token = None /\ servers[n].process = None
      BY <2>1 DEF Registered, Absent
    <3> QED
      BY <3>1
  <2>2. CASE n \in Registered /\ Spares(n)
    BY <2>2 DEF Spares
  <2>3. ASSUME NEW m \in Names, NEW c \in Procs \union {Api, "cancelled"}, StartUnder(m, c)
        PROVE  /\ servers'[n].token = servers[n].token
               /\ servers[n].process = "cancelled" => servers'[n].process = "cancelled"
    BY <2>3, StartAt
  <2>4. CASE ApiStop(n)
    BY <2>4, StopAt
  <2>5. ASSUME NEW p \in Procs, EndRequest(p)
        PROVE  /\ servers[n].token = "cancelled" => servers'[n].token = "cancelled"
               /\ servers[n].process = "cancelled" => servers'[n].process = "cancelled"
    BY <2>5, EndRequestAt DEF Cut
  <2> QED
    BY <2>1, <2>2, <2>3, <2>4, <2>5, Touches
<1> HIDE DEF ProcessCut
<1>4. Spec => []ContextsEnd /\ [][TokenCutForGood]_vars /\ [][ProcessCut]_vars
  BY <1>1, <1>2, <1>3, Invariance, PTL DEF Spec
<1> QED
  BY <1>4 DEF CutUntilStopped, ProcessCut
-----------------------------------------------------------------------------
(* Convergence, but for the fairness it needs.                             *)

Applying == {"reading", "removing", "registering", "adding", "starting"}

\* A bootstrap under way has the list of the backend, none that was replaced.
UpToDate(p) ==
    /\ pc[p] \in Applying => configs[p] = backend
    /\ pc[p] = "removing" => todo[p] \intersect EnabledIn(backend) = {}

\* What is registered is what the backend enables, and nobody is about to change
\* that: the states in which Converges ends.
Settled == Converged /\ \A p \in Procs : UpToDate(p)
SettledStays == Settled /\ UNCHANGED <<backend, apiCalls>> => Settled'

\* A bootstrap whose list is the backend's and that nobody disturbed ends there.
BootstrapSettles ==
    \A p \in Procs :
        pc[p] = "finishing" /\ (p \in Callers => succeeded) /\ configs[p] = backend /\ disturbed[p] = {}
          => Converged

LEMMA SettledStep ==
    ASSUME TypeOK, CurrentKnown, Applied, Settled, NEW p \in Procs, ProcStep(p)
    PROVE  Converged' /\ UpToDate(p)'
<1> USE DEF TypeOK, locals, managerVars, backendVars, Goto
<1>0. UpToDate(p) /\ Converged /\ NothingMissing(p)
  BY DEF Settled, Applied
<1>1. ASSUME Registered' = Registered, backend' = backend PROVE Converged'
  BY <1>0, <1>1 DEF Converged, ValidIn, EnabledIn
<1>2. CASE Request(p) \/ Lock(p) \/ FetchFails(p) \/ EndRegistering(p) \/ Finish(p)
  <2>1. servers' = servers /\ backend' = backend /\ pc'[p] \notin Applying
    <3>1. CASE Request(p) \/ Lock(p)
      BY <3>1 DEF Request, Lock, Applying
    <3>2. CASE FetchFails(p) \/ EndRegistering(p)
      BY <3>2 DEF FetchFails, EndRegistering, Applying
    <3>3. CASE Finish(p)
      BY <3>3 DEF Finish, Applying
    <3> QED
      BY <1>2, <3>1, <3>2, <3>3
  <2>2. Registered' = Registered
    BY <2>1 DEF Registered
  <2> QED
    BY <1>1, <2>1, <2>2 DEF UpToDate, Applying
<1>3. CASE Fetch(p)
  <2>1. servers' = servers /\ backend' = backend /\ pc'[p] = "reading" /\ configs'[p] = backend
    BY <1>3 DEF Fetch
  <2>2. Registered' = Registered
    BY <2>1 DEF Registered
  <2> QED
    BY <1>1, <2>1, <2>2 DEF UpToDate
<1>4. CASE ReadNames(p)
  <2>1. /\ servers' = servers /\ backend' = backend /\ configs' = configs
        /\ pc[p] = "reading" /\ todo'[p] = Registered \ EnabledIn(configs[p])
    BY <1>4 DEF ReadNames
  <2>2. Registered' = Registered
    BY <2>1 DEF Registered
  <2>3. configs[p] = backend /\ EnabledIn(backend)' = EnabledIn(backend)
    BY <1>0, <2>1 DEF UpToDate, Applying, EnabledIn
  <2> QED
    BY <1>1, <2>1, <2>2, <2>3 DEF UpToDate
<1>5. CASE EndRemoving(p) \/ \E n \in Names : Consider(p, n)
  <2>1. /\ servers' = servers /\ backend' = backend /\ configs' = configs
        /\ pc[p] \in Applying /\ pc'[p] # "removing"
    <3>1. CASE EndRemoving(p)
      BY <3>1 DEF EndRemoving, Applying
    <3>2. ASSUME NEW n \in Names, Consider(p, n)
          PROVE  /\ servers' = servers /\ backend' = backend /\ configs' = configs
                 /\ pc[p] \in Applying /\ pc'[p] # "removing"
      BY <3>2 DEF Consider, Applying
    <3> QED
      BY <1>5, <3>1, <3>2
  <2>2. Registered' = Registered
    BY <2>1 DEF Registered
  <2> QED
    BY <1>0, <1>1, <2>1, <2>2 DEF UpToDate
<1>6. ASSUME NEW n \in Names, Remove(p, n) PROVE Converged' /\ UpToDate(p)'
  <2>1. /\ pc[p] = "removing" /\ n \in todo[p] /\ todo'[p] = todo[p] \ {n}
        /\ UNCHANGED <<backend, pc, configs>>
    BY <1>6 DEF Remove, Treated
  <2>2. n \notin Registered
    BY <1>0, <2>1 DEF UpToDate, Converged
  <2>3. Registered' = Registered
    BY <1>6, <2>2 DEF Remove, Registered
  <2>4. EnabledIn(backend)' = EnabledIn(backend)
    BY <2>1 DEF EnabledIn
  <2> QED
    BY <1>0, <1>1, <2>1, <2>3, <2>4 DEF UpToDate
<1>7. CASE Register(p)
  <2> DEFINE n == current[p]
  <2>1. /\ pc[p] = "adding" /\ pc'[p] # "removing" /\ UNCHANGED <<backend, configs>>
    BY <1>7 DEF Register
  <2>2. configs[p] = backend /\ n \in Names /\ n \in EnabledIn(backend)
    BY <1>0, <2>1 DEF UpToDate, Applying, NothingMissing, CurrentKnown
  <2>3. UpToDate(p)'
    BY <2>1, <2>2 DEF UpToDate
  <2>4. Registered' \in {Registered, Registered \union {n}}
    <3>1. CASE SetServer(p, n, Client(p, configs[p][n]))
      BY <2>2, <3>1, SetServerEffect, ClientTypes
    <3>2. CASE UNCHANGED managerVars
      BY <3>2 DEF Registered
    <3> QED
      BY <1>7, <3>1, <3>2 DEF Register
  <2>5. EnabledIn(backend)' = EnabledIn(backend) /\ ValidIn(backend)' = ValidIn(backend)
    BY <2>1 DEF EnabledIn, ValidIn
  <2> QED
    BY <1>0, <2>2, <2>3, <2>4, <2>5 DEF Converged
<1>8. CASE Start(p)
  <2>1. backend' = backend /\ configs' = configs /\ pc[p] \in Applying /\ pc'[p] # "removing"
    BY <1>8 DEF Start, Applying
  <2> QED
    BY <1>0, <1>1, <1>8, <2>1, StartEffect DEF UpToDate
<1>9. CASE EndRequest(p)
  <2>1. backend' = backend /\ pc'[p] = "idle"
    BY <1>9 DEF EndRequest
  <2> QED
    BY <1>1, <1>9, <2>1, EndRequestEffect DEF UpToDate, Applying
<1> QED
  BY <1>2, <1>3, <1>4, <1>5, <1>6, <1>7, <1>8, <1>9 DEF ProcStep, Step

\* The states Converges ends in are kept by every step but a change of the
\* backend or a call of the API, also by the retries of main and by refreshes
\* that fail; and every bootstrap that is not disturbed by such a change ends in
\* them.  Only that some bootstrap comes to its end takes the fairness.
THEOREM ConvergedForGood == Spec => []BootstrapSettles /\ [][SettledStays]_vars
<1>1. IInv => BootstrapSettles
  BY DEF IInv, Applied, NothingElse, NothingMissing, Fetched, Mine, BootstrapSettles, Converged,
     Registered, ValidIn
<1>2. IInv /\ [Next]_vars => SettledStays
  <2> SUFFICES ASSUME IInv, Settled, [Next]_vars, UNCHANGED <<backend, apiCalls>> PROVE Settled'
    BY DEF SettledStays
  <2>1. ASSUME NEW q \in Procs, UNCHANGED <<pc[q], configs[q], todo[q]>> PROVE UpToDate(q)'
    <3>1. EnabledIn(backend)' = EnabledIn(backend)
      BY DEF EnabledIn
    <3> QED
      BY <2>1, <3>1 DEF UpToDate, Settled
  <2>2. ASSUME NEW p \in Procs, ProcStep(p) PROVE Settled'
    <3>1. Converged' /\ UpToDate(p)'
      BY <2>2, SettledStep DEF IInv
    <3>2. \A q \in Procs \ {p} : UpToDate(q)'
      BY <2>1, <2>2, OthersStay DEF IInv
    <3> QED
      BY <3>1, <3>2 DEF Settled
  <2>3. CASE Retry \/ ChangeBackend \/ IntervalElapses \/ UNCHANGED vars
    <3>1. UNCHANGED <<servers, configs, todo>>
      BY <2>3 DEF Retry, ChangeBackend, IntervalElapses, vars, managerVars, locals
    <3>2. Converged'
      <4>1. /\ Registered' = Registered /\ ValidIn(backend)' = ValidIn(backend)
            /\ EnabledIn(backend)' = EnabledIn(backend)
        BY <3>1 DEF Registered, ValidIn, EnabledIn
      <4> QED
        BY <4>1 DEF Settled, Converged
    <3>3. ASSUME NEW q \in Procs PROVE UpToDate(q)'
      <4>1. pc'[q] = pc[q] \/ pc'[q] = "fetching"
        BY <2>3 DEF Retry, ChangeBackend, IntervalElapses, vars, Goto, IInv, TypeOK
      <4>2. CASE pc'[q] = "fetching"
        BY <4>2 DEF UpToDate, Applying
      <4> QED
        BY <2>1, <3>1, <4>1, <4>2
    <3> QED
      BY <3>2, <3>3 DEF Settled
  <2>4. ASSUME NEW n \in Names PROVE ~ApiRegister(n) /\ ~ApiUnregister(n)
    BY DEF ApiRegister, ApiUnregister, IInv, TypeOK
  <2>5. ASSUME NEW n \in Names, HandlerStarts(n) PROVE Settled'
    <3>1. Registered' = Registered /\ UNCHANGED <<pc, configs, todo>>
      BY <2>5, HandlerEffect DEF IInv, locals
    <3>2. ValidIn(backend)' = ValidIn(backend) /\ EnabledIn(backend)' = EnabledIn(backend)
      BY DEF ValidIn, EnabledIn
    <3> QED
      BY <2>1, <3>1, <3>2 DEF Settled, Converged
  <2> QED
    BY <2>2, <2>3, <2>4, <2>5 DEF Next, World, Handler, HandlerStarts, ProcStep
<1> QED
  BY <1>1, <1>2, Invariance, PTL DEF Spec
=============================================================================
