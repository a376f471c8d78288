------------------------- MODULE Aggregation_proofs -------------------------
(***************************************************************************)
(* Theorems about Aggregation, for any requests, handlers, servers and     *)
(* clients.  As in Runtime_proofs, the manager's invariant is inherited:   *)
(* a request takes the manager's steps or leaves it alone.                 *)
(***************************************************************************)
EXTENDS Aggregation, Manager_proofs

USE RequestsAssumption

ManagerStep(t) == Begin(t) \/ Enter(t) \/ Step(t) \/ Handshake(t)

-----------------------------------------------------------------------------
(* The requests implement the manager.                                     *)

\* A step of a request, or of another handler, is the manager's or none.
LEMMA TreatIsOfManager ==
    ASSUME NEW t \in Threads, Treat(t)
    PROVE  ManagerStep(t) \/ UNCHANGED vars
<1> USE DEF ManagerStep
<1>1. CASE List(t)
  BY <1>1 DEF List, Enter, Step
<1>2. CASE Take(t)
  BY <1>2 DEF Take
<1>3. CASE GetClient(t)
  BY <1>3 DEF GetClient, Enter, Step
<1>4. CASE Ask(t) \/ LazyStart(t)
  BY <1>4 DEF Ask, LazyStart, Step
<1>5. CASE EndStart(t)
  BY <1>5 DEF EndStart, Handshake
<1>6. CASE Confirm(t) \/ ListTools(t) \/ ListToolsHangs(t) \/ Answer(t)
  BY <1>6 DEF Confirm, ListTools, ListToolsHangs, Answer
<1> QED
  BY <1>1, <1>2, <1>3, <1>4, <1>5, <1>6 DEF Treat

LEMMA RequestIsOfManager ==
    ASSUME NEW t \in Threads, Request(t) \/ Other(t)
    PROVE  ManagerStep(t)
  BY DEF Request, Other, ManagerStep, Handshake

LEMMA StepOfManager == [AggNext]_aggVars => [Next]_vars
<1> SUFFICES ASSUME [AggNext]_aggVars PROVE [Next]_vars
  OBVIOUS
<1>1. CASE UNCHANGED aggVars
  BY <1>1 DEF aggVars
<1>2. ASSUME NEW t \in Threads, ManagerStep(t) PROVE Next
  BY <1>2 DEF ManagerStep, Next
<1> QED
  BY <1>1, <1>2, TreatIsOfManager, RequestIsOfManager DEF AggNext

\* The requests use the manager as Manager says.
THEOREM AggregationImplementsManager == AggSpec => ImplementsManager
<1>1. AggInit => Init
  BY DEF AggInit
<1> QED
  BY <1>1, StepOfManager, PTL DEF AggSpec, ImplementsManager, Spec

-----------------------------------------------------------------------------
(* What a step does, as far as the invariants need it.                     *)

AggTypes ==
    /\ stage \in [Requests -> Stages]
    /\ left \in [Requests -> SUBSET Names]
    /\ server \in [Requests -> Names]
    /\ client \in [Requests -> 0 .. made]
    /\ tools \in [Requests -> SUBSET Names]
    /\ warnings \in [Requests -> SUBSET Names]
    /\ failed \in [Requests -> SUBSET Names]
    /\ steady \in [Requests -> SUBSET Names]
    /\ raced \in [Requests -> SUBSET Names]

\* A client comes to run only by the end of a handshake.
LEMMA RunFacts ==
    ASSUME IInv, NEW t \in Threads, ManagerStep(t),
           NEW c \in Clients, isRunning'[c], ~isRunning[c]
    PROVE  HandshakeOK(t) /\ c = hand[t]
<1> USE DEF IInv, Types
<1>1. HandshakeOK(t)
  <2> SUFFICES ASSUME ~HandshakeOK(t) PROVE isRunning' = isRunning \/ isRunning' = [isRunning EXCEPT ![hand[t]] = FALSE]
    OBVIOUS
  <2> QED
    BY DEF ManagerStep, Begin, Enter, Step, Handshake, RLock, Announce, Drained, CheckFree, Insert,
       Find, Probe, Halt, Delete, Visit, EndVisit, LookUp, Stop, StartLock, SpawnFails,
       HandshakeFails, clientVars
<1> QED
  BY <1>1 DEF HandshakeOK

\* A request changes neither the map nor what another request has found.
LEMMA RequestFacts ==
    ASSUME IInv, AggTypes, NEW t \in Requests, Request(t) \/ Treat(t)
    PROVE  /\ UNCHANGED <<clients, made>>
           /\ \A u \in Requests \ {t} :
                /\ UNCHANGED <<stage[u], left[u], server[u], client[u], tools[u], warnings[u],
                               failed[u], steady[u]>>
                /\ raced[u] \subseteq raced'[u]
<1> USE DEF AggTypes, Reach, NextName, answer, item
<1>1. CASE Request(t)
  BY <1>1 DEF Request, Begin, managerVars
<1>2. CASE List(t)
  BY <1>2 DEF List, RLock, Visit, EndVisit, RUnlock, managerVars
<1>3. CASE Take(t)
  BY <1>3 DEF Take, Begin, managerVars
<1>4. CASE GetClient(t)
  BY <1>4 DEF GetClient, RLock, LookUp, RUnlock, Warn, managerVars
<1>5. CASE Ask(t)
  BY <1>5 DEF Ask, StartLock, managerVars, vars
<1>6. CASE LazyStart(t)
  BY <1>6 DEF LazyStart, StartLock, WarnOfNothing, managerVars
<1>7. CASE EndStart(t)
  <2>1. UNCHANGED <<clients, made>>
    BY <1>7 DEF EndStart, HandshakeOK, SpawnFails, HandshakeFails, managerVars
  <2>2. UNCHANGED raced \/ Overtakes(t)
    BY <1>7 DEF EndStart
  <2>3. \A u \in Requests : raced[u] \subseteq raced'[u]
    BY <2>2 DEF Overtakes
  <2> QED
    BY <1>7, <2>1, <2>3 DEF EndStart, Warn
<1>8. CASE Confirm(t) \/ ListTools(t)
  BY <1>8 DEF Confirm, ListTools, Report, Warn, vars, managerVars
<1>9. CASE ListToolsHangs(t) \/ Answer(t)
  BY <1>9 DEF ListToolsHangs, Answer, vars, managerVars
<1> QED
  BY <1>1, <1>2, <1>3, <1>4, <1>5, <1>6, <1>7, <1>8, <1>9 DEF Treat

\* Another handler leaves the requests alone.
LEMMA OtherFacts ==
    ASSUME AggTypes, NEW t \in Threads, Other(t)
    PROVE  /\ t \notin Requests
           /\ UNCHANGED <<stage, left, server, client, tools, warnings, failed>>
           /\ \A u \in Requests :
                /\ steady'[u] = steady[u] \intersect Registered'
                /\ raced[u] \subseteq raced'[u]
<1>1. UNCHANGED raced \/ Overtakes(t)
  BY DEF Other
<1>2. \A u \in Requests : raced[u] \subseteq raced'[u]
  BY <1>1 DEF Overtakes, AggTypes
<1> QED
  BY <1>2 DEF Other, item, answer, Registered

-----------------------------------------------------------------------------
(* The invariant.                                                          *)

\* Where a request is in the manager's operation of the moment.
Where(t) ==
    /\ stage[t] = "taking" => pc[t] \in {"rlock", "looking"} /\ op[t] = "start" /\ name[t] = server[t]
    /\ stage[t] \in {"asking", "starting"} => hand[t] = client[t]

\* Every name that was registered all the time is done, at hand or left.
Current(t) == IF stage[t] \in {"listing", "next"} THEN {} ELSE {server[t]}
Covered(t) ==
    /\ steady[t] \subseteq Registered
    /\ ~(stage[t] = "listing" /\ pc[t] = "rlock") =>
         steady[t] \subseteq left[t] \union tools[t] \union warnings[t] \union Current(t)

\* A refusal that is to come has a cause.
Caused(t) ==
    /\ warnings[t] \ failed[t] \subseteq raced[t]
    /\ stage[t] = "starting" /\ pc[t] = "start" /\ isRunning[hand[t]] => server[t] \in raced[t]

RequestInv(t) == Where(t) /\ Covered(t) /\ Caused(t)
AInv == IInv /\ AggTypes /\ \A t \in Requests : RequestInv(t)

LEMMA AggInitInv == AggInit => AInv
<1> SUFFICES ASSUME AggInit PROVE AInv
  OBVIOUS
<1>1. Init
  BY DEF AggInit
<1>2. IInv
  <2>1. Types /\ HasClient
    BY <1>1, TypeInit
  <2>2. WriterInv /\ StartsInv
    BY <1>1 DEF Init, WriterInv, Injective, WriterOf, InWriter, Removing, StartsInv
  <2> QED
    BY <2>1, <2>2 DEF IInv
<1>3. AggTypes
  BY <1>1, ANameInNames DEF AggInit, AggTypes, Init, Stages
<1>4. ASSUME NEW t \in Requests PROVE RequestInv(t)
  BY <1>1 DEF AggInit, RequestInv, Where, Covered, Caused
<1> QED
  BY <1>2, <1>3, <1>4 DEF AInv

\* Nothing a request does for itself disturbs another one.
LEMMA OthersKeepInv ==
    ASSUME AInv, NEW t \in Threads, ManagerStep(t) \/ UNCHANGED vars, NEW u \in Requests \ {t},
           UNCHANGED <<stage[u], left[u], server[u], client[u], tools[u], warnings[u], failed[u]>>,
           steady'[u] \subseteq steady[u] \intersect Registered',
           raced[u] \subseteq raced'[u],
           \A c \in Clients : isRunning'[c] /\ ~isRunning[c] => Overtakes(t)
    PROVE  RequestInv(u)'
<1> USE DEF AInv, IInv, AggTypes
<1>1. UNCHANGED <<pc[u], op[u], name[u], hand[u]>>
  BY OthersStay DEF ManagerStep, vars, locals
<1>2. Where(u)'
  BY <1>1 DEF RequestInv, Where
<1>3. Covered(u)'
  BY <1>1 DEF RequestInv, Covered, Current
<1>4. Caused(u)'
  <2>1. (warnings[u] \ failed[u] \subseteq raced[u])'
    BY DEF RequestInv, Caused
  <2>2. ASSUME stage[u] = "starting", pc[u] = "start", isRunning'[hand[u]]
        PROVE  server[u] \in raced'[u]
    <3>1. hand[u] \in Clients
      BY <2>2, ConstantsAssumption DEF HasClient, Working, Types, Clients
    <3>2. CASE isRunning[hand[u]]
      BY <2>2, <3>2 DEF RequestInv, Caused
    <3>3. CASE ~isRunning[hand[u]]
      <4>1. ManagerStep(t)
        BY <2>2, <3>3 DEF vars, clientVars
      <4>2. HandshakeOK(t) /\ hand[u] = hand[t]
        BY <2>2, <3>1, <3>3, <4>1, RunFacts
      <4> QED
        BY <2>2, <3>1, <3>3, <4>2 DEF Overtakes
    <3> QED
      BY <3>2, <3>3
  <2> QED
    BY <1>1, <2>1, <2>2 DEF Caused
<1> QED
  BY <1>2, <1>3, <1>4 DEF RequestInv

-----------------------------------------------------------------------------
(* The steps of a request.                                                 *)

\* A name is done: it is among the tools or the warnings.
LEMMA DoneFacts ==
    ASSUME Types, AggTypes, NEW t \in Requests, Report(t) \/ Warn(t) \/ WarnOfNothing(t)
    PROVE  /\ stage'[t] = "next"
           /\ tools'[t] \union warnings'[t] = tools[t] \union warnings[t] \union {server[t]}
           /\ Report(t) \/ Warn(t) => warnings'[t] \ failed'[t] \subseteq warnings[t] \ failed[t]
           /\ warnings'[t] \ failed'[t] \subseteq (warnings[t] \ failed[t]) \union {server[t]}
           /\ stage' \in [Requests -> Stages] /\ server' \in [Requests -> Names]
           /\ client' \in [Requests -> 0 .. made]
           /\ tools' \in [Requests -> SUBSET Names] /\ warnings' \in [Requests -> SUBSET Names]
           /\ failed' \in [Requests -> SUBSET Names]
<1> USE DEF AggTypes, NextName, Reach
<1>1. /\ stage' \in [Requests -> Stages] /\ server' \in [Requests -> Names]
      /\ client' \in [Requests -> 0 .. made] /\ stage'[t] = "next"
  <2>1. 0 \in 0 .. made
    BY DEF Types
  <2> QED
    BY <2>1, ANameInNames DEF Report, Warn, WarnOfNothing, Stages
<1>2. CASE Report(t)
  BY <1>1, <1>2 DEF Report
<1>3. CASE Warn(t)
  BY <1>1, <1>3 DEF Warn
<1>4. CASE WarnOfNothing(t) /\ ~Report(t) /\ ~Warn(t)
  BY <1>1, <1>4 DEF WarnOfNothing
<1> QED
  BY <1>2, <1>3, <1>4

LEMMA RequestTypes ==
    ASSUME IInv, AggTypes, NEW t \in Requests, Request(t) \/ Treat(t)
    PROVE  AggTypes'
<1> USE DEF IInv, Types, AggTypes, Reach, answer, item
<1>0. made' = made /\ Registered \subseteq Names /\ Stages = Stages'
  BY RequestFacts DEF Registered
<1>1. CASE Request(t)
  BY <1>0, <1>1 DEF Request, Stages
<1>2. CASE List(t)
  BY <1>0, <1>2 DEF List, Stages
<1>3. CASE Take(t)
  <2>1. name'[t] \in Names
    BY <1>3 DEF Take
  <2> QED
    BY <1>0, <1>3, <2>1 DEF Take, Stages
<1>4. CASE GetClient(t)
  <2>1. CASE UNCHANGED <<stage, item, answer>>
    BY <1>0, <1>4, <2>1 DEF GetClient
  <2>2. CASE Reach(t, "asking") /\ client' = [client EXCEPT ![t] = clients[server[t]]] /\ UNCHANGED <<server, answer>>
    <3>1. clients[server[t]] \in 0 .. made
      OBVIOUS
    <3> QED
      BY <1>0, <1>4, <2>2, <3>1 DEF GetClient, Stages
  <2>3. CASE Warn(t)
    BY <1>0, <1>4, <2>3, DoneFacts DEF GetClient
  <2> QED
    BY <1>4, <2>1, <2>2, <2>3 DEF GetClient
<1>5. CASE Ask(t)
  BY <1>0, <1>5 DEF Ask, Stages
<1>6. CASE LazyStart(t)
  BY <1>0, <1>6, DoneFacts DEF LazyStart
<1>7. CASE EndStart(t)
  <2>1. raced' \in [Requests -> SUBSET Names]
    BY <1>7 DEF EndStart, Overtakes
  <2>2. CASE HandshakeOK(t) /\ Reach(t, "confirming") /\ UNCHANGED <<item, answer>>
    BY <1>0, <1>7, <2>1, <2>2 DEF EndStart, Stages
  <2>3. CASE Warn(t)
    BY <1>0, <1>7, <2>1, <2>3, DoneFacts DEF EndStart
  <2>4. CASE UNCHANGED <<stage, item, answer>>
    BY <1>0, <1>7, <2>1, <2>4 DEF EndStart
  <2> QED
    BY <1>7, <2>2, <2>3, <2>4 DEF EndStart
<1>8. CASE Confirm(t)
  <2>1. CASE Warn(t)
    BY <1>0, <1>8, <2>1, DoneFacts DEF Confirm
  <2>2. CASE ~Warn(t)
    BY <1>0, <1>8, <2>2 DEF Confirm, Stages
  <2> QED
    BY <2>1, <2>2
<1>9. CASE ListTools(t)
  BY <1>0, <1>9, DoneFacts DEF ListTools
<1>10. CASE ListToolsHangs(t) \/ Answer(t)
  BY <1>0, <1>10 DEF ListToolsHangs, Answer, Stages
<1> QED
  BY <1>1, <1>2, <1>3, <1>4, <1>5, <1>6, <1>7, <1>8, <1>9, <1>10 DEF Treat

LEMMA AggTypesStep == AInv /\ [AggNext]_aggVars => AggTypes'
<1> SUFFICES ASSUME AInv, [AggNext]_aggVars PROVE AggTypes'
  OBVIOUS
<1> USE DEF AInv
<1>1. CASE UNCHANGED aggVars
  BY <1>1 DEF aggVars, vars, managerVars, AggTypes, answer, item
<1>2. ASSUME NEW t \in Requests, Request(t) \/ Treat(t) PROVE AggTypes'
  BY <1>2, RequestTypes
<1>3. ASSUME NEW t \in Threads, Other(t) PROVE AggTypes'
  <2>1. made \in Nat /\ made' \in Nat /\ made' >= made
    BY <1>3, StepOfManager, MadeGrows DEF IInv, Types, AggNext
  <2>2. client' \in [Requests -> 0 .. made']
    BY <1>3, <2>1, OtherFacts DEF AggTypes
  <2>3. steady' \in [Requests -> SUBSET Names] /\ raced' \in [Requests -> SUBSET Names]
    BY <1>3 DEF Other, Overtakes, AggTypes
  <2> QED
    BY <1>3, <2>2, <2>3, OtherFacts DEF AggTypes, Stages
<1> QED
  BY <1>1, <1>2, <1>3 DEF AggNext

\* A request that turns to its next name keeps the invariant.
LEMMA DoneKeepsInv ==
    ASSUME AInv, NEW t \in Requests, stage[t] \notin {"listing", "next"},
           Report(t) \/ Warn(t) \/ (WarnOfNothing(t) /\ server[t] \in raced[t]),
           UNCHANGED <<clients, left, steady, raced>>
    PROVE  RequestInv(t)'
<1> USE DEF AInv, IInv, AggTypes
<1>1. /\ stage'[t] = "next"
      /\ tools'[t] \union warnings'[t] = tools[t] \union warnings[t] \union {server[t]}
      /\ \/ warnings'[t] \ failed'[t] \subseteq warnings[t] \ failed[t]
         \/ /\ warnings'[t] \ failed'[t] \subseteq (warnings[t] \ failed[t]) \union {server[t]}
            /\ server[t] \in raced[t]
  BY DoneFacts
<1>2. Where(t)'
  BY <1>1 DEF Where
<1>3. Covered(t)'
  BY <1>1 DEF RequestInv, Covered, Current, Registered
<1>4. Caused(t)'
  BY <1>1 DEF RequestInv, Caused
<1> QED
  BY <1>2, <1>3, <1>4 DEF RequestInv

LEMMA RequestKeepsInv ==
    ASSUME AInv, NEW t \in Requests, Request(t) \/ Treat(t)
    PROVE  RequestInv(t)'
<1> USE DEF AInv, IInv, Types, AggTypes, Reach, answer, item
<1>0. clients' = clients /\ Registered' = Registered /\ pc[t] \in Labels /\ hand[t] \in 0 .. made
  BY RequestFacts DEF Registered
<1>1. CASE Request(t)
  <2>1. stage'[t] = "listing" /\ pc'[t] = "rlock" /\ steady'[t] = Registered
    BY <1>1 DEF Request, Begin, Goto, Writers
  <2> QED
    BY <1>0, <1>1, <2>1 DEF Request, RequestInv, Where, Covered, Caused
<1>2. CASE List(t)
  <2>1. CASE RLock(t)
    <3>1. stage'[t] = "listing" /\ left'[t] = Registered
      BY <1>2, <2>1 DEF List, RLock, Visit, EndVisit
    <3> QED
      BY <1>0, <1>2, <3>1 DEF List, RequestInv, Where, Covered, Caused
  <2>2. CASE ~RLock(t)
    <3>1. stage'[t] \in {"listing", "next"} /\ pc[t] = "visiting"
      BY <1>2, <2>2 DEF List, Visit, EndVisit
    <3> QED
      BY <1>0, <1>2, <2>2, <3>1 DEF List, RequestInv, Where, Covered, Current, Caused
  <2> QED
    BY <2>1, <2>2
<1>3. CASE Take(t)
  <2>1. /\ stage'[t] = "taking" /\ pc'[t] = "rlock" /\ op'[t] = "start"
        /\ server'[t] = name'[t] /\ left'[t] = left[t] \ {server'[t]} /\ stage[t] = "next"
    BY <1>3 DEF Take, Begin, Goto, Writers
  <2> QED
    BY <1>0, <1>3, <2>1 DEF Take, RequestInv, Where, Covered, Current, Caused
<1>4. CASE GetClient(t)
  <2>0. stage[t] = "taking" /\ op[t] = "start" /\ name[t] = server[t]
    BY <1>4 DEF GetClient, RequestInv, Where
  <2>1. CASE RLock(t)
    <3>1. pc'[t] = "looking" /\ op'[t] = op[t] /\ name'[t] = name[t] /\ UNCHANGED <<stage, item, answer>>
      BY <1>4, <2>0, <2>1 DEF GetClient, RLock, Goto, Walkers, LookUp
    <3> QED
      BY <1>0, <1>4, <2>0, <3>1 DEF GetClient, RequestInv, Where, Covered, Current, Caused
  <2>2. CASE LookUp(t) /\ server[t] \in Registered
    <3>1. stage'[t] = "asking" /\ client'[t] = clients[server[t]] /\ UNCHANGED <<server, answer>>
      BY <1>4, <2>2 DEF GetClient, LookUp, RLock
    <3>2. hand'[t] = clients[server[t]]
      BY <2>0, <2>2 DEF LookUp, TakeInHand, Registered
    <3> QED
      BY <1>0, <1>4, <2>0, <3>1, <3>2 DEF GetClient, RequestInv, Where, Covered, Current, Caused
  <2>3. CASE LookUp(t) /\ server[t] \notin Registered
    <3>1. Warn(t) /\ ~RLock(t)
      BY <1>4, <2>3 DEF GetClient, LookUp, RLock
    <3> QED
      BY <1>0, <1>4, <2>0, <3>1, DoneKeepsInv DEF GetClient
  <2> QED
    BY <1>4, <2>1, <2>2, <2>3 DEF GetClient
<1>5. CASE Ask(t)
  <2>0. stage[t] = "asking" /\ hand[t] = client[t]
    BY <1>5 DEF Ask, RequestInv, Where
  <2>1. CASE isRunning[client[t]]
    BY <1>0, <1>5, <2>0, <2>1 DEF Ask, RequestInv, Where, Covered, Current, Caused
  <2>2. CASE ~isRunning[client[t]]
    BY <1>0, <1>5, <2>0, <2>2 DEF Ask, vars, clientVars, locals, RequestInv, Where, Covered, Current,
       Caused
  <2> QED
    BY <2>1, <2>2
<1>6. CASE LazyStart(t)
  <2>0. stage[t] = "starting" /\ hand[t] = client[t] /\ pc[t] = "start"
    BY <1>6 DEF LazyStart, StartLock, RequestInv, Where
  <2>1. CASE isRunning[client[t]]
    <3>1. WarnOfNothing(t) /\ server[t] \in raced[t]
      BY <1>6, <2>0, <2>1 DEF LazyStart, RequestInv, Caused
    <3> QED
      BY <1>0, <1>6, <2>0, <3>1, DoneKeepsInv DEF LazyStart
  <2>2. CASE ~isRunning[client[t]]
    <3>1. pc'[t] = "handshake" /\ hand'[t] = hand[t]
      BY <1>6, <2>0, <2>2 DEF LazyStart, StartLock, GoOn, Goto, locals
    <3> QED
      BY <1>0, <1>6, <2>0, <2>2, <3>1 DEF LazyStart, RequestInv, Where, Covered, Current, Caused
  <2> QED
    BY <2>1, <2>2
<1>7. CASE EndStart(t)
  <2>0. stage[t] = "starting" /\ hand[t] = client[t] /\ pc[t] = "handshake"
    BY <1>7 DEF EndStart, HandshakeOK, SpawnFails, HandshakeFails, RequestInv, Where
  <2>1. CASE HandshakeOK(t) /\ Overtakes(t) /\ Reach(t, "confirming") /\ UNCHANGED <<item, answer>>
    <3>1. raced[t] \subseteq raced'[t] /\ stage'[t] = "confirming"
      BY <2>1 DEF Overtakes
    <3> QED
      BY <1>0, <1>7, <2>0, <2>1, <3>1 DEF EndStart, RequestInv, Where, Covered, Current, Caused
  <2>2. CASE SpawnFails(t) /\ Warn(t) /\ UNCHANGED raced
    BY <1>0, <1>7, <2>0, <2>2, DoneKeepsInv DEF EndStart
  <2>3. CASE HandshakeFails(t) /\ UNCHANGED <<stage, item, answer, raced>>
    <3>1. pc'[t] = "stuck" /\ hand'[t] = hand[t]
      BY <2>3 DEF HandshakeFails, GoOn, Goto, locals
    <3> QED
      BY <1>0, <1>7, <2>0, <2>3, <3>1 DEF EndStart, RequestInv, Where, Covered, Current, Caused
  <2> QED
    BY <1>7, <2>1, <2>2, <2>3 DEF EndStart
<1>8. CASE Confirm(t)
  <2>1. CASE Warn(t)
    BY <1>0, <1>8, <2>1, DoneKeepsInv DEF Confirm, vars, managerVars
  <2>2. CASE Reach(t, "calling") /\ UNCHANGED <<item, answer>>
    BY <1>0, <1>8, <2>2 DEF Confirm, RequestInv, Where, Covered, Current, Caused
  <2> QED
    BY <1>8, <2>1, <2>2 DEF Confirm
<1>9. CASE ListTools(t)
  BY <1>0, <1>9, DoneKeepsInv DEF ListTools, vars, managerVars
<1>10. CASE ListToolsHangs(t)
  BY <1>0, <1>10 DEF ListToolsHangs, RequestInv, Where, Covered, Current, Caused
<1>11. CASE Answer(t)
  BY <1>0, <1>11 DEF Answer, Answered, RequestInv, Where, Covered, Caused
<1> QED
  BY <1>1, <1>2, <1>3, <1>4, <1>5, <1>6, <1>7, <1>8, <1>9, <1>10, <1>11 DEF Treat

LEMMA AggStep == AInv /\ [AggNext]_aggVars => AInv'
<1> SUFFICES ASSUME AInv, [AggNext]_aggVars PROVE AInv'
  OBVIOUS
<1>1. IInv' /\ AggTypes'
  <2>1. IInv'
    BY StepOfManager, TypeStep, HasClientStep, WriterStep, StartsStep DEF AInv, IInv
  <2> QED
    BY <2>1, AggTypesStep
<1>2. CASE UNCHANGED aggVars
  <2>1. ASSUME NEW u \in Requests PROVE RequestInv(u)'
    BY <1>2 DEF AInv, aggVars, vars, managerVars, clientVars, locals, item, answer, RequestInv, Where,
       Covered, Current, Caused, Registered
  <2> QED
    BY <1>1, <2>1 DEF AInv
<1>3. ASSUME NEW t \in Requests, Request(t) \/ Treat(t), NEW u \in Requests PROVE RequestInv(u)'
  <2>1. CASE u = t
    BY <1>3, <2>1, RequestKeepsInv
  <2>2. CASE u # t
    <3>1. t \in Threads /\ (ManagerStep(t) \/ UNCHANGED vars)
      BY <1>3, TreatIsOfManager, RequestIsOfManager
    <3>2. /\ UNCHANGED <<stage[u], left[u], server[u], client[u], tools[u], warnings[u], failed[u]>>
          /\ raced[u] \subseteq raced'[u] /\ steady'[u] = steady[u] /\ Registered' = Registered
      BY <1>3, <2>2, RequestFacts DEF AInv, Registered
    <3>3. steady'[u] \subseteq steady[u] \intersect Registered'
      BY <3>2 DEF AInv, RequestInv, Covered
    <3>4. \A c \in Clients : isRunning'[c] /\ ~isRunning[c] => Overtakes(t)
      <4> SUFFICES ASSUME NEW c \in Clients, isRunning'[c], ~isRunning[c] PROVE Overtakes(t)
        OBVIOUS
      <4>1. ~UNCHANGED isRunning
        OBVIOUS
      <4>2. EndStart(t)
        BY <1>3, <4>1 DEF Request, Treat, List, Take, GetClient, Ask, LazyStart, Confirm, ListTools,
           ListToolsHangs, Answer, Begin, RLock, Visit, EndVisit, LookUp, StartLock, vars, clientVars
      <4> QED
        BY <4>1, <4>2 DEF EndStart, SpawnFails, HandshakeFails, clientVars
    <3> QED
      BY <1>3, <2>2, <3>1, <3>2, <3>3, <3>4, OthersKeepInv
  <2> QED
    BY <2>1, <2>2
<1>4. ASSUME NEW t \in Threads, Other(t), NEW u \in Requests PROVE RequestInv(u)'
  <2>1. ManagerStep(t) /\ u \in Requests \ {t}
    BY <1>4, RequestIsOfManager, OtherFacts DEF AInv
  <2>2. /\ UNCHANGED <<stage[u], left[u], server[u], client[u], tools[u], warnings[u], failed[u]>>
        /\ raced[u] \subseteq raced'[u] /\ steady'[u] \subseteq steady[u] \intersect Registered'
    BY <1>4, OtherFacts DEF AInv
  <2>3. \A c \in Clients : isRunning'[c] /\ ~isRunning[c] => Overtakes(t)
    <3> SUFFICES ASSUME NEW c \in Clients, isRunning'[c], ~isRunning[c] PROVE Overtakes(t)
      OBVIOUS
    <3>1. HandshakeOK(t) /\ c = hand[t]
      BY <2>1, RunFacts DEF AInv
    <3>2. ~(Begin(t) \/ Enter(t) \/ Step(t))
      BY <3>1 DEF HandshakeOK, Begin, Enter, Step, RLock, Announce, Drained, CheckFree, Insert, Find,
         Probe, Halt, Delete, Visit, EndVisit, LookUp, Stop, StartLock
    <3> QED
      BY <1>4, <3>2 DEF Other, SpawnFails, HandshakeFails, clientVars
  <2> QED
    BY <2>1, <2>2, <2>3, OthersKeepInv
<1> QED
  BY <1>1, <1>2, <1>3, <1>4 DEF AInv, AggNext

LEMMA AggInvariance == AggSpec => []AInv
  BY AggInitInv, AggStep, PTL DEF AggSpec

-----------------------------------------------------------------------------
(* The theorems.                                                           *)

\* Every variable keeps its type.
THEOREM AggTypeCorrect == AggSpec => []AggTypeOK
<1>1. AInv => AggTypeOK
  BY DEF AInv, IInv, AggTypes, AggTypeOK
<1> QED
  BY <1>1, AggInvariance, PTL

\* A server that was registered all the time has its tools in the answer or a
\* warning.
THEOREM AnswerAccountsForAll == AggSpec => []AllAccounted
<1>1. AInv => AllAccounted
  BY DEF AInv, RequestInv, Covered, Current, Answered, AllAccounted
<1> QED
  BY <1>1, AggInvariance, PTL

\* A warning without a failure only comes of a race between two starts.
THEOREM OnlyRacesWarnFalsely == AggSpec => []FalseWarningsAreRaces
<1>1. AInv => FalseWarningsAreRaces
  BY DEF AInv, RequestInv, Caused, FalseWarningsAreRaces
<1> QED
  BY <1>1, AggInvariance, PTL

\* Requests that go through all servers, waiting for a client here and for the
\* manager's mutex there, never wait for each other or for others in a circle.
THEOREM AggregationNeverDeadlocked == AggSpec => [](LockOrder /\ SomeoneGoesOn)
<1>1. AggSpec => Spec
  BY AggregationImplementsManager DEF ImplementsManager
<1>2. QED
  BY <1>1, LocksTakenInOrder, NeverDeadlocked, PTL
-----------------------------------------------------------------------------
(* Requests are finite.                                                    *)

\* How many steps a request may still take: eight for each name it has not
\* taken, what its place allows for the name at hand, and before that what
\* ListServers, a call of the manager, has left.
Place(t) ==
    CASE stage[t] = "listing" -> Measure(t) + 1
      [] stage[t] = "taking" -> IF pc[t] = "rlock" THEN 8 ELSE 7
      [] stage[t] = "asking" -> 6
      [] stage[t] = "starting" -> IF pc[t] = "start" THEN 5 ELSE IF pc[t] = "handshake" THEN 4 ELSE 3
      [] stage[t] = "confirming" -> 3
      [] stage[t] = "calling" -> 2
      [] stage[t] = "next" -> 1
      [] OTHER -> 0
ToTake(t) == IF stage[t] = "listing" /\ pc[t] = "rlock" THEN Names ELSE left[t]
RequestMeasure(t) == 8 * Cardinality(ToTake(t)) + Place(t)

\* Every step that a request takes brings it closer to its end, and the steps
\* of others do not take it further from it.
RequestsShrink ==
    \A t \in Requests :
        stage[t] # "none" =>
            \/ UNCHANGED <<stage[t], left[t], pc[t], op[t], todo[t]>>
            \/ RequestMeasure(t)' < RequestMeasure(t)
BoundedRequests ==
    \A t \in Requests :
        RequestMeasure(t) \in 0 .. 8 * Cardinality(Names) + 2 * MaxClients + 8

LEMMA NextMeasureType ==
    ASSUME Types', NEW t \in Threads
    PROVE  Measure(t)' \in Nat
<1>1. Visits(t)' \in SUBSET Clients
  <2>1. todo'[t] \in SUBSET (1 .. made') /\ made' \in 0 .. MaxClients
    BY DEF Types
  <2> QED
    BY <2>1, ConstantsAssumption DEF Visits, Clients
<1>2. Cardinality(Visits(t)') \in Nat
  BY <1>1, ClientsFinite
<1>3. Left(pc[t])' \in Nat
  BY ConstantsAssumption DEF Left
<1> QED
  BY <1>2, <1>3 DEF Measure

LEMMA RequestMeasureType ==
    ASSUME IsFiniteSet(Names), Types, AggTypes, NEW t \in Requests
    PROVE  /\ RequestMeasure(t) \in 0 .. 8 * Cardinality(Names) + 2 * MaxClients + 8
           /\ Place(t) \in Nat /\ IsFiniteSet(ToTake(t)) /\ Cardinality(ToTake(t)) \in Nat
<1>1. IsFiniteSet(ToTake(t)) /\ Cardinality(ToTake(t)) <= Cardinality(Names)
  <2>1. ToTake(t) \in SUBSET Names
    BY DEF ToTake, AggTypes
  <2> QED
    BY <2>1, FS_Subset
<1>2. Cardinality(ToTake(t)) \in Nat /\ Cardinality(Names) \in Nat
  BY <1>1, FS_CardinalityType
<1>3. Measure(t) \in 0 .. 2 * MaxClients + 6
  BY MeasureType
<1>4. Place(t) \in 0 .. 2 * MaxClients + 8
  <2>1. CASE stage[t] = "listing"
    BY <1>3, <2>1, ConstantsAssumption DEF Place
  <2>2. CASE stage[t] # "listing"
    <3>1. Place(t) \in 0 .. 8
      BY <2>2 DEF Place
    <3> QED
      BY <3>1, ConstantsAssumption
  <2> QED
    BY <2>1, <2>2
<1> QED
  BY <1>1, <1>2, <1>4, ConstantsAssumption DEF RequestMeasure

\* A request that keeps its names gets on if its place does.
LEMMA PlaceShrinks ==
    ASSUME IsFiniteSet(Names), Types, AggTypes, Types', AggTypes', NEW t \in Requests,
           ToTake(t)' \subseteq ToTake(t), Place(t)' < Place(t)
    PROVE  RequestMeasure(t)' < RequestMeasure(t)
<1>1. IsFiniteSet(ToTake(t)) /\ Cardinality(ToTake(t)) \in Nat /\ Place(t) \in Nat
  BY RequestMeasureType
<1>2. Cardinality(ToTake(t)') <= Cardinality(ToTake(t)) /\ Cardinality(ToTake(t)') \in Nat
  BY <1>1, FS_Subset, FS_CardinalityType
<1>3. ToTake(t)' \in SUBSET Names
  BY DEF ToTake, AggTypes
<1>4. Place(t)' \in Nat
  <2>1. Measure(t)' \in Nat
    BY NextMeasureType
  <2> QED
    BY <2>1 DEF Place
<1> QED
  BY <1>1, <1>2, <1>4 DEF RequestMeasure

LEMMA TreatShrinks ==
    ASSUME IsFiniteSet(Names), AInv, OpInv, Types', AggTypes', NEW t \in Requests, Treat(t)
    PROVE  RequestMeasure(t)' < RequestMeasure(t)
<1> USE DEF Reach, NextName
<1>0. /\ Types /\ HasClient /\ AggTypes /\ Where(t) /\ t \in Threads
      /\ stage \in [Requests -> Stages] /\ left \in [Requests -> SUBSET Names]
  BY DEF AInv, IInv, AggTypes, RequestInv
<1>1. ASSUME stage[t] # "listing", stage'[t] # "listing", left' = left, Place(t)' < Place(t)
      PROVE  RequestMeasure(t)' < RequestMeasure(t)
  <2>1. ToTake(t)' = ToTake(t)
    BY <1>1 DEF ToTake
  <2> QED
    BY <1>0, <1>1, <2>1, PlaceShrinks
\* A name is done: the request turns to the next one.
<1>2. ASSUME Report(t) \/ Warn(t) \/ WarnOfNothing(t), left' = left,
             stage[t] \in {"taking", "asking", "starting", "confirming", "calling"}
      PROVE  RequestMeasure(t)' < RequestMeasure(t)
  <2>1. stage'[t] = "next"
    BY <1>0, <1>2 DEF Report, Warn, WarnOfNothing
  <2>2. Place(t)' = 1 /\ Place(t) \in 2 .. 8
    BY <1>2, <2>1 DEF Place
  <2> QED
    BY <1>1, <1>2, <2>1, <2>2
<1>3. CASE List(t)
  <2>1. RLock(t) \/ EndVisit(t) \/ \E c \in Clients : Visit(t, c)
    BY <1>3 DEF List
  <2>2. Measure(t)' < Measure(t) /\ Measure(t) \in Nat /\ Measure(t)' \in Nat
    <3>1. Enter(t) \/ Step(t)
      BY <2>1 DEF Enter, Step
    <3>2. Measure(t)' < Measure(t)
      BY <1>0, <3>1, StepShrinks
    <3>3. Measure(t) \in 0 .. 2 * MaxClients + 6
      BY <1>0, MeasureType
    <3>4. Measure(t)' \in Nat
      BY <1>0, NextMeasureType
    <3> QED
      BY <3>2, <3>3, <3>4
  <2>3. stage[t] = "listing" /\ stage'[t] \in {"listing", "next"}
    BY <1>0, <1>3 DEF List
  <2>4. Place(t)' < Place(t)
    BY <2>2, <2>3 DEF Place
  <2>5. ToTake(t)' \subseteq ToTake(t)
    <3>1. CASE RLock(t)
      <4>1. pc[t] = "rlock" /\ pc'[t] # "rlock"
        BY <1>0, <3>1 DEF RLock, Goto, Types
      <4>2. left'[t] \subseteq Names
        BY DEF AggTypes
      <4> QED
        BY <2>3, <4>1, <4>2 DEF ToTake
    <3>2. CASE ~RLock(t)
      BY <1>0, <1>3, <2>3, <3>2 DEF ToTake, List, Visit, EndVisit, Goto, Return, Types
    <3> QED
      BY <3>1, <3>2
  <2> QED
    BY <1>0, <2>4, <2>5, PlaceShrinks
<1>4. CASE Take(t)
  <2>1. /\ stage[t] = "next" /\ stage'[t] = "taking" /\ name'[t] \in left[t]
        /\ left'[t] = left[t] \ {name'[t]} /\ pc'[t] = "rlock"
    BY <1>0, <1>4 DEF Take, Begin, Goto, Types, Writers
  <2>2. ToTake(t) = left[t] /\ ToTake(t)' = left[t] \ {name'[t]} /\ Place(t) = 1 /\ Place(t)' = 8
    BY <2>1 DEF ToTake, Place
  <2>3. IsFiniteSet(left[t]) /\ Cardinality(left[t]) \in Nat
    BY <1>0, <2>2, RequestMeasureType
  <2>4. Cardinality(left[t] \ {name'[t]}) = Cardinality(left[t]) - 1
    BY <2>1, <2>3, FS_RemoveElement
  <2> QED
    BY <2>2, <2>3, <2>4 DEF RequestMeasure
<1>5. CASE GetClient(t)
  <2>1. stage[t] = "taking" /\ op[t] = "start" /\ left' = left
    BY <1>0, <1>5 DEF GetClient, Where
  <2>2. CASE RLock(t) /\ UNCHANGED stage
    <3>1. pc[t] = "rlock" /\ pc'[t] = "looking"
      BY <1>0, <2>1, <2>2 DEF RLock, Goto, Walkers, Types
    <3>2. Place(t) = 8 /\ Place(t)' = 7
      BY <2>1, <2>2, <3>1 DEF Place
    <3> QED
      BY <1>1, <2>1, <2>2, <3>2
  <2>3. CASE Reach(t, "asking")
    <3>1. Place(t) \in 7 .. 8 /\ Place(t)' = 6 /\ stage'[t] = "asking"
      BY <1>0, <2>1, <2>3 DEF Place
    <3> QED
      BY <1>1, <2>1, <3>1
  <2>4. CASE Warn(t)
    BY <1>2, <2>1, <2>4
  <2> QED
    BY <1>5, <2>2, <2>3, <2>4 DEF GetClient
<1>6. CASE Ask(t)
  <2>1. stage[t] = "asking" /\ stage'[t] \in {"confirming", "starting"} /\ left' = left
    BY <1>0, <1>6 DEF Ask
  <2>2. Place(t) = 6 /\ Place(t)' \in 3 .. 5
    BY <2>1 DEF Place
  <2> QED
    BY <1>1, <2>1, <2>2
<1>7. CASE LazyStart(t)
  <2>1. stage[t] = "starting" /\ pc[t] = "start" /\ left' = left
    BY <1>7 DEF LazyStart, StartLock
  <2>2. CASE WarnOfNothing(t)
    BY <1>2, <2>1, <2>2
  <2>3. CASE UNCHANGED stage /\ ~isRunning[client[t]]
    <3>1. pc'[t] = "handshake"
      BY <1>0, <1>7, <2>1, <2>3 DEF LazyStart, StartLock, GoOn, Goto, Types, Where
    <3>2. Place(t) = 5 /\ Place(t)' = 4
      BY <2>1, <2>3, <3>1 DEF Place
    <3> QED
      BY <1>1, <2>1, <2>3, <3>2
  <2> QED
    BY <1>7, <2>2, <2>3 DEF LazyStart
<1>8. CASE EndStart(t)
  <2>1. stage[t] = "starting" /\ pc[t] = "handshake" /\ left' = left
    BY <1>8 DEF EndStart, HandshakeOK, SpawnFails, HandshakeFails
  <2>2. CASE Reach(t, "confirming")
    <3>1. stage'[t] = "confirming" /\ Place(t) = 4 /\ Place(t)' = 3
      BY <1>0, <2>1, <2>2 DEF Place
    <3> QED
      BY <1>1, <2>1, <3>1
  <2>3. CASE Warn(t)
    BY <1>2, <2>1, <2>3
  <2>4. CASE HandshakeFails(t) /\ UNCHANGED stage
    <3>1. pc'[t] = "stuck"
      BY <1>0, <2>4 DEF HandshakeFails, GoOn, Goto, Types
    <3>2. Place(t) = 4 /\ Place(t)' = 3
      BY <2>1, <2>4, <3>1 DEF Place
    <3> QED
      BY <1>1, <2>1, <2>4, <3>2
  <2> QED
    BY <1>8, <2>2, <2>3, <2>4 DEF EndStart
<1>9. CASE Confirm(t) \/ ListTools(t)
  <2>1. stage[t] \in {"confirming", "calling"} /\ left' = left
    BY <1>9 DEF Confirm, ListTools
  <2>2. CASE Report(t) \/ Warn(t)
    BY <1>2, <2>1, <2>2
  <2>3. CASE stage[t] = "confirming" /\ Reach(t, "calling")
    <3>1. stage'[t] = "calling" /\ Place(t) = 3 /\ Place(t)' = 2
      BY <1>0, <2>1, <2>3 DEF Place
    <3> QED
      BY <1>1, <2>1, <3>1
  <2> QED
    BY <1>9, <2>2, <2>3 DEF Confirm, ListTools
<1>10. CASE ListToolsHangs(t) \/ Answer(t)
  <2>1. stage[t] \in {"calling", "next"} /\ stage'[t] \in {"hung", "none"} /\ left' = left
    BY <1>0, <1>10 DEF ListToolsHangs, Answer, Answered, item
  <2>2. Place(t) \in 1 .. 2 /\ Place(t)' = 0
    BY <2>1 DEF Place
  <2> QED
    BY <1>1, <2>1, <2>2
<1> QED
  BY <1>3, <1>4, <1>5, <1>6, <1>7, <1>8, <1>9, <1>10 DEF Treat

\* A request that has come takes no more than 8 steps for each server and
\* 2 * MaxClients + 8 for the list, however the other handlers interfere; with
\* AggregationNeverDeadlocked, whoever waits, waits for requests that end.
THEOREM RequestsAreBounded ==
    ASSUME IsFiniteSet(Names)
    PROVE  AggSpec => []BoundedRequests /\ [][RequestsShrink]_aggVars
<1>1. AInv => BoundedRequests
  BY RequestMeasureType DEF AInv, IInv, BoundedRequests
<1>2. AInv /\ OpInv /\ AInv' /\ [AggNext]_aggVars => [RequestsShrink]_aggVars
  <2> SUFFICES ASSUME AInv, OpInv, AInv', AggNext, NEW u \in Requests, stage[u] # "none"
               PROVE  \/ UNCHANGED <<stage[u], left[u], pc[u], op[u], todo[u]>>
                      \/ RequestMeasure(u)' < RequestMeasure(u)
    BY DEF RequestsShrink
  <2>0. Types /\ AggTypes /\ Types' /\ AggTypes'
    BY DEF AInv, IInv
  <2>1. ASSUME NEW t \in Requests, Request(t) \/ Treat(t), u = t
        PROVE  RequestMeasure(u)' < RequestMeasure(u)
    BY <2>0, <2>1, TreatShrinks DEF Request
  <2>2. ASSUME NEW t \in Threads, t # u, ManagerStep(t) \/ UNCHANGED vars,
               UNCHANGED <<stage[u], left[u]>>
        PROVE  UNCHANGED <<stage[u], left[u], pc[u], op[u], todo[u]>>
    BY <2>0, <2>2, OthersStay DEF ManagerStep, vars, locals
  <2>3. ASSUME NEW t \in Requests, Request(t) \/ Treat(t), u # t
        PROVE  UNCHANGED <<stage[u], left[u], pc[u], op[u], todo[u]>>
    <3>1. UNCHANGED <<stage[u], left[u]>>
      BY <2>3, RequestFacts DEF AInv
    <3> QED
      BY <2>2, <2>3, <3>1, TreatIsOfManager, RequestIsOfManager
  <2>4. ASSUME NEW t \in Threads, Other(t)
        PROVE  UNCHANGED <<stage[u], left[u], pc[u], op[u], todo[u]>>
    BY <2>0, <2>2, <2>4, OtherFacts, RequestIsOfManager
  <2> QED
    BY <2>1, <2>3, <2>4 DEF AggNext
<1>3. AggSpec => [](AInv /\ OpInv)
  <2>1. AggSpec => Spec
    BY AggregationImplementsManager DEF ImplementsManager
  <2> QED
    BY <2>1, AggInvariance, LocksInvariance, PTL
<1> QED
  BY <1>1, <1>2, <1>3, PTL DEF AggSpec
=============================================================================
