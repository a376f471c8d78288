------------------------- MODULE HTTPClient_proofs -------------------------
(***************************************************************************)
(* Theorems about HTTPClient, for any threads, any number of sessions and  *)
(* registrations, and any mix of operations.                               *)
(***************************************************************************)
EXTENDS HTTPClient, TLAPS

USE ConstantsAssumption DEF None

LEMMA TypeInit == Init => TypeOK
<1> SUFFICES ASSUME Init PROVE TypeOK
  OBVIOUS
<1>1. pc \in [Threads -> Labels] /\ op \in [Threads -> OpNames]
  BY DEF Init, Labels, OpNames
<1>2. /\ hdr \in [Threads -> 0 .. opened]
      /\ found \in [Threads -> [metadata : {"none", "url", "full"}, client : 0 .. registered]]
      /\ auth \in [Threads -> {"none", "fetching", "set"}]
  BY DEF Init, NothingFound
<1>3. opened \in 0 .. MaxSessions /\ registered \in 0 .. MaxClients
  BY DEF Init
<1>4. session \in 0 .. opened /\ dynamicClientID \in 0 .. registered
  BY DEF Init
<1>5. isRunning \in BOOLEAN /\ dcrFailed \in BOOLEAN
  BY DEF Init
<1>6. authMetadata \in {"none", "url", "full"}
  BY DEF Init
<1>7. notified \subseteq 0 .. opened /\ lost \subseteq 0 .. opened
  BY DEF Init
<1>8. QED
  BY <1>1, <1>2, <1>3, <1>4, <1>5, <1>6, <1>7 DEF TypeOK

LEMMA TypeStep == TypeOK /\ [Next]_vars => TypeOK'
<1> SUFFICES ASSUME TypeOK, [Next]_vars PROVE TypeOK'
  OBVIOUS
<1> USE DEF TypeOK, Labels, OpNames, clientVars, serverVars
\* What happens to the locals of a thread.
<1>1. ASSUME NEW t \in Threads, NEW label \in Labels, GoOn(t, label)
      PROVE  pc' \in [Threads -> Labels] /\ UNCHANGED <<op, hdr, found, auth>>
  BY <1>1 DEF GoOn, Goto, locals
<1>2. ASSUME NEW t \in Threads, Return(t)
      PROVE  /\ pc' \in [Threads -> Labels] /\ op' \in [Threads -> OpNames]
             /\ hdr' \in [Threads -> 0 .. opened]
             /\ found' \in [Threads -> [metadata : {"none", "url", "full"}, client : 0 .. registered]]
             /\ auth' \in [Threads -> {"none", "fetching", "set"}]
  BY <1>2 DEF Return, Goto, NothingFound
<1>3. ASSUME NEW t \in Threads, Begin(t) PROVE TypeOK'
  BY <1>3 DEF Begin, Goto
<1>4. ASSUME NEW t \in Threads, CheckStart(t) PROVE TypeOK'
  BY <1>1, <1>2, <1>4 DEF CheckStart
<1>5. ASSUME NEW t \in Threads, InitializeOK(t) PROVE TypeOK'
  <2>1. opened' = opened + 1 /\ opened' \in 0 .. MaxSessions
    BY <1>5 DEF InitializeOK
  <2>2. \A n \in 0 .. opened : n \in 0 .. opened'
    BY <2>1
  <2>3. hdr' \in [Threads -> 0 .. opened'] /\ pc' \in [Threads -> Labels]
    BY <1>5, <2>1, <2>2 DEF InitializeOK, Goto
  <2>4. QED
    BY <1>5, <2>1, <2>2, <2>3 DEF InitializeOK
<1>6. ASSUME NEW t \in Threads, StoreSession(t) PROVE TypeOK'
  BY <1>1, <1>6 DEF StoreSession
<1>7. ASSUME NEW t \in Threads, PrepareNotification(t) PROVE TypeOK'
  BY <1>7 DEF PrepareNotification, Goto
<1>8. ASSUME NEW t \in Threads, SendNotification(t) PROVE TypeOK'
  <2>1. pc' \in [Threads -> Labels] /\ hdr' \in [Threads -> 0 .. opened]
    BY <1>8 DEF SendNotification, Goto
  <2>2. notified' \subseteq 0 .. opened /\ lost' \subseteq 0 .. opened
    BY <1>8 DEF SendNotification
  <2>3. QED
    BY <1>8, <2>1, <2>2 DEF SendNotification
<1>9. ASSUME NEW t \in Threads, FinishStart(t) PROVE TypeOK'
  BY <1>2, <1>9 DEF FinishStart
<1>10. ASSUME NEW t \in Threads, Stop(t) PROVE TypeOK'
  BY <1>2, <1>10 DEF Stop
<1>11. ASSUME NEW t \in Threads, CheckCall(t) \/ CallOK(t) \/ RequestFails(t) PROVE TypeOK'
  BY <1>1, <1>2, <1>11 DEF CheckCall, CallOK, RequestFails
<1>12. ASSUME NEW t \in Threads, PrepareCall(t) PROVE TypeOK'
  BY <1>12 DEF PrepareCall, Goto
<1>13. ASSUME NEW t \in Threads, Unauthorized(t) PROVE TypeOK'
  BY <1>13 DEF Unauthorized, Goto
<1>14. ASSUME NEW t \in Threads, DiscoveryFails(t) PROVE TypeOK'
  BY <1>1, <1>14 DEF DiscoveryFails
<1>15. ASSUME NEW t \in Threads, DiscoveryOK(t) PROVE TypeOK'
  BY <1>15 DEF DiscoveryOK, Goto
<1>16. ASSUME NEW t \in Threads, RegisterOK(t) PROVE TypeOK'
  <2>1. registered' = registered + 1 /\ registered' \in 0 .. MaxClients
    BY <1>16 DEF RegisterOK
  <2>2. \A n \in 0 .. registered : n \in 0 .. registered'
    BY <2>1
  <2>3. [found[t] EXCEPT !.client = registered + 1]
          \in [metadata : {"none", "url", "full"}, client : 0 .. registered']
    BY <2>1
  <2>4. found' \in [Threads -> [metadata : {"none", "url", "full"}, client : 0 .. registered']]
    BY <1>16, <2>2, <2>3 DEF RegisterOK
  <2>5. pc' \in [Threads -> Labels]
    BY <1>16 DEF RegisterOK, Goto
  <2>6. QED
    BY <1>16, <2>1, <2>2, <2>4, <2>5 DEF RegisterOK
<1>17. ASSUME NEW t \in Threads, RegisterFails(t) \/ RegisterEmpty(t) PROVE TypeOK'
  BY <1>1, <1>2, <1>17 DEF RegisterFails, RegisterEmpty
<1>18. ASSUME NEW t \in Threads, StoreClientID(t) PROVE TypeOK'
  BY <1>1, <1>2, <1>18 DEF StoreClientID
<1>19. ASSUME NEW t \in Threads, PersistMetadata(t) PROVE TypeOK'
  BY <1>2, <1>19 DEF PersistMetadata
<1>20. ASSUME NEW t \in Threads, CheckMetadata(t) PROVE TypeOK'
  BY <1>1, <1>2, <1>20 DEF CheckMetadata
<1>21. ASSUME NEW t \in Threads, SetAuthHeader(t) \/ TokenAnswered(t) PROVE TypeOK'
  BY <1>21 DEF SetAuthHeader, TokenAnswered
<1>22. ASSUME UNCHANGED vars PROVE TypeOK'
  BY <1>22 DEF vars, threadVars
<1>23. QED
  BY <1>3, <1>4, <1>5, <1>6, <1>7, <1>8, <1>9, <1>10, <1>11, <1>12, <1>13, <1>14, <1>15, <1>16,
     <1>17, <1>18, <1>19, <1>20, <1>21, <1>22 DEF Next, ThreadStep, Answered, Registration

\* The session, its notification and the thread that is to send it.
LEMMA SessionStep == TypeOK /\ CurrentSessionNotified /\ [Next]_vars => CurrentSessionNotified'
<1> SUFFICES ASSUME TypeOK, CurrentSessionNotified, [Next]_vars PROVE CurrentSessionNotified'
  OBVIOUS
<1> DEFINE Owes(t) == pc[t] = "notify" \/ (pc[t] = "notifying" /\ hdr[t] = session)
\* A thread that owes no notification moves.
<1>1. ASSUME NEW t \in Threads, ~Owes(t), UNCHANGED <<session, notified, lost>>,
             \A u \in Threads \ {t} : UNCHANGED <<pc[u], hdr[u]>>
      PROVE  CurrentSessionNotified'
  BY <1>1 DEF CurrentSessionNotified
<1>2. ASSUME NEW t \in Threads, Begin(t) \/ ThreadStep(t) \/ Answered(t) \/ Registration(t),
             pc[t] \notin {"storing", "notify", "notifying"}
      PROVE  CurrentSessionNotified'
  <2>1. /\ UNCHANGED <<session, notified, lost>>
        /\ \A u \in Threads \ {t} : UNCHANGED <<pc[u], hdr[u]>>
    BY <1>2 DEF Begin, ThreadStep, Answered, Registration, CheckStart, InitializeOK, StoreSession,
         PrepareNotification, SendNotification, FinishStart, Stop, CheckCall, PrepareCall, CallOK,
         RequestFails, Unauthorized, DiscoveryFails, DiscoveryOK, RegisterOK, RegisterEmpty,
         RegisterFails, StoreClientID, PersistMetadata, CheckMetadata, Return, GoOn, Goto, locals,
         clientVars, serverVars, TypeOK
  <2>2. QED
    BY <1>1, <1>2, <2>1
<1>3. ASSUME NEW t \in Threads, StoreSession(t) PROVE CurrentSessionNotified'
  <2>1. pc'[t] = "notify"
    BY <1>3 DEF StoreSession, GoOn, Goto, TypeOK
  <2>2. QED
    BY <2>1 DEF CurrentSessionNotified
<1>4. ASSUME NEW t \in Threads, PrepareNotification(t) PROVE CurrentSessionNotified'
  <2>1. session' = session /\ pc'[t] = "notifying" /\ hdr'[t] = session
    BY <1>4 DEF PrepareNotification, Goto, TypeOK, clientVars
  <2>2. QED
    BY <2>1 DEF CurrentSessionNotified
<1>5. ASSUME NEW t \in Threads, SendNotification(t) PROVE CurrentSessionNotified'
  <2>1. /\ session' = session /\ pc[t] = "notifying"
        /\ notified' \union lost' = notified \union lost \union {hdr[t]}
        /\ \A u \in Threads \ {t} : UNCHANGED <<pc[u], hdr[u]>>
    BY <1>5 DEF SendNotification, Goto, TypeOK, clientVars
  <2>2. CASE hdr[t] = session
    BY <2>1, <2>2 DEF CurrentSessionNotified
  <2>3. CASE hdr[t] # session
    BY <2>1, <2>3 DEF CurrentSessionNotified
  <2>4. QED
    BY <2>2, <2>3
<1>6. ASSUME UNCHANGED vars PROVE CurrentSessionNotified'
  BY <1>6 DEF CurrentSessionNotified, vars, threadVars, clientVars, serverVars
<1>7. ASSUME NEW t \in Threads, Begin(t) \/ ThreadStep(t) \/ Answered(t) \/ Registration(t),
             pc[t] \in {"storing", "notify", "notifying"}
      PROVE  StoreSession(t) \/ PrepareNotification(t) \/ SendNotification(t)
  BY <1>7 DEF Begin, ThreadStep, Answered, Registration, CheckStart, InitializeOK, FinishStart,
       Stop, CheckCall, PrepareCall, CallOK, RequestFails, Unauthorized, DiscoveryFails,
       DiscoveryOK, RegisterOK, RegisterEmpty, RegisterFails, StoreClientID, PersistMetadata,
       CheckMetadata
<1>8. ASSUME NEW t \in Threads, SetAuthHeader(t) \/ TokenAnswered(t) PROVE CurrentSessionNotified'
  BY <1>8 DEF CurrentSessionNotified, SetAuthHeader, TokenAnswered, clientVars, serverVars
<1>9. QED
  BY <1>2, <1>3, <1>4, <1>5, <1>6, <1>7, <1>8 DEF Next

\* A thread about to persist full metadata, or to store an identifier, has one
\* behind it unless a registration failed.
ClientIDInv ==
    /\ FullMetadataHasClientID
    /\ \A t \in Threads :
         /\ pc[t] = "persisting" /\ found[t].metadata = "full" /\ ~dcrFailed
              => dynamicClientID # None
         /\ pc[t] = "storingID" /\ ~dcrFailed => found[t].client # None
         /\ pc[t] = "discovering" => found[t].metadata = "url"

LEMMA ClientIDStep == TypeOK /\ ClientIDInv /\ [Next]_vars => ClientIDInv'
<1> SUFFICES ASSUME TypeOK, ClientIDInv, [Next]_vars PROVE ClientIDInv'
  OBVIOUS
<1> USE DEF ClientIDInv, FullMetadataHasClientID, clientVars, serverVars
<1>1. ASSUME NEW t \in Threads,
             UNCHANGED <<authMetadata, dynamicClientID, dcrFailed>>,
             \A u \in Threads \ {t} : UNCHANGED <<pc[u], found[u]>>,
             pc'[t] \notin {"persisting", "storingID"},
             pc'[t] = "discovering" => found'[t].metadata = "url"
      PROVE  ClientIDInv'
  BY <1>1
<1>2. ASSUME NEW t \in Threads,
             Begin(t) \/ CheckStart(t) \/ InitializeOK(t) \/ StoreSession(t)
               \/ PrepareNotification(t) \/ SendNotification(t) \/ FinishStart(t) \/ Stop(t)
      PROVE  ClientIDInv'
  BY <1>1, <1>2 DEF Begin, CheckStart, InitializeOK, StoreSession, PrepareNotification,
       SendNotification, FinishStart, Stop, Return, GoOn, Goto, locals, TypeOK, OpNames
<1>3. ASSUME NEW t \in Threads,
             CheckCall(t) \/ PrepareCall(t) \/ CallOK(t) \/ RequestFails(t) \/ Unauthorized(t)
               \/ CheckMetadata(t)
      PROVE  ClientIDInv'
  BY <1>1, <1>3 DEF CheckCall, PrepareCall, CallOK, RequestFails, Unauthorized, CheckMetadata,
       Return, GoOn, Goto, locals, TypeOK
<1>4. ASSUME NEW t \in Threads, DiscoveryFails(t) PROVE ClientIDInv'
  BY <1>4 DEF DiscoveryFails, GoOn, Goto, locals, TypeOK
<1>5. ASSUME NEW t \in Threads, DiscoveryOK(t) PROVE ClientIDInv'
  BY <1>5 DEF DiscoveryOK, Goto, TypeOK
<1>6. ASSUME NEW t \in Threads, RegisterOK(t) PROVE ClientIDInv'
  BY <1>6 DEF RegisterOK, Goto, TypeOK
<1>7. ASSUME NEW t \in Threads, RegisterEmpty(t) \/ RegisterFails(t) PROVE ClientIDInv'
  BY <1>7 DEF RegisterEmpty, RegisterFails, GoOn, Goto, Return, locals, TypeOK
<1>8. ASSUME NEW t \in Threads, StoreClientID(t) PROVE ClientIDInv'
  BY <1>8 DEF StoreClientID, GoOn, Goto, Return, locals, TypeOK
<1>9. ASSUME NEW t \in Threads, PersistMetadata(t) PROVE ClientIDInv'
  BY <1>9 DEF PersistMetadata, Goto, Return, TypeOK
<1>10. ASSUME UNCHANGED vars \/ \E t \in Threads : SetAuthHeader(t) \/ TokenAnswered(t)
       PROVE  ClientIDInv'
  BY <1>10 DEF vars, threadVars, SetAuthHeader, TokenAnswered
<1>11. QED
  BY <1>2, <1>3, <1>4, <1>5, <1>6, <1>7, <1>8, <1>9, <1>10
  DEF Next, ThreadStep, Answered, Registration

\* Every variable of the client keeps its type.
THEOREM TypeCorrect == Spec => []TypeOK
  BY TypeInit, TypeStep, PTL DEF Spec

\* However many Starts overwrite one another's session, the session in use is
\* notified, or about to be, or its notification was lost on the network.
THEOREM SessionNotified == Spec => []CurrentSessionNotified
<1>1. Init => TypeOK /\ CurrentSessionNotified
  BY TypeInit DEF Init, CurrentSessionNotified
<1>2. TypeOK /\ CurrentSessionNotified /\ [Next]_vars => (TypeOK /\ CurrentSessionNotified)'
  BY TypeStep, SessionStep
<1>3. QED
  BY <1>1, <1>2, PTL DEF Spec

\* A registration endpoint is never shown without a client identifier unless
\* a registration gave none.
THEOREM MetadataComesWithID == Spec => []FullMetadataHasClientID
<1>1. Init => TypeOK /\ ClientIDInv
  BY TypeInit DEF Init, ClientIDInv, FullMetadataHasClientID
<1>2. TypeOK /\ ClientIDInv /\ [Next]_vars => (TypeOK /\ ClientIDInv)'
  BY TypeStep, ClientIDStep
<1>3. ClientIDInv => FullMetadataHasClientID
  BY DEF ClientIDInv
<1>4. QED
  BY <1>1, <1>2, <1>3, PTL DEF Spec

-----------------------------------------------------------------------------
(* Operations are finite.                                                  *)

\* The steps an operation takes from each place, at the most; a request that is
\* to be sent still has to get its token.
StepsFrom ==
    [l \in Labels |->
        CASE l = "start" -> 10 [] l = "call" -> 9 [] l = "preparing" -> 8
          [] l = "initializing" -> 7 [] l = "storing" -> 6 [] l \in {"calling", "notify"} -> 5
          [] l \in {"discovering", "dcr"} -> 4 [] l = "registering" -> 3
          [] l \in {"notifying", "storingID"} -> 2
          [] l \in {"finishing", "persisting", "stop"} -> 1 [] OTHER -> 0]

TokenSteps(t) == IF ~Sending(t) \/ auth[t] = "set" THEN 0 ELSE IF auth[t] = "fetching" THEN 1 ELSE 2
StepsLeft(t) == StepsFrom[pc[t]] + TokenSteps(t)

OperationsShrink ==
    \A t \in Threads :
        pc[t] # "idle" => UNCHANGED <<pc[t], auth[t]>> \/ StepsLeft(t)' < StepsLeft(t)

\* A 401 leads a request at most once through discovery and registration, and
\* the request that met it is not sent again: an operation ends after at most
\* ten steps of its own, the fetching of tokens included, whatever concurrent
\* operations overwrite meanwhile.
THEOREM OperationsAreBounded == Spec => [][OperationsShrink]_vars
<1>1. TypeOK /\ [Next]_vars => [OperationsShrink]_vars
  <2> SUFFICES ASSUME TypeOK, NEW u \in Threads,
                      \/ Begin(u) \/ SetAuthHeader(u) \/ TokenAnswered(u)
                      \/ ThreadStep(u) \/ Answered(u) \/ Registration(u),
                      NEW t \in Threads, pc[t] # "idle"
               PROVE  UNCHANGED <<pc[t], auth[t]>> \/ StepsLeft(t)' < StepsLeft(t)
    BY DEF Next, OperationsShrink
  <2> USE DEF TypeOK, Goto, GoOn, Return, locals
  <2>1. /\ StepsFrom["call"] = 9 /\ StepsFrom["start"] = 10 /\ StepsFrom["preparing"] = 8
        /\ StepsFrom["initializing"] = 7 /\ StepsFrom["calling"] = 5 /\ StepsFrom["storing"] = 6
        /\ StepsFrom["discovering"] = 4 /\ StepsFrom["dcr"] = 4 /\ StepsFrom["notify"] = 5
        /\ StepsFrom["registering"] = 3 /\ StepsFrom["notifying"] = 2 /\ StepsFrom["storingID"] = 2
        /\ StepsFrom["finishing"] = 1 /\ StepsFrom["persisting"] = 1 /\ StepsFrom["stop"] = 1
        /\ StepsFrom["idle"] = 0
    BY DEF StepsFrom, Labels, OpNames
  <2> HIDE DEF StepsFrom
  <2> USE DEF StepsLeft, TokenSteps, Sending
  <2>2. CASE Begin(u)
    BY <2>2 DEF Begin
  <2>3. CASE CheckStart(u) \/ StoreSession(u) \/ PrepareNotification(u)
    BY <2>1, <2>3 DEF CheckStart, StoreSession, PrepareNotification
  <2>4. CASE SendNotification(u)
    BY <2>1, <2>4 DEF SendNotification, Sent
  <2>5. CASE FinishStart(u) \/ Stop(u) \/ CheckCall(u) \/ PrepareCall(u)
    BY <2>1, <2>5 DEF FinishStart, Stop, CheckCall, PrepareCall
  <2>6. CASE DiscoveryFails(u) \/ StoreClientID(u) \/ PersistMetadata(u) \/ CheckMetadata(u)
    BY <2>1, <2>6 DEF DiscoveryFails, StoreClientID, PersistMetadata, CheckMetadata
  <2>7. CASE InitializeOK(u) \/ CallOK(u) \/ RequestFails(u) \/ Unauthorized(u)
    BY <2>1, <2>7 DEF InitializeOK, CallOK, RequestFails, Unauthorized, Sent
  <2>8. CASE DiscoveryOK(u) \/ RegisterOK(u) \/ RegisterEmpty(u) \/ RegisterFails(u)
    BY <2>1, <2>8 DEF DiscoveryOK, RegisterOK, RegisterEmpty, RegisterFails
  <2>9. CASE SetAuthHeader(u) \/ TokenAnswered(u)
    <3>1. UNCHANGED pc /\ Sending(u)
      BY <2>9 DEF SetAuthHeader, TokenAnswered
    <3>2. CASE t = u
      BY <2>1, <2>9, <3>1, <3>2 DEF SetAuthHeader, TokenAnswered
    <3>3. CASE t # u
      BY <2>9, <3>1, <3>3 DEF SetAuthHeader, TokenAnswered
    <3> QED
      BY <3>2, <3>3
  <2> QED
    BY <2>2, <2>3, <2>4, <2>5, <2>6, <2>7, <2>8, <2>9 DEF ThreadStep, Answered, Registration
<1> QED
  BY <1>1, TypeCorrect, PTL DEF Spec
=============================================================================
