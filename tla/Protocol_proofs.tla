-------------------------- MODULE Protocol_proofs --------------------------
(***************************************************************************)
(* Theorems about Protocol, for any callers, bounds and pipe capacity.     *)
(***************************************************************************)
EXTENDS Protocol, TLAPS, SequenceTheorems, FiniteSetTheorems

USE BoundsAssumption, CallersAssumption DEF NoID, Ids, ChanCap

\* What the type of the two kinds of line tells: NoLine is not a line.
LEMMA NoLineIsNone ==
    /\ NoLine \notin Lines
    /\ NoLine.id = 0
    /\ \A line \in Lines : line.id \in Nat /\ line # NoLine
  BY DEF NoLine, Lines

\* The identifiers in use: an idle caller carries none, a caller in a request
\* carries one the counter has reached, and no two callers share one.
IdsOK ==
    /\ \A c \in Callers :
         /\ pc[c] = "idle" => id[c] = NoID
         /\ pc[c] \in {"allocated", "waiting", "returning"} => id[c] # NoID
         /\ id[c] <= requestID
    /\ \A c, d \in Callers : c # d /\ id[c] = id[d] => id[c] = NoID

TypeInv == TypeOK /\ IdsOK

LEMMA TypeInit == Init => TypeInv
<1> SUFFICES ASSUME Init PROVE TypeInv
  OBVIOUS
<1>1. <<>> \in Seq(Lines) /\ Len(<<>>) = 0 /\ <<>> \in Seq(Ids \union {NoID})
  OBVIOUS
<1>2. chan \in [Ids -> Seq(Lines)] /\ \A i \in Ids : Len(chan[i]) <= 1
  BY <1>1 DEF Init
<1>3. requestID \in 0 .. MaxID /\ copies \in [Ids -> 0 .. MaxCopies]
  BY DEF Init
<1>4. toServer \in Seq(Ids \union {NoID}) /\ fromServer \in Seq(Lines)
      /\ Len(toServer) <= PipeCap /\ Len(fromServer) <= PipeCap
  BY <1>1 DEF Init
<1>5. /\ pc \in [Callers -> Labels]
      /\ id \in [Callers -> Ids \union {NoID}]
      /\ got \in [Callers -> Lines \union {NoLine}]
  BY DEF Init, Labels
<1>6. TypeOK
  BY <1>2, <1>3, <1>4, <1>5 DEF Init, TypeOK
<1>7. IdsOK
  BY DEF Init, IdsOK
<1>8. QED
  BY <1>6, <1>7 DEF TypeInv

LEMMA TypeStep == TypeInv /\ [Next]_vars => TypeOK'
<1> SUFFICES ASSUME TypeOK, IdsOK, [Next]_vars
             PROVE  TypeOK'
  BY DEF TypeInv
<1> USE NoLineIsNone DEF TypeOK, Labels, Goto, serverVars
<1>1. ASSUME NEW c \in Callers, NextRequestID(c) PROVE TypeOK'
  <2>1. requestID + 1 \in 1 .. MaxID
    BY <1>1 DEF NextRequestID
  <2>2. requestID' \in 0 .. MaxID /\ id' \in [Callers -> Ids \union {NoID}]
    BY <1>1, <2>1 DEF NextRequestID
  <2>3. pc' \in [Callers -> Labels]
    BY <1>1 DEF NextRequestID
  <2>4. QED
    BY <1>1, <2>2, <2>3 DEF NextRequestID
<1>2. ASSUME NEW c \in Callers, Notify(c) PROVE TypeOK'
  BY <1>2 DEF Notify
<1>3. ASSUME NEW c \in Callers, LockWrite(c) PROVE TypeOK'
  BY <1>3 DEF LockWrite
<1>4. ASSUME NEW c \in Callers, CreateFails(c) PROVE TypeOK'
  BY <1>4 DEF CreateFails
<1>5. ASSUME NEW c \in Callers, Store(c) PROVE TypeOK'
  <2>1. pending' \subseteq Ids
    <3>1. pending' = pending \union {id[c]} /\ id[c] \in Ids
      BY <1>5 DEF Store, IdsOK
    <3> QED
      BY <3>1
  <2>2. pc' \in [Callers -> Labels]
    BY <1>5 DEF Store
  <2>3. QED
    BY <1>5, <2>1, <2>2 DEF Store
<1>6. ASSUME NEW c \in Callers, Write(c) PROVE TypeOK'
  <2>1. toServer' \in Seq(Ids \union {NoID}) /\ Len(toServer') <= PipeCap
    BY <1>6 DEF Write
  <2>2. pc' \in [Callers -> Labels]
    BY <1>6 DEF Write
  <2>3. QED
    BY <1>6, <2>1, <2>2 DEF Write
<1>7. ASSUME NEW c \in Callers, WriteFails(c) PROVE TypeOK'
  BY <1>7 DEF WriteFails
<1>8. ASSUME NEW c \in Callers, Receive(c) PROVE TypeOK'
  <2>1. id[c] \in Ids
    BY <1>8 DEF Receive, IdsOK
  <2>. DEFINE s == chan[id[c]]
  <2>2. s \in Seq(Lines) /\ s # <<>> /\ Len(s) <= 1
    BY <1>8, <2>1 DEF Receive
  <2>. HIDE DEF s
  <2>3. Head(s) \in Lines /\ Tail(s) \in Seq(Lines) /\ Len(Tail(s)) <= 1
    BY <2>2
  <2>4. QED
    BY <1>8, <2>1, <2>3 DEF Receive, s
<1>9. ASSUME NEW c \in Callers, Return(c) PROVE TypeOK'
  BY <1>9 DEF Return
<1>10. ASSUME ReadLine PROVE TypeOK'
  <2>1. Head(fromServer) \in Lines /\ Tail(fromServer) \in Seq(Lines)
        /\ Len(Tail(fromServer)) <= PipeCap
    BY <1>10 DEF ReadLine
  <2>2. QED
    BY <1>10, <2>1 DEF ReadLine, callerVars
<1>11. ASSUME Deliver PROVE TypeOK'
  <2>1. ASSUME held.id \in Ids PROVE TypeOK'
    <3>1. Append(chan[held.id], held) \in Seq(Lines)
          /\ Len(Append(chan[held.id], held)) <= 1
      BY <1>11, <2>1 DEF Deliver
    <3>2. QED
      BY <1>11, <2>1, <3>1 DEF Deliver, callerVars
  <2>2. ASSUME held.id \notin Ids PROVE TypeOK'
    <3>1. chan' = chan
      BY <1>11, <2>2 DEF Deliver
    <3>2. QED
      BY <1>11, <3>1 DEF Deliver, callerVars
  <2>3. QED
    BY <2>1, <2>2
<1>12. ASSUME ReadEOF PROVE TypeOK'
  BY <1>12 DEF ReadEOF, callerVars
<1>13. ASSUME ServerRead PROVE TypeOK'
  <2>1. Head(toServer) \in Ids \union {NoID} /\ Tail(toServer) \in Seq(Ids \union {NoID})
        /\ Len(Tail(toServer)) <= PipeCap
    BY <1>13 DEF ServerRead
  <2>2. QED
    BY <1>13, <2>1 DEF ServerRead, callerVars
<1>14. ASSUME NEW i \in Ids, Answer(i) PROVE TypeOK'
  <2>1. fromServer' \in Seq(Lines) /\ Len(fromServer') <= PipeCap
    <3>1. [kind |-> "response", id |-> i] \in Lines
      BY DEF Lines
    <3>2. /\ fromServer' = Append(fromServer, [kind |-> "response", id |-> i])
          /\ fromServer \in Seq(Lines) /\ Len(fromServer) < PipeCap
      BY <1>14 DEF Answer, Emit
    <3> HIDE DEF TypeOK
    <3> QED
      BY <3>1, <3>2, BoundsAssumption
  <2>2. copies' \in [Ids -> 0 .. MaxCopies]
    <3>1. /\ copies' = [copies EXCEPT ![i] = @ + 1] /\ copies[i] < MaxCopies
          /\ copies \in [Ids -> 0 .. MaxCopies]
      BY <1>14 DEF Answer
    <3>2. copies[i] + 1 \in 0 .. MaxCopies
      BY <3>1, BoundsAssumption
    <3> HIDE DEF TypeOK
    <3> QED
      BY <3>1, <3>2
  <2>3. QED
    BY <1>14, <2>1, <2>2 DEF Answer, callerVars
<1>15. ASSUME NEW i \in ServerIDs, ServerRequest(i) PROVE TypeOK'
  <2>1. fromServer' \in Seq(Lines) /\ Len(fromServer') <= PipeCap
    <3>1. [kind |-> "request", id |-> i] \in Lines
      BY DEF Lines
    <3>2. /\ fromServer' = Append(fromServer, [kind |-> "request", id |-> i])
          /\ fromServer \in Seq(Lines) /\ Len(fromServer) < PipeCap
      BY <1>15 DEF ServerRequest, Emit
    <3> HIDE DEF TypeOK
    <3> QED
      BY <3>1, <3>2, BoundsAssumption
  <2>2. QED
    BY <1>15, <2>1 DEF ServerRequest, callerVars
<1>16. ASSUME Die PROVE TypeOK'
  BY <1>16 DEF Die, callerVars
<1>17. ASSUME UNCHANGED vars PROVE TypeOK'
  BY <1>17 DEF vars, callerVars
<1>18. QED
  BY <1>1, <1>2, <1>3, <1>4, <1>5, <1>6, <1>7, <1>8, <1>9, <1>10, <1>11, <1>12, <1>13,
     <1>14, <1>15, <1>16, <1>17 DEF Next, CallerStep, Reader, Server

LEMMA IdsStep == TypeInv /\ [Next]_vars => IdsOK'
<1> SUFFICES ASSUME TypeOK, IdsOK, [Next]_vars
             PROVE  IdsOK'
  BY DEF TypeInv
<1>1. ASSUME NEW c \in Callers, NextRequestID(c) PROVE IdsOK'
  <2>1. /\ requestID' = requestID + 1 /\ requestID \in Nat
        /\ \A d \in Callers : id'[d] = IF d = c THEN requestID + 1 ELSE id[d]
        /\ \A d \in Callers : pc'[d] = IF d = c THEN "allocated" ELSE pc[d]
    BY <1>1 DEF NextRequestID, Goto, TypeOK
  <2>2. \A d \in Callers : id[d] \in Nat /\ id[d] <= requestID
    BY <2>1 DEF TypeOK, IdsOK
  <2>3. ASSUME NEW d \in Callers
        PROVE  /\ pc'[d] = "idle" => id'[d] = NoID
               /\ pc'[d] \in {"allocated", "waiting", "returning"} => id'[d] # NoID
               /\ id'[d] <= requestID'
    <3>1. CASE d = c
      BY <2>1, <3>1
    <3>2. CASE d # c
      BY <2>1, <2>2, <3>2 DEF IdsOK
    <3>3. QED
      BY <3>1, <3>2
  <2>4. ASSUME NEW d \in Callers, NEW e \in Callers, d # e, id'[d] = id'[e]
        PROVE  id'[d] = NoID
    BY <2>1, <2>2, <2>4 DEF IdsOK
  <2>5. QED
    BY <2>3, <2>4 DEF IdsOK
<1> USE DEF TypeOK, IdsOK, Labels, Goto
<1>2. ASSUME NEW c \in Callers, Notify(c) PROVE IdsOK'
  BY <1>2 DEF Notify
<1>3. ASSUME NEW c \in Callers, LockWrite(c) PROVE IdsOK'
  BY <1>3 DEF LockWrite
<1>4. ASSUME NEW c \in Callers, CreateFails(c) PROVE IdsOK'
  BY <1>4 DEF CreateFails
<1>5. ASSUME NEW c \in Callers, Store(c) PROVE IdsOK'
  BY <1>5 DEF Store
<1>6. ASSUME NEW c \in Callers, Write(c) PROVE IdsOK'
  BY <1>6 DEF Write
<1>7. ASSUME NEW c \in Callers, WriteFails(c) PROVE IdsOK'
  BY <1>7 DEF WriteFails
<1>8. ASSUME NEW c \in Callers, Receive(c) PROVE IdsOK'
  BY <1>8 DEF Receive
<1>9. ASSUME NEW c \in Callers, Return(c) PROVE IdsOK'
  BY <1>9 DEF Return
<1>10. ASSUME UNCHANGED callerVars PROVE IdsOK'
  BY <1>10 DEF callerVars
<1>11. QED
  BY <1>1, <1>2, <1>3, <1>4, <1>5, <1>6, <1>7, <1>8, <1>9, <1>10
  DEF Next, CallerStep, Reader, Server, ReadLine, Deliver, ReadEOF, ServerRead, Die, Answer,
      ServerRequest, vars

\* Every variable of the connection keeps its type, for any number of callers
\* and any bounds: in particular a pending channel never holds two lines.
THEOREM TypeCorrect == Spec => []TypeOK
<1>1. TypeInv /\ [Next]_vars => TypeInv'
  BY TypeStep, IdsStep DEF TypeInv
<1>2. Spec => []TypeInv
  BY TypeInit, <1>1, PTL DEF Spec
<1>3. TypeInv => TypeOK
  BY DEF TypeInv
<1>4. QED
  BY <1>2, <1>3, PTL

-----------------------------------------------------------------------------
(* The table of pending requests.                                          *)

\* What PendingExact says of one identifier.
LEMMA PendingMember ==
    PendingExact <=> \A i : i \in pending <=> \E c \in Callers : Registered(c) /\ id[c] = i
  BY DEF PendingExact

LEMMA PendingStep == TypeInv /\ PendingExact /\ [Next]_vars => PendingExact'
<1> SUFFICES ASSUME TypeOK, IdsOK, [Next]_vars,
                    \A i : i \in pending <=> \E d \in Callers : Registered(d) /\ id[d] = i
             PROVE  (\A i : i \in pending <=> \E d \in Callers : Registered(d) /\ id[d] = i)'
  BY PendingMember DEF TypeInv, PendingExact
<1> DEFINE P == \A i : i \in pending <=> \E d \in Callers : Registered(d) /\ id[d] = i
\* A step that registers and releases nobody.
<1>1. ASSUME pending' = pending,
             \A d \in Callers : Registered(d)' <=> Registered(d),
             \A d \in Callers : Registered(d) => id'[d] = id[d]
      PROVE  P'
  BY <1>1
<1>2. ASSUME NEW c \in Callers,
             pending' = pending, \A d \in Callers \ {c} : pc'[d] = pc[d] /\ id'[d] = id[d],
             Registered(c)' <=> Registered(c), Registered(c) => id'[c] = id[c]
      PROVE  P'
  <2>1. \A d \in Callers : Registered(d)' <=> Registered(d)
    BY <1>2 DEF Registered
  <2>2. \A d \in Callers : Registered(d) => id'[d] = id[d]
    BY <1>2
  <2>3. QED
    BY <1>1, <1>2, <2>1, <2>2
<1>3. ASSUME NEW c \in Callers,
             NextRequestID(c) \/ CreateFails(c) \/ Notify(c) \/ LockWrite(c)
               \/ Write(c) \/ WriteFails(c) \/ Receive(c)
      PROVE  P'
  <2>1. pending' = pending /\ \A d \in Callers \ {c} : pc'[d] = pc[d] /\ id'[d] = id[d]
    BY <1>3 DEF NextRequestID, CreateFails, Notify, LockWrite, Write, WriteFails, Receive, Goto,
                TypeOK
  <2>2. /\ Registered(c)' <=> Registered(c)
        /\ Registered(c) => id'[c] = id[c]
    <3>1. CASE NextRequestID(c) \/ CreateFails(c) \/ Notify(c)
      <4>1. CASE NextRequestID(c)
        BY <4>1 DEF NextRequestID, Goto, TypeOK, IdsOK, Registered
      <4>2. CASE CreateFails(c)
        BY <4>2 DEF CreateFails, Goto, TypeOK, IdsOK, Registered
      <4>3. CASE Notify(c)
        BY <4>3 DEF Notify, Goto, TypeOK, IdsOK, Registered
      <4> QED
        BY <3>1, <4>1, <4>2, <4>3
    <3>2. CASE Write(c) \/ WriteFails(c)
      BY <3>2 DEF Write, WriteFails, Goto, TypeOK, Registered
    <3>3. CASE LockWrite(c) \/ Receive(c)
      BY <3>3 DEF LockWrite, Receive, Goto, TypeOK, Registered
    <3>4. QED
      BY <1>3, <3>1, <3>2, <3>3
  <2>3. QED
    BY <1>2, <2>1, <2>2
<1>4. ASSUME NEW c \in Callers, Store(c) PROVE P'
  <2>1. /\ pending' = pending \union {id[c]} /\ id' = id
        /\ Registered(c)' /\ ~Registered(c)
        /\ \A d \in Callers \ {c} : Registered(d)' <=> Registered(d)
    BY <1>4 DEF Store, Goto, TypeOK, IdsOK, Registered
  <2>2. QED
    BY <2>1
<1>5. ASSUME NEW c \in Callers, Return(c) PROVE P'
  <2>1. /\ pending' = pending \ {id[c]}
        /\ ~Registered(c)' /\ Registered(c)
        /\ \A d \in Callers \ {c} : (Registered(d)' <=> Registered(d)) /\ id'[d] = id[d]
    BY <1>5 DEF Return, Goto, TypeOK, IdsOK, Registered
  <2>2. \A d \in Callers \ {c} : Registered(d) => id[d] # id[c]
    BY <2>1 DEF Registered, IdsOK
  <2>3. QED
    BY <2>1, <2>2
<1>6. ASSUME UNCHANGED callerVars PROVE P'
  <2>1. pending' = pending /\ pc' = pc /\ id' = id
    BY <1>6 DEF callerVars
  <2>2. QED
    BY <1>1, <2>1 DEF Registered
<1>7. QED
  BY <1>3, <1>4, <1>5, <1>6
  DEF Next, CallerStep, Reader, Server, ReadLine, Deliver, ReadEOF, ServerRead, Die, Answer,
      ServerRequest, vars

\* The table of pending requests holds exactly the calls in flight: the entry
\* is there before the request is written and goes with the call that made it.
THEOREM PendingCorrect == Spec => []PendingExact
<1>1. Init => TypeInv /\ PendingExact
  <2>1. Init => PendingExact
    BY DEF Init, PendingExact, Registered
  <2>2. QED
    BY <2>1, TypeInit
<1>2. TypeInv /\ PendingExact /\ [Next]_vars => (TypeInv /\ PendingExact)'
  BY TypeStep, IdsStep, PendingStep DEF TypeInv
<1>3. QED
  BY <1>1, <1>2, PTL DEF Spec

-----------------------------------------------------------------------------
(* What is under way between the callers and the server.                   *)

Unsent(c) == pc[c] \in {"allocated", "locking", "writing"} /\ id[c] # NoID

InToServer(i) == \E k \in 1 .. Len(toServer) : toServer[k] = i

\* The server cannot know, and has not answered, a request that is still to
\* be written: the identifiers it has seen are sent ones.
SentOK ==
    /\ \A i \in Ids : i \in asked \/ InToServer(i) =>
         i <= requestID /\ \A c \in Callers : Unsent(c) => id[c] # i
    /\ \A i \in Ids : copies[i] > 0 => i \in asked

\* Every line between the server's write and the caller's return is one the
\* server wrote, under its own identifier.
LinesOK ==
    /\ \A i \in Ids : chan[i] # <<>> => LinesOf(i) > 0
    /\ held # NoLine => held.id \in Ids /\ LinesOf(held.id) > 0
    /\ \A k \in 1 .. Len(fromServer) : fromServer[k].id \in Ids => LinesOf(fromServer[k].id) > 0

LEMMA SentStep == TypeInv /\ SentOK /\ [Next]_vars => SentOK'
<1> SUFFICES ASSUME TypeOK, IdsOK, SentOK, [Next]_vars
             PROVE  SentOK'
  BY DEF TypeInv
<1>1. ASSUME UNCHANGED <<toServer, asked, copies>>, requestID' = requestID,
             \A d \in Callers : Unsent(d)' => Unsent(d) /\ id'[d] = id[d]
      PROVE  SentOK'
  BY <1>1 DEF SentOK, InToServer
<1>2. ASSUME NEW c \in Callers, NextRequestID(c) PROVE SentOK'
  <2>1. /\ requestID' = requestID + 1 /\ requestID \in Nat
        /\ id'[c] = requestID + 1
        /\ \A d \in Callers \ {c} : pc'[d] = pc[d] /\ id'[d] = id[d]
        /\ UNCHANGED <<toServer, asked, copies>>
    BY <1>2 DEF NextRequestID, Goto, TypeOK, serverVars
  <2>2. ASSUME NEW i \in Ids, i \in asked \/ InToServer(i)
        PROVE  i <= requestID' /\ \A d \in Callers : Unsent(d)' => id'[d] # i
    <3>1. i <= requestID /\ \A d \in Callers : Unsent(d) => id[d] # i
      BY <2>2 DEF SentOK
    <3>2. QED
      BY <2>1, <3>1 DEF Unsent
  <2>3. QED
    BY <2>1, <2>2 DEF SentOK, InToServer
<1>3. ASSUME NEW c \in Callers,
             CreateFails(c) \/ Store(c) \/ Notify(c) \/ LockWrite(c)
               \/ WriteFails(c) \/ Receive(c) \/ Return(c)
      PROVE  SentOK'
  <2>1. UNCHANGED <<toServer, asked, copies, requestID>>
    BY <1>3 DEF CreateFails, Store, Notify, LockWrite, WriteFails, Receive, Return, serverVars
  <2>2. \A d \in Callers : Unsent(d)' => Unsent(d) /\ id'[d] = id[d]
    <3>1. CASE CreateFails(c)
      BY <3>1 DEF CreateFails, Goto, TypeOK, IdsOK, Unsent
    <3>2. CASE Store(c)
      BY <3>2 DEF Store, Goto, TypeOK, IdsOK, Unsent
    <3>3. CASE Notify(c)
      BY <3>3 DEF Notify, Goto, TypeOK, IdsOK, Unsent
    <3>4. CASE LockWrite(c)
      BY <3>4 DEF LockWrite, Goto, TypeOK, IdsOK, Unsent
    <3>5. CASE WriteFails(c)
      BY <3>5 DEF WriteFails, Goto, TypeOK, IdsOK, Unsent
    <3>6. CASE Receive(c)
      BY <3>6 DEF Receive, Goto, TypeOK, IdsOK, Unsent
    <3>7. CASE Return(c)
      BY <3>7 DEF Return, Goto, TypeOK, IdsOK, Unsent
    <3> QED
      BY <1>3, <3>1, <3>2, <3>3, <3>4, <3>5, <3>6, <3>7
  <2>3. QED
    BY <1>1, <2>1, <2>2
<1>4. ASSUME NEW c \in Callers, Write(c) PROVE SentOK'
  <2>1. /\ toServer' = Append(toServer, id[c]) /\ id' = id
        /\ UNCHANGED <<asked, copies, requestID>>
        /\ ~Unsent(c)' /\ \A d \in Callers \ {c} : Unsent(d)' <=> Unsent(d)
        /\ pc[c] = "writing"
    BY <1>4 DEF Write, Goto, TypeOK, serverVars, Unsent
  <2>2. ASSUME NEW i \in Ids, InToServer(i)' PROVE InToServer(i) \/ i = id[c]
    <3>1. PICK k \in 1 .. Len(Append(toServer, id[c])) : Append(toServer, id[c])[k] = i
      BY <2>1, <2>2 DEF InToServer
    <3>2. toServer \in Seq(Ids \union {NoID}) /\ id[c] \in Ids \union {NoID}
      BY DEF TypeOK
    <3>3. (k \in 1 .. Len(toServer) /\ toServer[k] = i) \/ id[c] = i
      BY <3>1, <3>2
    <3>4. QED
      BY <3>3 DEF InToServer
  <2>3. ASSUME NEW d \in Callers, Unsent(d)' PROVE Unsent(d) /\ id[d] # id[c]
    BY <2>1, <2>3 DEF IdsOK, Unsent
  <2>4. id[c] <= requestID
    BY DEF IdsOK
  <2>5. QED
    BY <2>1, <2>2, <2>3, <2>4 DEF SentOK
<1>5. ASSUME ServerRead PROVE SentOK'
  <2>1. /\ toServer # <<>> /\ toServer' = Tail(toServer)
        /\ asked' = asked \union ({Head(toServer)} \ {NoID})
        /\ UNCHANGED <<requestID, pc, id, copies>>
    BY <1>5 DEF ServerRead, callerVars
  <2>2. ASSUME NEW i \in Ids, InToServer(i)' PROVE InToServer(i)
    BY <2>1, <2>2 DEF InToServer, TypeOK
  <2>3. ASSUME NEW i \in Ids, i = Head(toServer) PROVE InToServer(i)
    BY <2>1, <2>3 DEF InToServer, TypeOK
  <2>4. QED
    BY <2>1, <2>2, <2>3 DEF SentOK, Unsent
<1>6. ASSUME NEW i \in Ids, Answer(i) PROVE SentOK'
  <2>1. /\ i \in asked /\ UNCHANGED <<toServer, asked, requestID, pc, id>>
        /\ \A j \in Ids : j # i => copies'[j] = copies[j]
    BY <1>6 DEF Answer, callerVars, TypeOK
  <2>2. QED
    BY <2>1 DEF SentOK, InToServer, Unsent
<1>7. ASSUME UNCHANGED <<callerVars, toServer, asked, copies>> PROVE SentOK'
  BY <1>1, <1>7 DEF callerVars, Unsent
<1>8. QED
  BY <1>2, <1>3, <1>4, <1>5, <1>6, <1>7
  DEF Next, CallerStep, Reader, Server, ReadLine, Deliver, ReadEOF, Die, ServerRequest, vars,
      serverVars

LEMMA LinesStep == TypeInv /\ LinesOK /\ [Next]_vars => LinesOK'
<1> SUFFICES ASSUME TypeOK, IdsOK, LinesOK, [Next]_vars
             PROVE  LinesOK'
  BY DEF TypeInv
<1>1. ASSUME UNCHANGED <<chan, held, fromServer, copies, spoken>> PROVE LinesOK'
  BY <1>1 DEF LinesOK, LinesOf
<1>2. ASSUME NEW c \in Callers, Receive(c) PROVE LinesOK'
  <2>1. /\ chan[id[c]] # <<>> /\ chan' = [chan EXCEPT ![id[c]] = Tail(@)]
        /\ UNCHANGED <<held, fromServer, copies, spoken>>
    BY <1>2 DEF Receive, serverVars
  <2>2. \A i \in Ids : chan'[i] # <<>> => chan[i] # <<>>
    BY <2>1 DEF TypeOK
  <2>3. QED
    BY <2>1, <2>2 DEF LinesOK, LinesOf
<1>3. ASSUME ReadLine PROVE LinesOK'
  <2>1. /\ fromServer # <<>> /\ fromServer' = Tail(fromServer)
        /\ held' = IF Head(fromServer).id \in pending THEN Head(fromServer) ELSE NoLine
        /\ UNCHANGED <<chan, copies, spoken>>
    BY <1>3 DEF ReadLine, serverVars
  <2>2. fromServer \in Seq(Lines) /\ pending \subseteq Ids
    BY DEF TypeOK
  <2>3. \A k \in 1 .. Len(Tail(fromServer)) :
          k + 1 \in 1 .. Len(fromServer) /\ Tail(fromServer)[k] = fromServer[k + 1]
    BY <2>1, <2>2
  <2>4. 1 \in 1 .. Len(fromServer) /\ Head(fromServer) = fromServer[1]
    BY <2>1, <2>2
  <2>5. (\A k \in 1 .. Len(fromServer) :
            fromServer[k].id \in Ids => LinesOf(fromServer[k].id) > 0)'
    BY <2>1, <2>3 DEF LinesOK, LinesOf
  <2>6. held' # NoLine => held'.id \in Ids /\ LinesOf(held'.id) > 0
    BY <2>1, <2>2, <2>4 DEF LinesOK
  <2>7. QED
    BY <2>1, <2>5, <2>6 DEF LinesOK, LinesOf
<1>4. ASSUME Deliver PROVE LinesOK'
  <2>1. /\ held # NoLine /\ chan' = [chan EXCEPT ![held.id] = Append(@, held)]
        /\ held' = NoLine
        /\ UNCHANGED <<fromServer, copies, spoken>>
    BY <1>4 DEF Deliver, serverVars
  <2>2. \A i \in Ids : i # held.id => chan'[i] = chan[i]
    BY <2>1 DEF TypeOK
  <2>3. QED
    BY <2>1, <2>2 DEF LinesOK, LinesOf
\* The server writes a line of identifier i: the count of i grows.
<1>5. ASSUME NEW i \in Ids \union {NoID}, NEW line \in Lines, line.id = i,
             fromServer' = Append(fromServer, line), UNCHANGED <<chan, held>>,
             \A j \in Ids : LinesOf(j)' >= LinesOf(j),
             i \in Ids => LinesOf(i)' > 0
      PROVE  LinesOK'
  <2>1. \A j \in Ids : LinesOf(j) \in Nat
    BY DEF LinesOf, TypeOK
  <2>2. \A j \in Ids : LinesOf(j)' \in Int
    <3>1. copies' \in [Ids -> 0 .. MaxCopies]
      BY TypeStep DEF TypeInv, TypeOK
    <3>2. QED
      BY <3>1 DEF LinesOf
  <2>3. \A j \in Ids : LinesOf(j) > 0 => LinesOf(j)' > 0
    BY <1>5, <2>1, <2>2
  <2>4. ASSUME NEW k \in 1 .. Len(Append(fromServer, line)), Append(fromServer, line)[k].id \in Ids
        PROVE  LinesOf(Append(fromServer, line)[k].id)' > 0
    <3>1. fromServer \in Seq(Lines)
      BY DEF TypeOK
    <3>2. \/ k \in 1 .. Len(fromServer) /\ Append(fromServer, line)[k] = fromServer[k]
          \/ Append(fromServer, line)[k] = line
      BY <3>1
    <3>3. QED
      BY <1>5, <2>3, <2>4, <3>2 DEF LinesOK, LinesOf
  <2>5. QED
    BY <1>5, <2>3, <2>4 DEF LinesOK, LinesOf
<1>6. ASSUME NEW i \in Ids, Answer(i) PROVE LinesOK'
  <2>1. /\ fromServer' = Append(fromServer, [kind |-> "response", id |-> i])
        /\ UNCHANGED <<chan, held, spoken>>
        /\ copies[i] \in Nat /\ copies'[i] = copies[i] + 1
        /\ \A j \in Ids \ {i} : copies'[j] = copies[j]
    BY <1>6 DEF Answer, Emit, TypeOK
  <2>2. \A j \in Ids : copies[j] \in Nat
    BY DEF TypeOK
  <2>3. /\ \A j \in Ids : LinesOf(j)' >= LinesOf(j)
        /\ LinesOf(i)' > 0
    BY <2>1, <2>2 DEF LinesOf
  <2>4. [kind |-> "response", id |-> i] \in Lines
    BY DEF Lines
  <2>5. QED
    BY <1>5, <2>1, <2>3, <2>4
<1>7. ASSUME NEW i \in ServerIDs, ServerRequest(i) PROVE LinesOK'
  <2>1. /\ fromServer' = Append(fromServer, [kind |-> "request", id |-> i])
        /\ UNCHANGED <<chan, held, copies>> /\ spoken' = spoken \union {i}
    BY <1>7 DEF ServerRequest, Emit
  <2>2. \A j \in Ids : copies[j] \in Nat
    BY DEF TypeOK
  <2>3. /\ \A j \in Ids : LinesOf(j)' >= LinesOf(j)
        /\ i \in Ids => LinesOf(i)' > 0
    BY <2>1, <2>2 DEF LinesOf
  <2>4. i \in Ids \union {NoID} /\ [kind |-> "request", id |-> i] \in Lines
    BY DEF Lines
  <2>5. QED
    BY <1>5, <2>1, <2>3, <2>4
<1>8. QED
  BY <1>1, <1>2, <1>3, <1>4, <1>6, <1>7
  DEF Next, CallerStep, Reader, Server, NextRequestID, Notify, LockWrite, CreateFails, Store,
      Write, WriteFails, Return, ReadEOF, ServerRead, Die, vars, serverVars

-----------------------------------------------------------------------------
(* No response is lost.                                                    *)

IInv == TypeInv /\ PendingExact /\ SentOK /\ LinesOK

LEMMA IInvInit == Init => IInv
<1> SUFFICES ASSUME Init PROVE IInv
  OBVIOUS
<1>1. PendingExact
  BY DEF Init, PendingExact, Registered
<1>2. SentOK
  BY DEF Init, SentOK, InToServer
<1>3. LinesOK
  BY DEF Init, LinesOK
<1>4. QED
  BY TypeInit, <1>1, <1>2, <1>3 DEF IInv

LEMMA IInvStep == IInv /\ [Next]_vars => IInv'
  BY TypeStep, IdsStep, PendingStep, SentStep, LinesStep DEF IInv, TypeInv

\* A response to request i is on its way to the caller.
UnderWay(i) ==
    \/ chan[i] # <<>>
    \/ held.id = i
    \/ \E k \in 1 .. Len(fromServer) : fromServer[k] = [kind |-> "response", id |-> i]

LEMMA NoLostStep == IInv /\ NoLostResponse /\ [Next]_vars => NoLostResponse'
<1> SUFFICES ASSUME IInv, [Next]_vars, NEW c \in Callers, TypeOK, IdsOK,
                    pc[c] = "waiting" /\ copies[id[c]] > 0 => UnderWay(id[c]),
                    pc'[c] = "waiting", copies'[id'[c]] > 0
             PROVE  UnderWay(id[c])' /\ id'[c] = id[c]
  BY DEF NoLostResponse, UnderWay, IInv, TypeInv
\* Between two states in which c waits, c did not move.
<1>1. CASE pc[c] = "waiting"
  <2>1. id'[c] = id[c] /\ ~Receive(c)
    BY <1>1 DEF Next, CallerStep, Reader, Server, NextRequestID, Notify, LockWrite, CreateFails,
       Store, Write, WriteFails, Receive, Return, Goto, ReadLine, Deliver, ReadEOF, ServerRead,
       Die, Answer, ServerRequest, vars, callerVars, TypeOK
  <2>2. id[c] \in Ids /\ id[c] \in pending /\ NoLine.id # id[c]
    BY <1>1 DEF IInv, PendingExact, Registered, IdsOK, TypeOK, NoLine
  <2>3. ASSUME UNCHANGED <<chan, held, fromServer, copies>> PROVE UnderWay(id[c])'
    BY <1>1, <2>1, <2>3 DEF UnderWay
  <2>4. ASSUME NEW d \in Callers, Receive(d) PROVE UnderWay(id[c])'
    <3>1. /\ chan' = [chan EXCEPT ![id[d]] = Tail(@)] /\ d # c /\ id[d] # id[c]
          /\ UNCHANGED <<held, fromServer, copies>>
      BY <2>1, <2>2, <2>4 DEF Receive, IdsOK, serverVars
    <3>2. chan'[id[c]] = chan[id[c]]
      BY <3>1, <2>2 DEF TypeOK
    <3>3. QED
      BY <1>1, <2>1, <3>1, <3>2 DEF UnderWay
  <2>5. ASSUME ReadLine PROVE UnderWay(id[c])'
    <3>1. /\ held = NoLine /\ fromServer # <<>> /\ fromServer' = Tail(fromServer)
          /\ held' = IF Head(fromServer).id \in pending THEN Head(fromServer) ELSE NoLine
          /\ UNCHANGED <<chan, copies>>
      BY <2>5 DEF ReadLine, serverVars
    <3>2. chan[id[c]] # <<>> \/ \E k \in 1 .. Len(fromServer) :
            fromServer[k] = [kind |-> "response", id |-> id[c]]
      BY <1>1, <2>1, <2>2, <3>1 DEF UnderWay
    <3>3. ASSUME NEW k \in 1 .. Len(fromServer),
                 fromServer[k] = [kind |-> "response", id |-> id[c]]
          PROVE  UnderWay(id[c])'
      <4>1. fromServer \in Seq(Lines)
        BY DEF TypeOK
      <4>2. CASE k = 1
        <5>1. Head(fromServer) = [kind |-> "response", id |-> id[c]]
          BY <3>3, <4>1, <4>2
        <5>2. held'.id = id[c]
          BY <2>2, <3>1, <5>1
        <5>3. QED
          BY <2>1, <5>2 DEF UnderWay
      <4>3. CASE k # 1
        <5>1. k - 1 \in 1 .. Len(Tail(fromServer)) /\ Tail(fromServer)[k - 1] = fromServer[k]
          BY <3>1, <4>1, <4>3
        <5>2. QED
          BY <2>1, <3>1, <3>3, <5>1 DEF UnderWay
      <4>4. QED
        BY <4>2, <4>3
    <3>4. QED
      BY <2>1, <3>1, <3>2, <3>3 DEF UnderWay
  <2>6. ASSUME Deliver PROVE UnderWay(id[c])'
    <3>1. /\ chan' = [chan EXCEPT ![held.id] = Append(@, held)]
          /\ held.id \in Ids /\ held \in Lines
          /\ UNCHANGED <<fromServer, copies>>
      BY <2>6 DEF Deliver, IInv, LinesOK, TypeOK, serverVars
    <3>2. chan[id[c]] \in Seq(Lines) /\ Append(chan[id[c]], held) # <<>>
      <4>1. chan[id[c]] \in Seq(Lines)
        BY <2>2 DEF TypeOK
      <4>2. QED
        BY <3>1, <4>1, AppendProperties
    <3>3. chan'[id[c]] = IF held.id = id[c] THEN Append(chan[id[c]], held) ELSE chan[id[c]]
      BY <2>2, <3>1 DEF TypeOK
    <3>4. QED
      BY <1>1, <2>1, <3>1, <3>2, <3>3 DEF UnderWay
  <2>7. ASSUME NEW i \in Ids, Answer(i) PROVE UnderWay(id[c])'
    <3>1. /\ fromServer' = Append(fromServer, [kind |-> "response", id |-> i])
          /\ UNCHANGED <<chan, held>>
          /\ \A j \in Ids \ {i} : copies'[j] = copies[j]
      BY <2>7 DEF Answer, Emit, TypeOK
    <3>2. /\ \A k \in 1 .. Len(fromServer) : k \in 1 .. Len(fromServer') /\ fromServer'[k] = fromServer[k]
          /\ Len(fromServer') \in 1 .. Len(fromServer')
          /\ fromServer'[Len(fromServer')] = [kind |-> "response", id |-> i]
      <4>1. fromServer \in Seq(Lines) /\ [kind |-> "response", id |-> i] \in Lines
        BY DEF TypeOK, Lines
      <4> QED
        BY <3>1, <4>1, AppendProperties
    <3>3. CASE i = id[c]
      BY <2>1, <3>2, <3>3 DEF UnderWay
    <3>4. CASE i # id[c]
      <4>1. UnderWay(id[c])
        BY <1>1, <2>1, <2>2, <3>1, <3>4
      <4>2. QED
        BY <2>1, <3>1, <3>2, <4>1 DEF UnderWay
    <3>5. QED
      BY <3>3, <3>4
  <2>8. ASSUME NEW i \in ServerIDs, ServerRequest(i) PROVE UnderWay(id[c])'
    <3>1. /\ fromServer' = Append(fromServer, [kind |-> "request", id |-> i])
          /\ UNCHANGED <<chan, held, copies>>
      BY <2>8 DEF ServerRequest, Emit
    <3>2. \A k \in 1 .. Len(fromServer) : k \in 1 .. Len(fromServer') /\ fromServer'[k] = fromServer[k]
      BY <3>1 DEF TypeOK, Lines
    <3>3. QED
      BY <1>1, <2>1, <3>1, <3>2 DEF UnderWay
  <2>9. QED
    BY <2>1, <2>3, <2>4, <2>5, <2>6, <2>7, <2>8
    DEF Next, CallerStep, Reader, Server, NextRequestID, Notify, LockWrite, CreateFails, Store,
        Write, WriteFails, Return, ReadEOF, ServerRead, Die, vars, serverVars
\* A call begins to wait before its request can have been answered.
<1>2. CASE pc[c] # "waiting"
  <2>1. Write(c)
    <3>1. CASE Reader \/ Server \/ UNCHANGED vars
      <4>1. UNCHANGED pc
        BY <3>1 DEF Reader, Server, ReadLine, Deliver, ReadEOF, ServerRead, Die, Answer,
             ServerRequest, vars, callerVars
      <4> QED
        BY <1>2, <4>1
    <3>2. ASSUME NEW d \in Callers,
                 NextRequestID(d) \/ Notify(d) \/ LockWrite(d) \/ CreateFails(d) \/ Store(d)
                   \/ WriteFails(d) \/ Receive(d) \/ Return(d)
          PROVE  FALSE
      <4>1. \E l \in Labels \ {"waiting"} : pc' = [pc EXCEPT ![d] = l]
        BY <3>2 DEF NextRequestID, Notify, LockWrite, CreateFails, Store, WriteFails, Receive,
             Return, Goto, Labels
      <4> QED
        BY <1>2, <4>1 DEF TypeOK
    <3>3. ASSUME NEW d \in Callers, Write(d) PROVE d = c
      BY <1>2, <3>3 DEF Write, Goto, TypeOK
    <3> QED
      BY <3>1, <3>2, <3>3 DEF Next, CallerStep
  <2>2. pc[c] = "writing" /\ id[c] \in Ids /\ id' = id /\ copies' = copies
    BY <2>1 DEF Write, Goto, TypeOK, serverVars
  <2>3. id[c] \in asked
    BY <2>2 DEF IInv, SentOK
  <2>4. QED
    BY <2>2, <2>3 DEF IInv, SentOK, Unsent
<1>3. QED
  BY <1>1, <1>2

\* While a call waits, a response the server wrote for it is in the pipe, in
\* the reader's hands or in its channel: SendRequest stores the channel before
\* it writes the request, so the reader finds it.
THEOREM NoResponseLost == Spec => []NoLostResponse
<1>1. Init => IInv /\ NoLostResponse
  BY IInvInit DEF Init, NoLostResponse
<1>2. IInv /\ NoLostResponse /\ [Next]_vars => (IInv /\ NoLostResponse)'
  BY IInvStep, NoLostStep
<1>3. QED
  BY <1>1, <1>2, PTL DEF Spec

-----------------------------------------------------------------------------
(* What it takes to wedge the reader.                                      *)

Positions(q, i) == {k \in 1 .. Len(q) : q[k].id = i}
InPipe(i) == Cardinality(Positions(fromServer, i))
InHand(i) == IF held.id = i THEN 1 ELSE 0
Waits(i) == \E c \in Callers : pc[c] = "waiting" /\ id[c] = i

\* A request that was sent and is awaited no more has had its line.
Taken(i) == IF (i \in asked \/ InToServer(i)) /\ ~Waits(i) THEN 1 ELSE 0

\* No line is counted twice on its way from the server to the call.
Balance == \A i \in Ids : InPipe(i) + InHand(i) + Len(chan[i]) + Taken(i) <= LinesOf(i)

LEMMA FinitePositions ==
    ASSUME NEW q \in Seq(Lines), NEW i
    PROVE  IsFiniteSet(Positions(q, i)) /\ Cardinality(Positions(q, i)) \in Nat
<1>1. IsFiniteSet(1 .. Len(q))
  BY FS_Interval
<1>2. Positions(q, i) \in SUBSET (1 .. Len(q))
  BY DEF Positions
<1> QED
  BY <1>1, <1>2, FS_Subset, FS_CardinalityType

\* The server's writing adds one line, of one identifier.
LEMMA PositionsAppend ==
    ASSUME NEW q \in Seq(Lines), NEW line \in Lines, NEW i
    PROVE  Cardinality(Positions(Append(q, line), i))
             = Cardinality(Positions(q, i)) + (IF line.id = i THEN 1 ELSE 0)
<1>1. /\ Len(Append(q, line)) = Len(q) + 1
      /\ \A k \in 1 .. Len(q) : Append(q, line)[k] = q[k]
      /\ Append(q, line)[Len(q) + 1] = line
  BY AppendProperties
<1>2. Len(q) \in Nat
  OBVIOUS
<1>3. CASE line.id = i
  <2>1. Positions(Append(q, line), i) = Positions(q, i) \union {Len(q) + 1}
    BY <1>1, <1>2, <1>3 DEF Positions
  <2>2. Len(q) + 1 \notin Positions(q, i)
    BY <1>2 DEF Positions
  <2> QED
    <3>1. IsFiniteSet(Positions(q, i)) /\ Cardinality(Positions(q, i)) \in Nat
      BY FinitePositions
    <3>2. Cardinality(Positions(q, i) \union {Len(q) + 1}) = Cardinality(Positions(q, i)) + 1
      BY <2>2, <3>1, FS_AddElement
    <3> QED
      BY <1>3, <2>1, <3>1, <3>2
<1>4. CASE line.id # i
  <2>1. Positions(Append(q, line), i) = Positions(q, i)
    BY <1>1, <1>2, <1>4 DEF Positions
  <2> QED
    BY <1>4, <2>1, FinitePositions
<1> QED
  BY <1>3, <1>4

\* The reader takes one line, of one identifier.
LEMMA PositionsTail ==
    ASSUME NEW q \in Seq(Lines), q # <<>>, NEW i
    PROVE  Cardinality(Positions(Tail(q), i)) + (IF Head(q).id = i THEN 1 ELSE 0)
             <= Cardinality(Positions(q, i))
<1> DEFINE S == Positions(q, i) \ {1}
           T == Positions(Tail(q), i)
           shift == [k \in S |-> k - 1]
<1>1. /\ Len(q) \in Nat \ {0} /\ Head(q) = q[1] /\ Len(Tail(q)) = Len(q) - 1
      /\ \A k \in 1 .. Len(q) - 1 : Tail(q)[k] = q[k + 1]
  BY HeadTailProperties, EmptySeq
<1>2. Head(q).id = i <=> 1 \in Positions(q, i)
  BY <1>1 DEF Positions
<1>3. /\ IsFiniteSet(S)
      /\ Cardinality(S) = Cardinality(Positions(q, i)) - (IF Head(q).id = i THEN 1 ELSE 0)
  BY <1>2, FinitePositions, FS_RemoveElement
<1>4. shift \in Surjection(S, T)
  <2>1. \A k \in S : k - 1 \in T
    BY <1>1 DEF Positions
  <2>2. \A k \in T : k + 1 \in S /\ (k + 1) - 1 = k
    BY <1>1 DEF Positions
  <2> HIDE DEF S, T
  <2> QED
    BY <2>1, <2>2 DEF Surjection
<1>5. Cardinality(T) <= Cardinality(S)
  BY <1>3, <1>4, FS_Surjection
<1>6. Cardinality(T) \in Nat /\ Cardinality(Positions(q, i)) \in Nat
  <2>1. Tail(q) \in Seq(Lines)
    BY HeadTailProperties
  <2> QED
    BY <2>1, FinitePositions
<1> HIDE DEF S, T
<1>7. Cardinality(T) + (IF Head(q).id = i THEN 1 ELSE 0) <= Cardinality(Positions(q, i))
  BY <1>3, <1>5, <1>6
<1> QED
  BY <1>7 DEF T

\* The terms of the balance are numbers.
LEMMA BalanceTypes ==
    ASSUME TypeOK, NEW i \in Ids
    PROVE  InPipe(i) \in Nat /\ InHand(i) \in Nat /\ Len(chan[i]) \in Nat /\ Taken(i) \in {0, 1}
           /\ LinesOf(i) \in Nat
<1>1. InPipe(i) \in Nat
  BY FinitePositions DEF TypeOK, InPipe
<1>2. Len(chan[i]) \in Nat
  <2>1. chan[i] \in Seq(Lines)
    BY DEF TypeOK
  <2> QED
    BY <2>1
<1>3. LinesOf(i) \in Nat
  <2>1. copies[i] \in 0 .. MaxCopies
    BY DEF TypeOK
  <2>2. copies[i] \in Nat
    BY <2>1
  <2> QED
    BY <2>2 DEF LinesOf
<1> QED
  BY <1>1, <1>2, <1>3 DEF InHand, Taken

LEMMA BalanceInit == Init => Balance
<1> SUFFICES ASSUME Init, NEW i \in Ids
             PROVE  InPipe(i) + InHand(i) + Len(chan[i]) + Taken(i) <= LinesOf(i)
  BY DEF Balance
<1>1. TypeOK
  BY TypeInit DEF TypeInv
<1>2. InPipe(i) = 0
  <2>1. Positions(fromServer, i) = {}
    BY DEF Init, Positions
  <2> QED
    BY <2>1, FS_EmptySet DEF InPipe
<1>3. InHand(i) = 0 /\ Len(chan[i]) = 0 /\ Taken(i) = 0
  BY DEF Init, InHand, Taken, InToServer, NoLine
<1> QED
  BY <1>1, <1>2, <1>3, BalanceTypes

LEMMA BalanceStep == IInv /\ Balance /\ [Next]_vars => Balance'
<1> SUFFICES ASSUME TypeOK, TypeOK', IdsOK, SentOK, LinesOK, Balance, [Next]_vars, NEW i \in Ids
             PROVE  InPipe(i)' + InHand(i)' + Len(chan'[i]) + Taken(i)' <= LinesOf(i)'
  BY IInvStep DEF IInv, TypeInv, Balance
<1>1. InPipe(i) + InHand(i) + Len(chan[i]) + Taken(i) <= LinesOf(i)
  BY DEF Balance
<1>2. /\ InPipe(i) \in Nat /\ InHand(i) \in Nat /\ Len(chan[i]) \in Nat /\ Taken(i) \in {0, 1}
      /\ LinesOf(i) \in Nat
  BY BalanceTypes
<1>3. /\ InPipe(i)' \in Nat /\ InHand(i)' \in Nat /\ Len(chan'[i]) \in Nat /\ Taken(i)' \in {0, 1}
      /\ LinesOf(i)' \in Nat
  <2>1. InPipe(i)' \in Nat
    BY FinitePositions DEF TypeOK, InPipe
  <2>2. Len(chan'[i]) \in Nat
    <3>1. chan'[i] \in Seq(Lines)
      BY DEF TypeOK
    <3> QED
      BY <3>1
  <2>3. LinesOf(i)' \in Nat
    <3>1. copies'[i] \in 0 .. MaxCopies
      BY DEF TypeOK
    <3>2. copies'[i] \in Nat
      BY <3>1
    <3> QED
      BY <3>2 DEF LinesOf
  <2> QED
    BY <2>1, <2>2, <2>3 DEF InHand, Taken
\* A step that moves no line may only begin or go on waiting.
<1>4. ASSUME UNCHANGED <<fromServer, held, chan, copies, spoken>>, Taken(i)' <= Taken(i)
      PROVE  InPipe(i)' + InHand(i)' + Len(chan'[i]) + Taken(i)' <= LinesOf(i)'
  <2>1. InPipe(i)' = InPipe(i) /\ InHand(i)' = InHand(i) /\ LinesOf(i)' = LinesOf(i)
    BY <1>4 DEF InPipe, InHand, LinesOf, Positions
  <2> QED
    BY <1>1, <1>2, <1>3, <1>4, <2>1
<1>5. ASSUME NEW c \in Callers,
             NextRequestID(c) \/ CreateFails(c) \/ Store(c) \/ Notify(c) \/ LockWrite(c)
               \/ WriteFails(c) \/ Return(c)
      PROVE  UNCHANGED <<fromServer, held, chan, copies, spoken>> /\ Taken(i)' = Taken(i)
  <2>1. UNCHANGED <<fromServer, held, chan, copies, spoken, asked, toServer>>
    BY <1>5 DEF NextRequestID, CreateFails, Store, Notify, LockWrite, WriteFails, Return,
         serverVars
  <2>2. /\ pc[c] # "waiting" /\ pc'[c] # "waiting"
        /\ \A d \in Callers \ {c} : UNCHANGED <<pc[d], id[d]>>
    BY <1>5 DEF NextRequestID, CreateFails, Store, Notify, LockWrite, WriteFails, Return, Goto,
         TypeOK
  <2>3. Waits(i)' <=> Waits(i)
    BY <2>2 DEF Waits
  <2> QED
    BY <2>1, <2>3 DEF Taken, InToServer
<1>6. ASSUME NEW c \in Callers, Write(c)
      PROVE  UNCHANGED <<fromServer, held, chan, copies, spoken>> /\ Taken(i)' <= Taken(i)
  <2>1. /\ UNCHANGED <<fromServer, held, chan, copies, spoken, asked, id>>
        /\ toServer' = Append(toServer, id[c]) /\ pc[c] = "writing"
        /\ \A d \in Callers \ {c} : pc'[d] = pc[d]
        /\ id[c] = i => pc'[c] = "waiting"
    BY <1>6 DEF Write, Goto, TypeOK, serverVars
  <2>2. Waits(i) \/ id[c] = i => Waits(i)'
    BY <2>1 DEF Waits
  <2>3. ASSUME InToServer(i)', id[c] # i PROVE InToServer(i)
    <3>1. toServer \in Seq(Ids \union {NoID}) /\ id[c] \in Ids \union {NoID}
      BY DEF TypeOK
    <3>2. PICK k \in 1 .. Len(toServer') : toServer'[k] = i
      BY <2>3 DEF InToServer
    <3>3. k \in 1 .. Len(toServer) /\ toServer[k] = i
      BY <2>1, <2>3, <3>1, <3>2, AppendProperties
    <3> QED
      BY <3>3 DEF InToServer
  <2> QED
    BY <1>2, <1>3, <2>1, <2>2, <2>3 DEF Taken
\* The call takes one line and has had it.
<1>7. ASSUME NEW c \in Callers, Receive(c)
      PROVE  InPipe(i)' + InHand(i)' + Len(chan'[i]) + Taken(i)' <= LinesOf(i)'
  <2>1. /\ UNCHANGED <<fromServer, held, copies, spoken, asked, toServer, id>>
        /\ pc[c] = "waiting" /\ chan[id[c]] # <<>> /\ id[c] \in Ids
        /\ chan' = [chan EXCEPT ![id[c]] = Tail(@)]
        /\ pc' = [pc EXCEPT ![c] = "returning"]
    BY <1>7 DEF Receive, Goto, TypeOK, IdsOK, serverVars
  <2>2. CASE i = id[c]
    <3>1. chan[i] \in Seq(Lines)
      BY DEF TypeOK
    <3>2. Len(chan'[i]) = Len(chan[i]) - 1
      <4>1. chan'[i] = Tail(chan[i])
        BY <2>1, <2>2 DEF TypeOK
      <4> QED
        BY <2>1, <2>2, <3>1, <4>1, HeadTailProperties
    <3>3. Taken(i) = 0
      BY <2>1, <2>2 DEF Taken, Waits
    <3>4. InPipe(i)' = InPipe(i) /\ InHand(i)' = InHand(i) /\ LinesOf(i)' = LinesOf(i)
      BY <2>1 DEF InPipe, InHand, LinesOf, Positions
    <3> QED
      BY <1>1, <1>2, <1>3, <3>2, <3>3, <3>4
  <2>3. CASE i # id[c]
    <3>1. Len(chan'[i]) = Len(chan[i])
      BY <2>1, <2>3 DEF TypeOK
    <3>2. Waits(i)' <=> Waits(i)
      BY <2>1, <2>3 DEF Waits, TypeOK
    <3>3. Taken(i)' = Taken(i)
      BY <2>1, <3>2 DEF Taken, InToServer
    <3>4. InPipe(i)' = InPipe(i) /\ InHand(i)' = InHand(i) /\ LinesOf(i)' = LinesOf(i)
      BY <2>1 DEF InPipe, InHand, LinesOf, Positions
    <3> QED
      BY <1>1, <1>2, <3>1, <3>3, <3>4
  <2> QED
    BY <2>2, <2>3
<1>8. ASSUME UNCHANGED <<pc, id, asked, toServer>> PROVE Taken(i)' = Taken(i)
  BY <1>8 DEF Taken, Waits, InToServer
<1>9. CASE ReadLine
  <2>1. /\ UNCHANGED <<chan, copies, spoken, pc, id, asked, toServer>>
        /\ held = NoLine /\ fromServer # <<>> /\ fromServer' = Tail(fromServer)
        /\ held' \in {Head(fromServer), NoLine}
    BY <1>9 DEF ReadLine, callerVars, serverVars
  <2>2. InPipe(i)' + (IF Head(fromServer).id = i THEN 1 ELSE 0) <= InPipe(i)
    BY <2>1, PositionsTail DEF TypeOK, InPipe
  <2>3. InHand(i) = 0 /\ InHand(i)' <= (IF Head(fromServer).id = i THEN 1 ELSE 0)
    BY <2>1, NoLineIsNone DEF InHand
  <2>4. LinesOf(i)' = LinesOf(i) /\ Taken(i)' = Taken(i)
    BY <1>8, <2>1 DEF LinesOf
  <2> DEFINE n == IF Head(fromServer).id = i THEN 1 ELSE 0
  <2>5. /\ n \in {0, 1} /\ InPipe(i)' + n <= InPipe(i) /\ InHand(i)' <= n
        /\ Len(chan'[i]) = Len(chan[i])
    BY <2>1, <2>2, <2>3
  <2> HIDE DEF n
  <2>6. InPipe(i)' + InHand(i)' <= InPipe(i) + InHand(i)
    BY <1>2, <1>3, <2>3, <2>5, SMTT(30)
  <2>7. InPipe(i)' + InHand(i)' + Len(chan[i]) + Taken(i) <= LinesOf(i)
    BY <1>1, <1>2, <1>3, <2>6, SMTT(30)
  <2> QED
    BY <2>4, <2>5, <2>7
<1>10. CASE Deliver
  <2>1. /\ UNCHANGED <<fromServer, copies, spoken, pc, id, asked, toServer>>
        /\ held \in Lines /\ held.id \in Ids /\ held' = NoLine
        /\ chan' = [chan EXCEPT ![held.id] = Append(@, held)]
    <3>1. held \in Lines /\ held.id \in Ids
      BY <1>10 DEF Deliver, TypeOK, LinesOK
    <3> QED
      BY <1>10, <3>1 DEF Deliver, callerVars, serverVars
  <2>2. Len(chan'[i]) = Len(chan[i]) + InHand(i)
    <3>1. chan[i] \in Seq(Lines)
      BY DEF TypeOK
    <3>2. chan'[i] = IF held.id = i THEN Append(chan[i], held) ELSE chan[i]
      BY <2>1 DEF TypeOK
    <3>3. CASE held.id = i
      BY <2>1, <3>1, <3>2, <3>3, AppendProperties DEF InHand
    <3>4. CASE held.id # i
      BY <3>1, <3>2, <3>4 DEF InHand
    <3> QED
      BY <3>3, <3>4
  <2>3. InHand(i)' = 0
    BY <2>1, NoLineIsNone DEF InHand
  <2>4. InPipe(i)' = InPipe(i) /\ LinesOf(i)' = LinesOf(i) /\ Taken(i)' = Taken(i)
    BY <1>8, <2>1 DEF InPipe, LinesOf, Positions
  <2> QED
    BY <1>1, <1>2, <1>3, <2>2, <2>3, <2>4
<1>11. CASE ServerRead
  <2>1. /\ UNCHANGED <<fromServer, held, chan, copies, spoken, pc, id>>
        /\ toServer # <<>> /\ toServer' = Tail(toServer)
        /\ asked' = asked \union ({Head(toServer)} \ {NoID})
    BY <1>11 DEF ServerRead, callerVars
  <2>2. /\ Len(toServer) \in Nat \ {0} /\ Len(toServer') = Len(toServer) - 1
        /\ Head(toServer) = toServer[1]
        /\ \A k \in 1 .. Len(toServer') : toServer'[k] = toServer[k + 1]
    BY <2>1, HeadTailProperties, EmptySeq DEF TypeOK
  <2>3. i \in asked' \/ InToServer(i)' => i \in asked \/ InToServer(i)
    BY <2>1, <2>2 DEF InToServer
  <2>4. Waits(i)' <=> Waits(i)
    BY <2>1 DEF Waits
  <2> QED
    BY <1>2, <1>3, <1>4, <2>1, <2>3, <2>4 DEF Taken
\* The server writes one line more, which goes into the pipe.
<1>12. ASSUME NEW line \in Lines, fromServer' = Append(fromServer, line),
              UNCHANGED <<held, chan, pc, id, asked, toServer>>,
              LinesOf(i)' = LinesOf(i) + (IF line.id = i THEN 1 ELSE 0)
       PROVE  InPipe(i)' + InHand(i)' + Len(chan'[i]) + Taken(i)' <= LinesOf(i)'
  <2>1. InPipe(i)' = InPipe(i) + (IF line.id = i THEN 1 ELSE 0)
    BY <1>12, PositionsAppend DEF TypeOK, InPipe
  <2>2. InHand(i)' = InHand(i) /\ Taken(i)' = Taken(i)
    BY <1>8, <1>12 DEF InHand
  <2> DEFINE n == IF line.id = i THEN 1 ELSE 0
  <2>3. /\ n \in {0, 1} /\ InPipe(i)' = InPipe(i) + n /\ LinesOf(i)' = LinesOf(i) + n
        /\ chan'[i] = chan[i]
    BY <1>12, <2>1
  <2> HIDE DEF n
  <2> QED
    BY <1>1, <1>2, <2>2, <2>3, SMTT(30)
<1>13. ASSUME NEW j \in Ids, Answer(j)
       PROVE  InPipe(i)' + InHand(i)' + Len(chan'[i]) + Taken(i)' <= LinesOf(i)'
  <2> DEFINE line == [kind |-> "response", id |-> j]
  <2>1. /\ fromServer' = Append(fromServer, line) /\ spoken' = spoken
        /\ UNCHANGED <<held, chan, pc, id, asked, toServer>>
        /\ copies' = [copies EXCEPT ![j] = @ + 1]
    BY <1>13 DEF Answer, Emit, callerVars
  <2>2. line \in Lines /\ line.id = j
    BY DEF Lines
  <2>3. LinesOf(i)' = LinesOf(i) + (IF line.id = i THEN 1 ELSE 0)
    <3>1. copies[i] \in 0 .. MaxCopies
      BY DEF TypeOK
    <3>2. copies'[i] = copies[i] + (IF j = i THEN 1 ELSE 0)
      <4>1. CASE j = i
        BY <2>1, <4>1 DEF TypeOK
      <4>2. CASE j # i
        BY <2>1, <3>1, <4>2 DEF TypeOK
      <4> QED
        BY <4>1, <4>2
    <3> HIDE DEF line
    <3> QED
      BY <2>1, <2>2, <3>1, <3>2 DEF LinesOf
  <2> HIDE DEF line
  <2> QED
    BY <1>12, <2>1, <2>2, <2>3
<1>14. ASSUME NEW j \in ServerIDs, ServerRequest(j)
       PROVE  InPipe(i)' + InHand(i)' + Len(chan'[i]) + Taken(i)' <= LinesOf(i)'
  <2> DEFINE line == [kind |-> "request", id |-> j]
  <2>1. /\ fromServer' = Append(fromServer, line) /\ copies' = copies
        /\ UNCHANGED <<held, chan, pc, id, asked, toServer>>
        /\ j \notin spoken /\ spoken' = spoken \union {j}
    BY <1>14 DEF ServerRequest, Emit, callerVars
  <2>2. line \in Lines /\ line.id = j
    BY DEF Lines
  <2>3. LinesOf(i)' = LinesOf(i) + (IF line.id = i THEN 1 ELSE 0)
    <3>1. copies[i] \in 0 .. MaxCopies
      BY DEF TypeOK
    <3> HIDE DEF line
    <3> QED
      BY <2>1, <2>2, <3>1 DEF LinesOf
  <2> HIDE DEF line
  <2> QED
    BY <1>12, <2>1, <2>2, <2>3
<1>15. CASE ReadEOF \/ Die \/ UNCHANGED vars
  <2>1. UNCHANGED <<fromServer, held, chan, copies, spoken, pc, id, asked, toServer>>
    BY <1>15 DEF ReadEOF, Die, vars, callerVars, serverVars
  <2> QED
    BY <1>2, <1>4, <1>8, <2>1
<1>16. ASSUME NEW c \in Callers,
              NextRequestID(c) \/ Notify(c) \/ LockWrite(c) \/ CallerStep(c)
       PROVE  InPipe(i)' + InHand(i)' + Len(chan'[i]) + Taken(i)' <= LinesOf(i)'
  <2>1. CASE Receive(c)
    BY <1>7, <2>1
  <2>2. CASE Write(c)
    BY <1>4, <1>6, <2>2
  <2>3. CASE ~Receive(c) /\ ~Write(c)
    BY <1>2, <1>4, <1>5, <1>16, <2>3 DEF CallerStep
  <2> QED
    BY <2>1, <2>2, <2>3
<1> QED
  BY <1>9, <1>10, <1>11, <1>13, <1>14, <1>15, <1>16 DEF Next, Reader, Server

\* A server that answers each request once, or repeats one answer, cannot
\* wedge the reader: the line it is stuck with and the one in the channel come
\* on top of the one the call has had.
THEOREM WedgeTakesThreeLines == Spec => []WedgeNeedsThreeLines
<1>1. Init => IInv /\ Balance
  BY IInvInit, BalanceInit
<1>2. IInv /\ Balance /\ [Next]_vars => (IInv /\ Balance)'
  BY IInvStep, BalanceStep
<1>3. IInv /\ Balance => WedgeNeedsThreeLines
  <2> SUFFICES ASSUME TypeOK, SentOK, LinesOK, Balance, ReaderWedged PROVE LinesOf(held.id) >= 3
    BY DEF IInv, TypeInv, WedgeNeedsThreeLines
  <2> DEFINE i == held.id
  <2>1. i \in Ids
    BY DEF ReaderWedged, LinesOK
  <2>2. InHand(i) = 1 /\ Len(chan[i]) >= 1 /\ ~Waits(i)
    BY DEF InHand, ReaderWedged, Waits
  <2> HIDE DEF i
  <2>3. /\ InPipe(i) \in Nat /\ InHand(i) \in Nat /\ Len(chan[i]) \in Nat /\ Taken(i) \in {0, 1}
        /\ LinesOf(i) \in Nat
    BY <2>1, BalanceTypes
  <2>4. InPipe(i) + InHand(i) + Len(chan[i]) + Taken(i) <= LinesOf(i)
    BY <2>1 DEF Balance
  <2>5. LinesOf(i) >= 2
    BY <2>2, <2>3, <2>4
  <2>6. copies[i] \in Nat
    BY <2>1 DEF TypeOK
  <2>7. i \in asked
    BY <2>1, <2>5, <2>6 DEF LinesOf, SentOK
  <2>8. Taken(i) = 1
    BY <2>2, <2>7 DEF Taken
  <2>9. LinesOf(i) >= 3
    BY <2>2, <2>3, <2>4, <2>8
  <2> QED
    BY <2>9 DEF i
<1> QED
  BY <1>1, <1>2, <1>3, PTL DEF Spec

-----------------------------------------------------------------------------
(* Protocol implements Rpc.                                                *)

\* Failing a call needs a dead server: got of a caller that is not returning
\* holds no line.
GotOK == \A c \in Callers :
    /\ pc[c] # "returning" => got[c] = NoLine
    /\ pc[c] = "returning" /\ got[c] = NoLine => ~alive

LEMMA GotStep == TypeInv /\ GotOK /\ [Next]_vars => GotOK'
<1> SUFFICES ASSUME TypeOK, IdsOK, GotOK, [Next]_vars PROVE GotOK'
  BY DEF TypeInv
<1>1. ASSUME NEW c \in Callers, NextRequestID(c) \/ Notify(c) \/ LockWrite(c) \/ CreateFails(c)
               \/ Store(c) \/ Write(c) \/ WriteFails(c) \/ Return(c) PROVE GotOK'
  BY <1>1 DEF GotOK, NextRequestID, Notify, LockWrite, CreateFails, Store, Write, WriteFails,
              Return, Goto, TypeOK, serverVars
<1>2. ASSUME NEW c \in Callers, Receive(c) PROVE GotOK'
  <2>1. Head(chan[id[c]]) \in Lines
    BY <1>2 DEF Receive, TypeOK, IdsOK
  <2>2. QED
    BY <1>2, <2>1, NoLineIsNone DEF GotOK, Receive, Goto, TypeOK, serverVars
<1>3. ASSUME pc' = pc, got' = got, ~alive => ~alive' PROVE GotOK'
  BY <1>3 DEF GotOK
<1>4. ASSUME ReadLine \/ Deliver \/ ReadEOF \/ ServerRead \/ Die \/ UNCHANGED vars
      PROVE  pc' = pc /\ got' = got /\ (~alive => ~alive')
  BY <1>4 DEF ReadLine, Deliver, ReadEOF, ServerRead, Die, vars, callerVars, serverVars
<1>5. ASSUME NEW i \in Ids, Answer(i) PROVE pc' = pc /\ got' = got /\ (~alive => ~alive')
  BY <1>5 DEF Answer, callerVars
<1>6. ASSUME NEW i \in ServerIDs, ServerRequest(i)
      PROVE  pc' = pc /\ got' = got /\ (~alive => ~alive')
  BY <1>6 DEF ServerRequest, callerVars
<1>7. QED
  BY <1>1, <1>2, <1>3, <1>4, <1>5, <1>6 DEF Next, CallerStep, Reader, Server

LEMMA RefinementInit == Init => R!Init
  BY DEF Init, R!Init, AbstractCall, CallState, AbstractId, AbstractUsed, AbstractSpoken, LinesOf

\* Every step of the connection is a step of Rpc, or leaves it unchanged.
LEMMA RefinementStep == IInv /\ GotOK /\ [Next]_vars => [R!Next]_(R!vars)
<1> SUFFICES ASSUME IInv, GotOK, TypeOK, IdsOK, [Next]_vars PROVE [R!Next]_(R!vars)
  BY DEF IInv, TypeInv
\* The parts of the abstract state that a step leaves alone.
<1>1. ASSUME UNCHANGED <<copies, spoken>> PROVE AbstractSpoken' = AbstractSpoken
  BY <1>1 DEF AbstractSpoken, LinesOf
<1>2. ASSUME NEW c \in Callers, \A d \in Callers \ {c} : UNCHANGED <<pc[d], id[d], got[d]>>
      PROVE  /\ AbstractCall' = [AbstractCall EXCEPT ![c] = CallState(c)']
             /\ AbstractId' = [AbstractId EXCEPT ![c] = IF pc'[c] = "allocated" THEN NoID ELSE id'[c]]
  <2>1. \A d \in Callers \ {c} : CallState(d)' = CallState(d)
    BY <1>2 DEF CallState
  <2>2. AbstractCall' = [AbstractCall EXCEPT ![c] = CallState(c)']
    BY <2>1 DEF AbstractCall
  <2>3. AbstractId' = [AbstractId EXCEPT ![c] = IF pc'[c] = "allocated" THEN NoID ELSE id'[c]]
    BY <1>2 DEF AbstractId
  <2> QED
    BY <2>2, <2>3
<1>3. ASSUME UNCHANGED <<pc, id, got>>
      PROVE  UNCHANGED <<AbstractCall, AbstractId>>
  BY <1>3 DEF AbstractCall, AbstractId, CallState
<1>4. \A i : i \in AbstractUsed <=>
        i \in 1 .. requestID /\ ~ \E d \in Callers : pc[d] = "allocated" /\ id[d] = i
  BY DEF AbstractUsed
<1>5. \A i : (i \in AbstractUsed <=>
        i \in 1 .. requestID /\ ~ \E d \in Callers : pc[d] = "allocated" /\ id[d] = i)'
  BY DEF AbstractUsed
<1>6. ASSUME NEW c \in Callers, requestID' = requestID,
             pc[c] # "allocated", pc'[c] # "allocated",
             \A d \in Callers \ {c} : UNCHANGED <<pc[d], id[d]>>
      PROVE  AbstractUsed' = AbstractUsed
  <2>1. \A i : (\E d \in Callers : pc[d] = "allocated" /\ id[d] = i)'
           <=> \E d \in Callers : pc[d] = "allocated" /\ id[d] = i
    BY <1>6
  <2>2. \A i : i \in AbstractUsed' <=> i \in AbstractUsed
    BY <1>4, <1>5, <1>6, <2>1
  <2>3. QED
    BY <2>2 DEF AbstractUsed
<1>7. ASSUME NEW c \in Callers, NextRequestID(c) PROVE UNCHANGED R!vars
  <2>1. /\ requestID' = requestID + 1 /\ requestID \in Nat
        /\ pc[c] = "idle" /\ pc'[c] = "allocated" /\ id[c] = NoID /\ id'[c] = requestID + 1
        /\ \A d \in Callers \ {c} : UNCHANGED <<pc[d], id[d]>>
        /\ got' = got /\ UNCHANGED <<copies, spoken, alive>>
    BY <1>7 DEF NextRequestID, Goto, TypeOK, IdsOK, serverVars
  <2>2. UNCHANGED <<AbstractCall, AbstractId>>
    BY <1>2, <2>1 DEF AbstractCall, AbstractId, CallState
  <2>3. \A i : i \in 1 .. (requestID + 1) <=> i \in 1 .. requestID \/ i = requestID + 1
    BY <2>1
  <2>4. ASSUME NEW d \in Callers, pc[d] = "allocated" PROVE id[d] # requestID + 1
    BY <2>1 DEF IdsOK, TypeOK
  <2>5. requestID + 1 \notin 1 .. requestID
    BY <2>1
  <2>6. AbstractUsed' = AbstractUsed
    <3>1. ASSUME NEW i, i # requestID + 1
          PROVE  (\E d \in Callers : pc[d] = "allocated" /\ id[d] = i)'
                   <=> \E d \in Callers : pc[d] = "allocated" /\ id[d] = i
      BY <2>1, <3>1
    <3>2. ASSUME NEW i, i # requestID + 1 PROVE i \in AbstractUsed' <=> i \in AbstractUsed
      BY <1>4, <1>5, <2>1, <2>3, <3>1, <3>2
    <3>3. requestID + 1 \notin AbstractUsed
      BY <1>4, <2>5
    <3>4. requestID + 1 \notin AbstractUsed'
      BY <1>5, <2>1
    <3>5. \A i : i \in AbstractUsed' <=> i \in AbstractUsed
      BY <3>2, <3>3, <3>4
    <3>6. QED
      BY <3>5 DEF AbstractUsed
  <2>7. QED
    BY <1>1, <2>1, <2>2, <2>6 DEF R!vars
<1>8. ASSUME NEW c \in Callers, CreateFails(c) PROVE R!Next
  <2>1. /\ pc[c] = "allocated" /\ pc'[c] = "idle" /\ id'[c] = NoID /\ id[c] \in Ids
        /\ id[c] \in 1 .. requestID
        /\ \A d \in Callers \ {c} : UNCHANGED <<pc[d], id[d]>>
        /\ UNCHANGED <<requestID, got, copies, spoken, alive>>
    BY <1>8 DEF CreateFails, Goto, TypeOK, IdsOK, serverVars
  <2>2. UNCHANGED <<AbstractCall, AbstractId>>
    BY <1>2, <2>1 DEF AbstractCall, AbstractId, CallState
  <2>3. \A d \in Callers \ {c} : id[d] # id[c]
    BY <2>1 DEF IdsOK
  <2>4. AbstractUsed' = AbstractUsed \union {id[c]}
    BY <1>4, <1>5, <2>1, <2>3
  <2>5. R!Burn(id[c])
    BY <1>1, <2>1, <2>2, <2>4 DEF R!Burn
  <2>6. QED
    BY <2>1, <2>5 DEF R!Next
<1>9. ASSUME NEW c \in Callers, Store(c) PROVE R!Next
  <2>1. /\ pc[c] = "allocated" /\ pc'[c] = "locking" /\ id' = id /\ id[c] \in Ids
        /\ id[c] \in 1 .. requestID
        /\ \A d \in Callers \ {c} : UNCHANGED <<pc[d], id[d], got[d]>>
        /\ UNCHANGED <<requestID, got, copies, spoken, alive>>
    BY <1>9 DEF Store, Goto, TypeOK, IdsOK, serverVars
  <2>2. \A d \in Callers \ {c} : id[d] # id[c]
    BY <2>1 DEF IdsOK
  <2>3. AbstractUsed' = AbstractUsed \union {id[c]} /\ id[c] \notin AbstractUsed
    BY <1>4, <1>5, <2>1, <2>2
  <2>4. AbstractCall[c] = "idle" /\ CallState(c)' = "calling"
    BY <2>1 DEF AbstractCall, CallState
  <2>5. R!Begin(c, id[c])
    BY <1>1, <1>2, <2>1, <2>3, <2>4 DEF R!Begin
  <2>6. QED
    BY <2>1, <2>5 DEF R!Next
<1>10. ASSUME NEW c \in Callers, Notify(c) \/ LockWrite(c) \/ Write(c) PROVE UNCHANGED R!vars
  <2>1. /\ UNCHANGED <<requestID, id, got, copies, spoken, alive>>
        /\ pc[c] # "allocated" /\ pc'[c] # "allocated" /\ CallState(c)' = CallState(c)
        /\ \A d \in Callers \ {c} : UNCHANGED <<pc[d], id[d], got[d]>>
    BY <1>10 DEF Notify, LockWrite, Write, Goto, TypeOK, IdsOK, serverVars, CallState
  <2>2. AbstractUsed' = AbstractUsed
    BY <1>6, <2>1
  <2>3. \A d \in Callers : CallState(d)' = CallState(d)
    BY <2>1 DEF CallState
  <2>4. AbstractCall' = AbstractCall
    BY <2>3 DEF AbstractCall
  <2>5. AbstractId' = AbstractId
    BY <2>1 DEF AbstractId
  <2>6. QED
    BY <1>1, <2>1, <2>2, <2>4, <2>5 DEF R!vars
<1>11. ASSUME NEW c \in Callers, WriteFails(c) PROVE [R!Next]_(R!vars)
  <2>1. /\ UNCHANGED <<requestID, id, got, copies, spoken, alive>> /\ ~alive
        /\ pc[c] = "writing" /\ got[c] = NoLine
        /\ pc'[c] = IF id[c] = NoID THEN "idle" ELSE "returning"
        /\ \A d \in Callers \ {c} : UNCHANGED <<pc[d], id[d], got[d]>>
    BY <1>11 DEF WriteFails, Goto, TypeOK, serverVars, GotOK
  <2>2. AbstractId' = AbstractId /\ AbstractUsed' = AbstractUsed
    BY <1>6, <2>1 DEF AbstractId
  <2>3. CASE id[c] = NoID
    <3>1. CallState(c)' = CallState(c)
      BY <2>1, <2>3 DEF CallState
    <3>2. QED
      BY <1>1, <1>2, <2>1, <2>2, <3>1 DEF R!vars, AbstractCall
  <2>4. CASE id[c] # NoID
    <3>1. AbstractCall[c] = "calling" /\ CallState(c)' = "failed"
      BY <2>1, <2>4 DEF CallState, AbstractCall
    <3>2. R!Fail(c)
      BY <1>1, <1>2, <2>1, <2>2, <3>1 DEF R!Fail
    <3>3. QED
      BY <3>2 DEF R!Next
  <2>5. QED
    BY <2>3, <2>4
<1>12. ASSUME NEW c \in Callers, Receive(c) PROVE R!Next
  <2>1. /\ UNCHANGED <<requestID, id, copies, spoken, alive>>
        /\ pc[c] = "waiting" /\ pc'[c] = "returning" /\ id[c] \in Ids
        /\ chan[id[c]] # <<>> /\ got'[c] = Head(chan[id[c]])
        /\ \A d \in Callers \ {c} : UNCHANGED <<pc[d], id[d], got[d]>>
    BY <1>12 DEF Receive, Goto, TypeOK, IdsOK, serverVars
  <2>2. got'[c] # NoLine
    BY <2>1, NoLineIsNone DEF TypeOK
  <2>3. AbstractId' = AbstractId /\ AbstractUsed' = AbstractUsed
    BY <1>6, <2>1 DEF AbstractId
  <2>4. AbstractCall[c] = "calling" /\ CallState(c)' = "answered"
    BY <2>1, <2>2 DEF CallState, AbstractCall
  <2>5. AbstractId[c] = id[c] /\ id[c] \in AbstractSpoken
    BY <2>1 DEF AbstractId, AbstractSpoken, IInv, LinesOK
  <2>6. R!Complete(c)
    BY <1>1, <1>2, <2>1, <2>3, <2>4, <2>5 DEF R!Complete
  <2>7. QED
    BY <2>6 DEF R!Next
<1>13. ASSUME NEW c \in Callers, Return(c) PROVE R!Next
  <2>1. /\ UNCHANGED <<requestID, copies, spoken, alive>>
        /\ pc[c] = "returning" /\ pc'[c] = "idle" /\ id'[c] = NoID
        /\ \A d \in Callers \ {c} : UNCHANGED <<pc[d], id[d], got[d]>>
    BY <1>13 DEF Return, Goto, TypeOK, serverVars
  <2>2. AbstractUsed' = AbstractUsed
    BY <1>6, <2>1
  <2>3. AbstractCall[c] \in {"answered", "failed"} /\ CallState(c)' = "idle"
    BY <2>1 DEF CallState, AbstractCall
  <2>4. R!Finish(c)
    BY <1>1, <1>2, <2>1, <2>2, <2>3 DEF R!Finish
  <2>5. QED
    BY <2>4 DEF R!Next
\* The reader and the server move no caller.
<1>14. ASSUME UNCHANGED <<requestID, pc, id, got>>
       PROVE  UNCHANGED <<AbstractCall, AbstractId, AbstractUsed>>
  BY <1>3, <1>14 DEF AbstractUsed
<1>15. ASSUME ReadLine \/ Deliver \/ ReadEOF \/ ServerRead \/ UNCHANGED vars
       PROVE  UNCHANGED R!vars
  BY <1>1, <1>14, <1>15 DEF ReadLine, Deliver, ReadEOF, ServerRead, vars, callerVars, serverVars,
                            R!vars
<1>16. ASSUME NEW i \in Ids, Answer(i) PROVE R!Next
  <2>1. /\ UNCHANGED <<requestID, pc, id, got, alive, spoken>> /\ alive
        /\ copies[i] \in Nat /\ copies'[i] = copies[i] + 1
        /\ \A j \in Ids \ {i} : copies'[j] = copies[j]
    BY <1>16 DEF Answer, Emit, callerVars, TypeOK
  <2>2. AbstractSpoken' = AbstractSpoken \union {i}
    BY <2>1 DEF AbstractSpoken, LinesOf
  <2>3. R!Speak(i)
    BY <1>14, <2>1, <2>2 DEF R!Speak
  <2>4. QED
    BY <2>3 DEF R!Next
<1>17. ASSUME NEW i \in ServerIDs, ServerRequest(i) PROVE [R!Next]_(R!vars)
  <2>1. /\ UNCHANGED <<requestID, pc, id, got, alive, copies>> /\ alive
        /\ spoken' = spoken \union {i} /\ i \in Ids \union {NoID}
        /\ \A j \in Ids : copies[j] \in Nat
    BY <1>17 DEF ServerRequest, Emit, callerVars, TypeOK
  <2>2. CASE i \in Ids
    <3>1. AbstractSpoken' = AbstractSpoken \union {i}
      BY <2>1, <2>2 DEF AbstractSpoken, LinesOf
    <3>2. R!Speak(i)
      BY <1>14, <2>1, <3>1 DEF R!Speak
    <3>3. QED
      BY <2>2, <3>2 DEF R!Next
  <2>3. CASE i \notin Ids
    <3>1. AbstractSpoken' = AbstractSpoken
      BY <2>1, <2>3 DEF AbstractSpoken, LinesOf
    <3>2. QED
      BY <1>14, <2>1, <3>1 DEF R!vars
  <2>4. QED
    BY <2>2, <2>3
<1>18. ASSUME Die PROVE R!Next
  <2>1. UNCHANGED <<requestID, pc, id, got, copies, spoken>> /\ alive' = FALSE
    BY <1>18 DEF Die, callerVars
  <2>2. R!Die
    BY <1>1, <1>14, <2>1 DEF R!Die
  <2>3. QED
    BY <2>2 DEF R!Next
<1>19. QED
  BY <1>7, <1>8, <1>9, <1>10, <1>11, <1>12, <1>13, <1>15, <1>16, <1>17, <1>18
  DEF Next, CallerStep, Reader, Server

\* The connection implements Rpc: no identifier is used twice, a call
\* completes only with a line the server wrote under the call's identifier,
\* and fails only when the server is dead.
THEOREM ConnectionImplementsRpc == Spec => ImplementsRpc
<1>1. Init => IInv /\ GotOK
  BY IInvInit DEF Init, GotOK
<1>2. IInv /\ GotOK /\ [Next]_vars => (IInv /\ GotOK)'
  BY IInvStep, GotStep DEF IInv
<1>3. QED
  BY <1>1, <1>2, RefinementInit, RefinementStep, PTL DEF Spec, ImplementsRpc, R!Spec
-----------------------------------------------------------------------------
(* What is lost is lost for good: why EveryCallReturns excludes a wedged   *)
(* reader and a dead server.                                               *)

\* The line in the reader's hands carries an identifier that was stored, which
\* nobody will store again.
HeldOK ==
    held # NoLine =>
        held.id <= requestID /\ \A c \in Callers : pc[c] = "allocated" => id[c] # held.id

LEMMA HeldStep == IInv /\ HeldOK /\ [Next]_vars => HeldOK'
<1> SUFFICES ASSUME IInv, TypeOK, IdsOK, HeldOK, [Next]_vars, held' # NoLine PROVE HeldOK'
  BY DEF IInv, TypeInv, HeldOK
<1>1. CASE ReadLine
  <2>1. /\ held' \in Lines /\ held'.id \in pending
        /\ UNCHANGED <<requestID, pc, id>>
    BY <1>1 DEF ReadLine, callerVars, TypeOK
  <2>2. PICK c \in Callers : Registered(c) /\ id[c] = held'.id
    BY <2>1, PendingMember DEF IInv
  <2>3. id[c] <= requestID /\ id[c] # NoID /\ pc[c] # "allocated"
    BY <2>2 DEF Registered, IdsOK
  <2>4. \A d \in Callers : pc[d] = "allocated" => id[d] # id[c]
    BY <2>3 DEF IdsOK
  <2>5. QED
    BY <2>1, <2>2, <2>3, <2>4 DEF HeldOK
<1>2. CASE ~ReadLine
  <2>1. held' = held
    BY <1>2 DEF Next, CallerStep, Reader, Server, NextRequestID, Notify, LockWrite, CreateFails,
       Store, Write, WriteFails, Receive, Return, Deliver, ReadEOF, ServerRead, Die, Answer,
       ServerRequest, vars
  <2>2. held.id \in Ids /\ held.id <= requestID
        /\ \A c \in Callers : pc[c] = "allocated" => id[c] # held.id
    BY <2>1 DEF HeldOK, IInv, LinesOK
  <2>3. ASSUME NEW c \in Callers, NextRequestID(c) PROVE HeldOK'
    <3>1. /\ requestID' = requestID + 1 /\ requestID \in Nat
          /\ \A d \in Callers : pc'[d] = "allocated" => id'[d] = requestID + 1 \/ (pc[d] = "allocated" /\ id'[d] = id[d])
      BY <2>3 DEF NextRequestID, Goto, TypeOK
    <3>2. held.id # requestID + 1 /\ held.id <= requestID'
      BY <2>2, <3>1
    <3>3. QED
      BY <2>1, <2>2, <3>1, <3>2 DEF HeldOK
  <2>4. ASSUME requestID' = requestID,
               \A d \in Callers : pc'[d] = "allocated" => pc[d] = "allocated" /\ id'[d] = id[d]
        PROVE  HeldOK'
    BY <2>1, <2>2, <2>4 DEF HeldOK
  <2>5. ASSUME ~ \E c \in Callers : NextRequestID(c)
        PROVE  /\ requestID' = requestID
               /\ \A d \in Callers : pc'[d] = "allocated" => pc[d] = "allocated" /\ id'[d] = id[d]
    BY <1>2, <2>5 DEF Next, CallerStep, Reader, Server, Notify, LockWrite, CreateFails,
       Store, Write, WriteFails, Receive, Return, Goto, Deliver, ReadEOF, ServerRead, Die, Answer,
       ServerRequest, vars, callerVars, TypeOK
  <2>6. QED
    BY <2>3, <2>4, <2>5
<1>3. QED
  BY <1>1, <1>2

\* A wedged reader is wedged for good: nothing empties the channel.
LEMMA WedgeStays == IInv /\ HeldOK /\ ReaderWedged /\ [Next]_vars => ReaderWedged' /\ held' = held
<1> SUFFICES ASSUME IInv, TypeOK, IdsOK, HeldOK, ReaderWedged, [Next]_vars
             PROVE  ReaderWedged' /\ held' = held
  BY DEF IInv, TypeInv
<1>1. /\ held # NoLine /\ Len(chan[held.id]) >= 1 /\ held.id \in Ids
      /\ \A c \in Callers : pc[c] \in {"allocated", "locking", "writing", "waiting"} => id[c] # held.id
      /\ held.id <= requestID
  BY DEF ReaderWedged, ChanCap, HeldOK, IInv, LinesOK
<1>2. held' = held /\ chan'[held.id] = chan[held.id]
  <2>1. CASE Deliver
    <3>1. Len(chan[held.id]) < 1
      BY <2>1 DEF Deliver, ChanCap
    <3>2. Len(chan[held.id]) \in Nat
      BY <1>1 DEF TypeOK
    <3>3. QED
      BY <1>1, <3>1, <3>2
  <2>2. ASSUME NEW c \in Callers, Receive(c) PROVE held' = held /\ chan'[held.id] = chan[held.id]
    BY <1>1, <2>2 DEF Receive, TypeOK
  <2>3. CASE ~Deliver /\ ~ \E c \in Callers : Receive(c)
    BY <1>1, <2>3 DEF Next, CallerStep, Reader, Server, NextRequestID, Notify, LockWrite,
       CreateFails, Store, Write, WriteFails, Return, ReadLine, ReadEOF, ServerRead, Die, Answer,
       ServerRequest, vars
  <2>4. QED
    BY <2>1, <2>2, <2>3
<1>3. ASSUME NEW c \in Callers, pc'[c] \in {"locking", "writing", "waiting"} PROVE id'[c] # held.id
  <2>1. CASE NextRequestID(c)
    BY <1>3, <2>1 DEF NextRequestID, Goto, TypeOK
  <2>2. CASE Notify(c)
    BY <1>1, <2>2 DEF Notify, IdsOK, Ids, NoID
  <2>3. CASE ~NextRequestID(c) /\ ~Notify(c)
    <3>1. id'[c] = id[c] /\ pc[c] \in {"allocated", "locking", "writing", "waiting"}
      BY <1>3, <2>3 DEF Next, CallerStep, Reader, Server, NextRequestID, Notify, LockWrite,
         CreateFails, Store, Write, WriteFails, Receive, Return, Goto, Deliver, ReadLine, ReadEOF,
         ServerRead, Die, Answer, ServerRequest, vars, callerVars, TypeOK
    <3>2. QED
      BY <1>1, <3>1
  <2>4. QED
    BY <2>1, <2>2, <2>3
<1>4. QED
  BY <1>1, <1>2, <1>3 DEF ReaderWedged, ChanCap

\* A call that waits with an empty channel, while the reader is wedged or the
\* server is dead and has left no line with the call's identifier.
Lost(c) ==
    /\ pc[c] = "waiting" /\ chan[id[c]] = <<>>
    /\ \/ ReaderWedged
       \/ /\ ~alive /\ held.id # id[c]
          /\ \A k \in 1 .. Len(fromServer) : fromServer[k].id # id[c]
LostStaysLost == \A c \in Callers : Lost(c) => Lost(c)'

LEMMA LostStep == IInv /\ HeldOK /\ [Next]_vars => LostStaysLost
<1> SUFFICES ASSUME IInv, TypeOK, IdsOK, HeldOK, [Next]_vars, NEW c \in Callers, Lost(c)
             PROVE  Lost(c)'
  BY DEF LostStaysLost, IInv, TypeInv
<1>1. /\ pc[c] = "waiting" /\ chan[id[c]] = <<>> /\ id[c] \in Ids
      /\ ReaderWedged \/ held.id # id[c]
  BY DEF Lost, IdsOK, TypeOK
<1>2. pc'[c] = "waiting" /\ id'[c] = id[c]
  <2>1. pc \in [Callers -> Labels] /\ id \in [Callers -> Ids \union {NoID}]
    BY DEF TypeOK
  <2>2. ~Receive(c)
    BY <1>1 DEF Receive
  <2> HIDE DEF TypeOK
  <2>3. ASSUME NEW d \in Callers, NextRequestID(d) \/ Notify(d) \/ LockWrite(d) \/ CallerStep(d)
        PROVE  pc'[c] = "waiting" /\ id'[c] = id[c]
    BY <1>1, <2>1, <2>2, <2>3 DEF CallerStep, NextRequestID, Notify, LockWrite, CreateFails, Store,
       Write, WriteFails, Receive, Return, Goto
  <2>4. ASSUME Reader \/ Server \/ UNCHANGED vars PROVE UNCHANGED <<pc, id>>
    BY <2>4 DEF Reader, Server, ReadLine, Deliver, ReadEOF, ServerRead, Die, Answer, ServerRequest,
       vars, callerVars
  <2>5. QED
    BY <1>1, <2>3, <2>4 DEF Next
<1>3. chan'[id[c]] = <<>>
  <2>1. CASE Deliver
    <3>1. held.id # id[c]
      BY <1>1 DEF ReaderWedged
    <3>2. QED
      BY <1>1, <2>1, <3>1 DEF Deliver, TypeOK
  <2>2. ASSUME NEW d \in Callers, Receive(d) PROVE chan'[id[c]] = <<>>
    BY <1>1, <2>2 DEF Receive, TypeOK
  <2>3. CASE ~Deliver /\ ~ \E d \in Callers : Receive(d)
    BY <1>1, <2>3 DEF Next, CallerStep, Reader, Server, NextRequestID, Notify, LockWrite,
       CreateFails, Store, Write, WriteFails, Return, ReadLine, ReadEOF, ServerRead, Die, Answer,
       ServerRequest, vars
  <2>4. QED
    BY <2>1, <2>2, <2>3
<1>4. CASE ReaderWedged
  BY <1>2, <1>3, <1>4, WedgeStays DEF Lost
<1>5. CASE ~ReaderWedged
  <2>1. ~alive /\ held.id # id[c] /\ \A k \in 1 .. Len(fromServer) : fromServer[k].id # id[c]
    BY <1>5 DEF Lost
  <2>2. alive' = FALSE
    BY <2>1 DEF Next, CallerStep, Reader, Server, NextRequestID, Notify, LockWrite, CreateFails,
       Store, Write, WriteFails, Receive, Return, ReadLine, Deliver, ReadEOF, ServerRead, Die,
       Answer, Emit, ServerRequest, vars, serverVars, TypeOK
  <2>3. held'.id # id[c] /\ \A k \in 1 .. Len(fromServer') : fromServer'[k].id # id[c]
    <3>1. CASE ReadLine
      <4>1. /\ fromServer \in Seq(Lines) /\ fromServer # <<>> /\ fromServer' = Tail(fromServer)
            /\ held' = Head(fromServer) \/ held' = NoLine
        BY <3>1 DEF ReadLine, TypeOK
      <4>2. /\ Head(fromServer) = fromServer[1] /\ 1 \in 1 .. Len(fromServer)
            /\ \A k \in 1 .. Len(Tail(fromServer)) :
                 k + 1 \in 1 .. Len(fromServer) /\ Tail(fromServer)[k] = fromServer[k + 1]
        BY <4>1
      <4>3. NoLine.id # id[c]
        BY <1>1 DEF NoLine, Ids, NoID
      <4>4. QED
        BY <2>1, <4>1, <4>2, <4>3
    <3>2. CASE Deliver
      BY <1>1, <2>1, <3>2 DEF Deliver, NoLine, Ids, NoID
    <3>3. CASE ~ReadLine /\ ~Deliver
      <4>1. held' = held /\ fromServer' = fromServer
        BY <2>1, <3>3 DEF Next, CallerStep, Reader, Server, NextRequestID, Notify, LockWrite,
           CreateFails, Store, Write, WriteFails, Receive, Return, ReadEOF, ServerRead, Die,
           Answer, Emit, ServerRequest, vars
      <4>2. QED
        BY <2>1, <4>1
    <3>4. QED
      BY <3>1, <3>2, <3>3
  <2>4. QED
    BY <1>2, <1>3, <2>2, <2>3 DEF Lost
<1>6. QED
  BY <1>4, <1>5

\* The two exceptions of EveryCallReturns have no end: a wedged reader never
\* reads again, and a call whose line will not come, because of it or because
\* the server died, waits for ever (SendRequest's receive has no alternative).
THEOREM LostCallsWaitForever ==
    Spec => /\ [][ReaderWedged => ReaderWedged']_vars
            /\ [][LostStaysLost]_vars
<1>1. Init => IInv /\ HeldOK
  BY IInvInit DEF Init, HeldOK
<1>2. IInv /\ HeldOK /\ [Next]_vars => (IInv /\ HeldOK)'
  BY IInvStep, HeldStep DEF IInv
<1>3. IInv /\ HeldOK /\ [Next]_vars => [ReaderWedged => ReaderWedged']_vars
  BY WedgeStays
<1>4. IInv /\ HeldOK /\ [Next]_vars => [LostStaysLost]_vars
  BY LostStep
<1>5. QED
  BY <1>1, <1>2, <1>3, <1>4, PTL DEF Spec
=============================================================================
