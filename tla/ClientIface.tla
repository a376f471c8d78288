---------------------------- MODULE ClientIface ----------------------------
(***************************************************************************)
(* ClientIface of internal/mcp/manager.go, as a stdio client has it: what   *)
(* Start, Stop and IsRunning of a server look like to whoever reaches the  *)
(* client through its mutex.  A Start that finds the client stopped keeps  *)
(* everybody else waiting until its handshake is over; only then does the  *)
(* client run, and until then no Stop and no IsRunning comes through.      *)
(* StdioClient implements it, with the steps inside Start; Manager uses    *)
(* each of its clients so.  What the one assumes is what the other keeps.  *)
(* (An HTTP client allows more: it keeps no mutex during a handshake.)     *)
(***************************************************************************)

CONSTANTS Threads, NoOne

VARIABLES
    starter,  \* the thread in a handshake, NoOne if there is none
    running   \* what IsRunning answers, if it answers

vars == <<starter, running>>

Init == starter = NoOne /\ running = FALSE

\* A second Start is refused without a change.
Start(t) ==
    /\ starter = NoOne /\ ~running
    /\ starter' = t
    /\ UNCHANGED running

\* The handshake ends well, or before a process was spawned.
Started == starter # NoOne /\ starter' = NoOne /\ running' = TRUE

NotSpawned == starter # NoOne /\ starter' = NoOne /\ UNCHANGED running

Stop == starter = NoOne /\ running' = FALSE /\ UNCHANGED starter

Next == (\E t \in Threads : Start(t)) \/ Started \/ NotSpawned \/ Stop

Spec == Init /\ [][Next]_vars
=============================================================================
