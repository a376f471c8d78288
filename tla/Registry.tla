------------------------------ MODULE Registry ------------------------------
(***************************************************************************)
(* What the manager promises about its map of servers, whatever locks make *)
(* it so: a name is given a client only while it has none, every           *)
(* registration makes a client that no name ever had, and a name loses its *)
(* client only by being unregistered.  Manager implements it.              *)
(***************************************************************************)
EXTENDS Naturals

CONSTANTS Names, Clients

VARIABLES
    clients,   \* clients[n]: the client of name n, 0 if it has none
    retired    \* clients that were unregistered

vars == <<clients, retired>>

Init == clients = [n \in Names |-> 0] /\ retired = {}

Register(n, c) ==
    /\ clients[n] = 0
    /\ c \notin retired /\ \A m \in Names : clients[m] # c
    /\ clients' = [clients EXCEPT ![n] = c]
    /\ UNCHANGED retired

Unregister(n) ==
    /\ clients[n] # 0
    /\ retired' = retired \union {clients[n]}
    /\ clients' = [clients EXCEPT ![n] = 0]

Next == \E n \in Names : Unregister(n) \/ \E c \in Clients : Register(n, c)

Spec == Init /\ [][Next]_vars
=============================================================================
