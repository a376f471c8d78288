-------------------------------- MODULE Rpc --------------------------------
(***************************************************************************)
(* What a JSON-RPC connection promises the goroutines that call            *)
(* SendRequest, whatever pipes, locks and channels implement it:           *)
(*   - a request is sent under an identifier that no earlier request of    *)
(*     the connection ever carried;                                        *)
(*   - a call completes only once the server has written a message that    *)
(*     bears the identifier of that very call;                             *)
(*   - a call fails only when the server is gone.                          *)
(* Protocol implements this specification.                                 *)
(***************************************************************************)
EXTENDS Naturals

CONSTANTS
    Callers,    \* the goroutines that share the connection
    Ids         \* the identifiers a request may carry

VARIABLES
    call,       \* call[c]: where the call of c stands
    id,         \* id[c]: the identifier of c's current or last call
    used,       \* identifiers that have been given to a request
    spoken,     \* identifiers the server has put in a message
    up          \* the server is alive

vars == <<call, id, used, spoken, up>>

Init ==
    /\ call = [c \in Callers |-> "idle"]
    /\ id \in [Callers -> {0}]
    /\ used = {}
    /\ spoken = {}
    /\ up = TRUE

\* A caller starts a request under a fresh identifier.
Begin(c, i) ==
    /\ call[c] = "idle" /\ i \notin used
    /\ call' = [call EXCEPT ![c] = "calling"]
    /\ id' = [id EXCEPT ![c] = i]
    /\ used' = used \union {i}
    /\ UNCHANGED <<spoken, up>>

\* An identifier is lost on a request that could not be encoded.
Burn(i) ==
    /\ used' = used \union {i}
    /\ UNCHANGED <<call, id, spoken, up>>

\* The server writes a message that bears identifier i.
Speak(i) ==
    /\ up
    /\ spoken' = spoken \union {i}
    /\ UNCHANGED <<call, id, used, up>>

Die ==
    /\ up' = FALSE
    /\ UNCHANGED <<call, id, used, spoken>>

Complete(c) ==
    /\ call[c] = "calling" /\ id[c] \in spoken
    /\ call' = [call EXCEPT ![c] = "answered"]
    /\ UNCHANGED <<id, used, spoken, up>>

Fail(c) ==
    /\ call[c] = "calling" /\ ~up
    /\ call' = [call EXCEPT ![c] = "failed"]
    /\ UNCHANGED <<id, used, spoken, up>>

\* The call returns to its caller, which may start another one.
Finish(c) ==
    /\ call[c] \in {"answered", "failed"}
    /\ call' = [call EXCEPT ![c] = "idle"]
    /\ id' = [id EXCEPT ![c] = 0]
    /\ UNCHANGED <<used, spoken, up>>

Next ==
    \/ \E c \in Callers : Complete(c) \/ Fail(c) \/ Finish(c)
    \/ \E c \in Callers, i \in Ids : Begin(c, i)
    \/ \E i \in Ids : Burn(i) \/ Speak(i)
    \/ Die

Spec == Init /\ [][Next]_vars
============================================================================
