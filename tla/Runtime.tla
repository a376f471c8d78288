------------------------------- MODULE Runtime -------------------------------
(***************************************************************************)
(* cmd/server/main.go, func main: the life of the process around the       *)
(* manager (module Manager, which this one extends).  Main bootstraps,     *)
(* starts the gRPC and HTTP servers, waits for a signal, cancels its       *)
(* context, calls StopAll and leaves through the deferred GracefulStop of  *)
(* the gRPC server, which waits until the open streams of its only         *)
(* service, reflection, have ended.  Nobody stops the HTTP server: its     *)
(* handlers, and the retry goroutine, go on until the process is gone.     *)
(*                                                                         *)
(* The process of a stdio server is bound to the context of its Start      *)
(* (exec.CommandContext): main's for Main and for the retry goroutine, one *)
(* of their own for the handlers.  Under a cancelled context nothing is    *)
(* spawned, and what was spawned is killed; a handshake that is cut in     *)
(* this way ends like one that fails, since nobody answers it any more     *)
(* (protocol.go:54).                                                       *)
(*                                                                         *)
(* Operators named M_... are plausible bugs of the definition they         *)
(* precede; no specification uses them, the project's mutation runs do.    *)
(***************************************************************************)
EXTENDS Manager

CONSTANTS
    Main,      \* the main goroutine
    MainBound  \* goroutines that start servers under main's context

ASSUME RuntimeAssumption ==
    /\ Main \in MainBound /\ MainBound \subseteq Threads
    /\ Failing = Names

VARIABLES
    phase,      \* where main is
    cancelled,  \* main's context is
    streaming,  \* some peer has a reflection stream open
    context,    \* whose context the last Start of a client runs under
    escaped     \* history: clients a Start began on that StopAll had passed

mainVars == <<phase, cancelled, streaming>>
startVars == <<context, escaped>>
runtimeVars == <<mainVars, startVars>>
allVars == <<vars, runtimeVars>>

Phases == {"boot", "listening", "serving", "stopping", "stopAll", "exited", "killed"}
Gone == phase \in {"exited", "killed"}
\* Main waits in the deferred GracefulStop.
Draining == phase = "stopAll" /\ pc[Main] = "idle"

RuntimeInit ==
    /\ Init
    /\ phase = "boot"
    /\ cancelled = FALSE /\ streaming = FALSE
    /\ context = [c \in Clients |-> None]
    /\ escaped = {}

-----------------------------------------------------------------------------
(* main.                                                                   *)

\* The bootstrap is over, the gRPC and the HTTP server listen.
Listen ==
    /\ phase = "boot" /\ pc[Main] = "idle"
    /\ phase' = "listening"
    /\ UNCHANGED <<vars, cancelled, streaming, startVars>>

\* signal.Notify: from here on a signal is an orderly shutdown.
Serve ==
    /\ phase = "listening"
    /\ phase' = "serving"
    /\ UNCHANGED <<vars, cancelled, streaming, startVars>>

\* Before signal.Notify a signal ends the process at once; so does a gRPC port
\* that is in use.
DieEarly ==
    /\ phase \in {"boot", "listening"}
    /\ phase' = "killed"
    /\ UNCHANGED <<vars, cancelled, streaming, startVars>>

M_SignalWithoutCancel ==
    /\ phase = "serving"
    /\ phase' = "stopping"
    /\ UNCHANGED <<vars, cancelled, streaming, startVars>>

\* A signal, or an error of one of the listeners.
Signal ==
    /\ phase = "serving"
    /\ phase' = "stopping"
    /\ cancelled' = TRUE
    /\ UNCHANGED <<vars, streaming, startVars>>

\* mcpManager.StopAll is called.
StopServers ==
    /\ phase = "stopping"
    /\ phase' = "stopAll"
    /\ Begin(Main) /\ op'[Main] = "stopAll"
    /\ UNCHANGED <<cancelled, streaming, startVars>>

\* StopAll has returned and no stream is open: GracefulStop returns.
Exit ==
    /\ Draining /\ ~streaming
    /\ phase' = "exited"
    /\ UNCHANGED <<vars, cancelled, streaming, startVars>>

\* A peer opens the first reflection stream.  The goroutine that awaits the end
\* of main's context also calls GracefulStop, at some time; none opens after
\* main's own call at the latest.
OpenStream ==
    /\ phase # "boot" /\ ~Gone /\ ~Draining
    /\ ~streaming /\ streaming' = TRUE
    /\ UNCHANGED <<vars, phase, cancelled, startVars>>

\* The last stream ends, when its peer likes.
CloseStreams ==
    /\ streaming /\ ~Gone
    /\ streaming' = FALSE
    /\ UNCHANGED <<vars, phase, cancelled, startVars>>

-----------------------------------------------------------------------------
(* The goroutines.                                                         *)

\* bootstrapConfigs, which main runs first and the retry goroutine later.
Bootstraps(t) ==
    /\ t \in MainBound /\ (t = Main <=> phase = "boot")
    /\ Begin(t) /\ op'[t] \in {"register", "unregister", "start"}

Handles(t) ==
    /\ t \notin MainBound /\ phase # "boot"
    /\ Begin(t) /\ op'[t] # "stopAll"

\* StopAll has looked at c for the last time, or never will.
Passed(c) ==
    \/ phase \in {"stopAll", "exited"} /\ pc[Main] = "idle"
    \/ /\ phase = "stopAll" /\ pc[Main] \in {"visiting", "halting"}
       /\ c \notin todo[Main] /\ ~(pc[Main] = "halting" /\ hand[Main] = c)

ContextOf(t) ==
    IF t \notin MainBound THEN "own" ELSE IF cancelled THEN "cancelled" ELSE "main"

Starts(t) ==
    /\ StartLock(t)
    /\ LET c == hand[t] IN
         IF isRunning[c]
         THEN UNCHANGED startVars
         ELSE /\ context' = [context EXCEPT ![c] = ContextOf(t)]
              /\ escaped' = IF Passed(c) THEN escaped \union {c} ELSE escaped

Shakes(t) ==
    /\ pc[t] = "handshake"
    /\ IF context[hand[t]] = "cancelled" THEN SpawnFails(t) ELSE Handshake(t)
    /\ UNCHANGED startVars

\* The other steps of a call.
Works(t) == pc[t] # "start" /\ (Enter(t) \/ Step(t)) /\ UNCHANGED startVars

Call(t) == (Bootstraps(t) \/ Handles(t)) /\ UNCHANGED startVars

Proceed(t) == ~Gone /\ (Works(t) \/ Starts(t) \/ Shakes(t)) /\ UNCHANGED mainVars

RuntimeNext ==
    \/ Listen \/ Serve \/ DieEarly \/ Signal \/ StopServers \/ Exit
    \/ OpenStream \/ CloseStreams
    \/ \E t \in Threads : Proceed(t) \/ (~Gone /\ Call(t) /\ UNCHANGED mainVars)

RuntimeSpec == RuntimeInit /\ [][RuntimeNext]_allVars

\* As in Manager; main, once it got the signal, goes on.  Nothing is assumed of
\* the peers of the gRPC server.
FairRuntimeSpec ==
    /\ RuntimeSpec
    /\ WF_allVars(StopServers) /\ WF_allVars(Exit)
    /\ \A t \in Threads : SF_allVars(Proceed(t))

-----------------------------------------------------------------------------
(* Properties.                                                             *)

\* Every variable keeps its type.
RuntimeTypeOK ==
    /\ Types
    /\ phase \in Phases
    /\ cancelled \in BOOLEAN /\ streaming \in BOOLEAN
    /\ context \in [Clients -> {None, "own", "main", "cancelled"}]
    /\ escaped \subseteq 1 .. made

\* Whatever main does around it, the manager behaves as Manager says.
ImplementsManager == Spec

\* When main leaves, a registered server whose process StopAll has not killed
\* was started by a handler's Start that began after StopAll had passed it.
SurvivorsAreLate ==
    phase = "exited" => \A c \in Mapped : isRunning[c] => c \in escaped

\* main.go:141-143: since the context is cancelled before StopAll runs, main
\* leaves no server behind that it or the retry goroutine has started.
MainContextLeavesNothing ==
    phase = "exited" => \A c \in Mapped : isRunning[c] => context[c] = "own"

\* The process ends after a signal, although handlers go on and StopAll waits
\* for handshakes under the manager's lock.  Only two things keep it: a failed or
\* cut handshake that has locked a client for ever, and a peer that never ends its
\* reflection stream, for which GracefulStop waits without a limit.
ShutdownEnds ==
    phase = "stopping" ~>
        \/ phase = "exited"
        \/ \E t \in Threads : pc[t] = "stuck"
        \/ [](Draining /\ streaming)

\* A failed or cut handshake has locked c for ever (client.go:133, protocol.go:54).
LockedForGood(c) == \E t \in Threads : pc[t] = "stuck" /\ hand[t] = c
\* StopAll has c before it.
Awaits(c) == phase = "stopAll" /\ pc[Main] \in {"visiting", "halting"} /\ ~Passed(c)

\* One server that was locked for ever is enough: a shutdown that has it before
\* it never gets past it, and a bootstrap of main that has locked it never comes
\* to serve, whatever handlers, other servers and the retry goroutine do.
OneServerBlocksMain ==
    [][/\ \A c \in Clients : LockedForGood(c) /\ Awaits(c) => LockedForGood(c)' /\ Awaits(c)'
       /\ phase = "boot" /\ pc[Main] = "stuck" => pc'[Main] = "stuck" /\ phase' \in {"boot", "killed"}]_allVars
=============================================================================
