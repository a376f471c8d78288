----------------------------- MODULE MCRuntime -----------------------------
(* Main, the retry goroutine and one handler. *)
EXTENDS Runtime

CONSTANTS a, b, main, retry, h1

MCThreads == {main, retry, h1}
MCMainBound == {main, retry}
MCNames == {a}
MCTwoNames == {a, b}
MCOps == {"register", "start", "stopAll"}
=============================================================================
