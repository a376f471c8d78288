----------------------------- MODULE MCProtocol -----------------------------
(* Instances of Protocol for TLC.                                          *)
EXTENDS Protocol

CONSTANTS c1, c2

MCCallers == {c1, c2}

\* One notification, and one request whose identifier clashes with a call's.
MCServerIDs == {NoID, 2}
=============================================================================
