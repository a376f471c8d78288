--------------------------- MODULE MCAggregation ---------------------------
(* Two requests for all tools and one other handler.                       *)
EXTENDS Aggregation

CONSTANTS a, q1, q2, h

MCNames == {a}
MCThreads == {q1, q2, h}
MCRequests == {q1, q2}
MCOps == {"register", "unregister", "start", "list"}
=============================================================================
