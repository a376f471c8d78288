--------------------------- MODULE MCStdioClient ---------------------------
(* Instances of StdioClient for TLC.                                       *)
EXTENDS StdioClient

CONSTANTS t1, t2

MCThreads == {t1, t2}
MCOneThread == {t1}

MCAllOps == OpNames
MCAllFaults == FaultNames
MCNoFaults == {}
=============================================================================
