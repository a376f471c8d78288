---------------------------- MODULE MCHTTPClient ----------------------------
(* Instances of HTTPClient for TLC.                                        *)
EXTENDS HTTPClient

CONSTANTS t1, t2

MCThreads == {t1, t2}
MCAllOps == OpNames
=============================================================================
