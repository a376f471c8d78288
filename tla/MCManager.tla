----------------------------- MODULE MCManager -----------------------------
(* Instances of Manager for TLC.                                           *)
EXTENDS Manager

CONSTANTS a, t1, t2, t3

MCNames == {a}
MCThreads == {t1, t2, t3}
MCAllOps == OpNames
=============================================================================
