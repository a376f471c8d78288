---------------------------- MODULE MCReconciler ----------------------------
(* Instances of Reconciler for TLC.                                        *)
EXTENDS Reconciler

CONSTANTS a, b, c1, c2

MCOneName == {a}
MCTwoNames == {a, b}
MCTwoCallers == {c1, c2}
MCOneCaller == {c1}
=============================================================================
