----------------------------- MODULE Migrations -----------------------------
(***************************************************************************)
(* What the migrator promises about each schema of the database, however   *)
(* many runtimes start at once and wherever they crash: the statements of  *)
(* a migration take effect at most once, and only together with its record *)
(* in _schema_migrations.  Migrator implements it.                         *)
(***************************************************************************)
EXTENDS Sequences

CONSTANTS Schemas, Versions

VARIABLES
    log,       \* log[s]: migrations whose statements took effect, in order
    recorded   \* recorded[s]: migrations recorded as applied

vars == <<log, recorded>>

Init ==
    /\ log = [s \in Schemas |-> <<>>]
    /\ recorded = [s \in Schemas |-> {}]

Apply(s, v) ==
    /\ v \notin recorded[s]
    /\ log' = [log EXCEPT ![s] = Append(@, v)]
    /\ recorded' = [recorded EXCEPT ![s] = @ \union {v}]

Next == \E s \in Schemas, v \in Versions : Apply(s, v)

Spec == Init /\ [][Next]_vars
=============================================================================
