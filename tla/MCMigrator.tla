----------------------------- MODULE MCMigrator -----------------------------
(* Three runtimes, two of them of one tenant, of two releases. *)
EXTENDS Migrator, TLC

CONSTANTS r1, r2, r3, ta, tb

MCRuntimes == {r1, r2, r3}
MCTenants == {ta, tb}
MCTenantOf == r1 :> ta @@ r2 :> ta @@ r3 :> tb
MCVersions == {2, 3, 10}
MCKnown == r1 :> {2, 3} @@ r2 :> {2, 3, 10} @@ r3 :> {2, 3, 10}
=============================================================================
