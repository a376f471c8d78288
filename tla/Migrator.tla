------------------------------ MODULE Migrator ------------------------------
(***************************************************************************)
(* internal/migrate/migrator.go: when a runtime starts it applies the      *)
(* migrations embedded in its binary, first those of the public schema,    *)
(* which all runtimes share, then those of its tenant's schema.  Several   *)
(* runtimes start at once, of one tenant or of several and possibly of     *)
(* different releases; nothing but the database coordinates them.  A       *)
(* runtime that meets an error exits (log.Fatalf in main) and is started   *)
(* again.                                                                  *)
(*                                                                         *)
(* A migration is the number n of its version V1.n.0; the public schema is *)
(* the one the code calls agenthub.  The database is the environment, as   *)
(* PostgreSQL does it: transactions at the isolation level READ COMMITTED, *)
(* a unique index on the file name, which makes an INSERT wait for the end *)
(* of a transaction that has inserted the same name, and SET search_path,  *)
(* which does not ask whether the schema exists.                           *)
(*                                                                         *)
(* Operators named M_... are plausible bugs of the definition they         *)
(* precede; no specification uses them, the project's mutation runs do.    *)
(***************************************************************************)
EXTENDS Integers, Sequences

CONSTANTS
    Runtimes,  \* processes that start with this database
    Tenants,
    TenantOf,  \* TenantOf[r]: AGENTHUB_TENANT_ID of runtime r
    Versions,  \* migrations of any release
    Known,     \* Known[r]: those embedded in the binary of r
    MaxFails   \* bound: errors of the database, crashes and restarts

Public == "public"
Schemas == {Public} \union Tenants

\* Decimal digits of a number, the most significant first.
Digits[n \in Nat] == IF n < 10 THEN <<n>> ELSE Append(Digits[n \div 10], n % 10)
SameWidth(v, w) == Len(Digits[v]) = Len(Digits[w])

\* sort.Strings on the paths: the numbers are compared digit by digit, and the
\* dot that follows them sorts before every digit.
Before(v, w) ==
    LET a == Digits[v]  b == Digits[w] IN
        \E k \in 1 .. Len(b) :
            /\ \A j \in 1 .. k - 1 : j <= Len(a) /\ a[j] = b[j]
            /\ k > Len(a) \/ a[k] < b[k]

\* A later release keeps the migrations of the earlier ones.
ASSUME ConstantsAssumption ==
    /\ Public \notin Tenants
    /\ TenantOf \in [Runtimes -> Tenants]
    /\ Versions \subseteq Nat
    /\ Known \in [Runtimes -> SUBSET Versions]
    /\ \A r \in Runtimes : \A v \in Known[r], w \in Versions : w < v => w \in Known[r]
    /\ MaxFails \in Nat

VARIABLES
    exists,    \* schemas that exist
    tables,    \* schemas that have a table _schema_migrations
    recorded,  \* recorded[s]: committed rows of that table
    log,       \* log[s]: migrations whose statements are committed, in order
    pc,        \* where each runtime is
    schema,    \* the schema it works on
    todo,      \* files of its loop that it has not treated yet
    current,   \* the one it applies
    fails      \* errors and crashes so far

database == <<exists, tables, recorded, log>>
locals == <<schema, todo, current>>
vars == <<database, pc, locals, fails>>

NoFile == 0

Init ==
    /\ exists \in SUBSET Schemas
    /\ tables = {}
    /\ recorded = [s \in Schemas |-> {}]
    /\ log = [s \in Schemas |-> <<>>]
    /\ pc = [r \in Runtimes |-> "down"]
    /\ schema = [r \in Runtimes |-> Public]
    /\ todo = [r \in Runtimes |-> {}]
    /\ current = [r \in Runtimes |-> NoFile]
    /\ fails = 0

Goto(r, label) == pc' = [pc EXCEPT ![r] = label]

\* log.Fatalf, or a crash: the connection is closed, which rolls an open
\* transaction back.
Abort(r) ==
    /\ Goto(r, "down")
    /\ schema' = [schema EXCEPT ![r] = Public]
    /\ todo' = [todo EXCEPT ![r] = {}]
    /\ current' = [current EXCEPT ![r] = NoFile]

-----------------------------------------------------------------------------
(* Run and applyDir.                                                       *)

\* runMigrations: the database is opened and answers.
Open(r) ==
    /\ pc[r] = "down"
    /\ Goto(r, "path")
    /\ UNCHANGED <<database, locals, fails>>

SetPath(r) ==
    /\ pc[r] = "path"
    /\ Goto(r, "table")
    /\ UNCHANGED <<database, locals, fails>>

\* Only an error makes applyDir create the schema, and only a tenant's.
SetPathFails(r) ==
    /\ pc[r] = "path" /\ schema[r] # Public
    /\ fails < MaxFails
    /\ fails' = fails + 1
    /\ Goto(r, "schema")
    /\ UNCHANGED <<database, locals>>

\* CREATE SCHEMA IF NOT EXISTS, then the search path once more.
CreateSchema(r) ==
    /\ pc[r] = "schema"
    /\ exists' = exists \union {schema[r]}
    /\ Goto(r, "table")
    /\ UNCHANGED <<tables, recorded, log, locals, fails>>

\* A search path without an existing schema leaves nowhere to create a table.
CreateTable(r) ==
    /\ pc[r] = "table"
    /\ IF schema[r] \in exists
       THEN /\ tables' = tables \union {schema[r]}
            /\ todo' = [todo EXCEPT ![r] = Known[r]]
            /\ Goto(r, "checking")
            /\ UNCHANGED <<schema, current>>
       ELSE Abort(r) /\ UNCHANGED tables
    /\ UNCHANGED <<exists, recorded, log, fails>>

M_FirstUnsorted(r, v) == v \in todo[r]

\* The next file of collectSQLFiles.
First(r, v) == v \in todo[r] /\ \A w \in todo[r] \ {v} : Before(v, w)

M_CheckWrongFile(r) ==
    /\ pc[r] = "checking"
    /\ \E v \in todo[r] :
         /\ First(r, v)
         /\ todo' = [todo EXCEPT ![r] = @ \ {v}]
         /\ IF v \in recorded[schema[r]]
            THEN UNCHANGED <<pc, current>>
            ELSE Goto(r, "executing") /\ current' = [current EXCEPT ![r] = v + 1]
    /\ UNCHANGED <<database, schema, fails>>

M_CheckBreaks(r) ==
    /\ pc[r] = "checking"
    /\ \E v \in todo[r] :
         /\ First(r, v)
         /\ IF v \in recorded[schema[r]]
            THEN todo' = [todo EXCEPT ![r] = {}] /\ UNCHANGED <<pc, current>>
            ELSE /\ todo' = [todo EXCEPT ![r] = @ \ {v}]
                 /\ Goto(r, "executing") /\ current' = [current EXCEPT ![r] = v]
    /\ UNCHANGED <<database, schema, fails>>

M_CheckNeverSkips(r) ==
    /\ pc[r] = "checking"
    /\ \E v \in todo[r] :
         /\ First(r, v)
         /\ todo' = [todo EXCEPT ![r] = @ \ {v}]
         /\ Goto(r, "executing") /\ current' = [current EXCEPT ![r] = v]
    /\ UNCHANGED <<database, schema, fails>>

\* SELECT COUNT sees what is committed, not what others are about to commit.
Check(r) ==
    /\ pc[r] = "checking"
    /\ \E v \in todo[r] :
         /\ First(r, v)
         /\ todo' = [todo EXCEPT ![r] = @ \ {v}]
         /\ IF v \in recorded[schema[r]]
            THEN UNCHANGED <<pc, current>>
            ELSE Goto(r, "executing") /\ current' = [current EXCEPT ![r] = v]
    /\ UNCHANGED <<database, schema, fails>>

\* The directory is done: the tenant's follows the public one, then main goes on.
EndDir(r) ==
    /\ pc[r] = "checking" /\ todo[r] = {}
    /\ IF schema[r] = Public
       THEN Goto(r, "path") /\ schema' = [schema EXCEPT ![r] = TenantOf[r]]
       ELSE Goto(r, "up") /\ schema' = [schema EXCEPT ![r] = Public]
    /\ UNCHANGED <<database, todo, current, fails>>

-----------------------------------------------------------------------------
(* applyMigration.                                                         *)

M_ExecuteOutsideTransaction(r) ==
    /\ pc[r] = "executing"
    /\ log' = [log EXCEPT ![schema[r]] = Append(@, current[r])]
    /\ Goto(r, "recording")
    /\ UNCHANGED <<exists, tables, recorded, locals, fails>>

\* BeginTx and the statements of the file: nobody sees their effect yet, and
\* another runtime may be executing the same file.
Execute(r) ==
    /\ pc[r] = "executing"
    /\ Goto(r, "recording")
    /\ UNCHANGED <<database, locals, fails>>

\* A transaction that has inserted the record of v in schema s and is open.
Inserted(r, s, v) == pc[r] = "committing" /\ schema[r] = s /\ current[r] = v

\* INSERT waits for others that insert the same name; a row that is there when
\* they have ended is an error, on which the runtime rolls back and exits.
Record(r) ==
    /\ pc[r] = "recording"
    /\ ~ \E q \in Runtimes : Inserted(q, schema[r], current[r])
    /\ IF current[r] \in recorded[schema[r]]
       THEN Abort(r)
       ELSE Goto(r, "committing") /\ UNCHANGED locals
    /\ UNCHANGED <<database, fails>>

Committed(r) ==
    /\ pc[r] = "committing"
    /\ log' = [log EXCEPT ![schema[r]] = Append(@, current[r])]
    /\ recorded' = [recorded EXCEPT ![schema[r]] = @ \union {current[r]}]
    /\ UNCHANGED <<exists, tables>>

Commit(r) ==
    /\ Committed(r)
    /\ Goto(r, "checking")
    /\ current' = [current EXCEPT ![r] = NoFile]
    /\ UNCHANGED <<schema, todo, fails>>

-----------------------------------------------------------------------------
(* Failures: every error is fatal.                                         *)

\* A statement fails, the runtime crashes, or is restarted later.
Fail(r) ==
    /\ pc[r] # "down" /\ fails < MaxFails
    /\ fails' = fails + 1
    /\ Abort(r)
    /\ UNCHANGED database

\* The transaction is committed and its answer is lost.
CommitLost(r) ==
    /\ fails < MaxFails
    /\ fails' = fails + 1
    /\ Committed(r)
    /\ Abort(r)

-----------------------------------------------------------------------------

Step(r) ==
    \/ Open(r) \/ SetPath(r) \/ CreateSchema(r) \/ CreateTable(r)
    \/ Check(r) \/ EndDir(r) \/ Execute(r) \/ Record(r) \/ Commit(r)

Next == \E r \in Runtimes : Step(r) \/ SetPathFails(r) \/ Fail(r) \/ CommitLost(r)

Spec == Init /\ [][Next]_vars

\* Runtimes run, the database answers, and what exits is started again.
FairSpec == Spec /\ \A r \in Runtimes : WF_vars(Step(r))

-----------------------------------------------------------------------------
(* Properties.                                                             *)

Labels == {"down", "path", "schema", "table", "checking", "executing", "recording", "committing",
           "up"}

\* Every variable keeps its type.
TypeOK ==
    /\ exists \subseteq Schemas
    /\ tables \subseteq Schemas
    /\ recorded \in [Schemas -> SUBSET Versions]
    /\ log \in [Schemas -> Seq(Versions)]
    /\ pc \in [Runtimes -> Labels]
    /\ schema \in [Runtimes -> Schemas]
    /\ todo \in [Runtimes -> SUBSET Versions]
    /\ current \in [Runtimes -> Versions \union {NoFile}]
    /\ fails \in 0 .. MaxFails

\* In every schema a migration takes effect at most once and together with its
\* record, although runtimes check, execute and record in separate steps and may
\* crash between any two of them or lose the answer to a commit.
Abstract == INSTANCE Migrations
ImplementsMigrations == Abstract!Spec

\* Migrations take effect in the order of their versions, whichever runtime of
\* whichever release applies them, as long as the version numbers have the same
\* number of digits (collectSQLFiles sorts strings: V1.10.0 precedes V1.2.0).
VersionOrder ==
    \A s \in Schemas : \A i, j \in 1 .. Len(log[s]) :
        i < j /\ SameWidth(log[s][i], log[s][j]) => log[s][i] < log[s][j]

\* A runtime that goes on to serve has every migration of its release in the
\* public schema and in its tenant's, whoever applied them.
UpIsMigrated ==
    \A r \in Runtimes :
        pc[r] = "up" => Known[r] \subseteq recorded[Public] \intersect recorded[TenantOf[r]]

\* A runtime whose schemas exist comes up once failures cease, also one that
\* lost the race for a migration and exited with an error, and whatever becomes
\* of the runtimes whose schemas do not exist.
EveryRuntimeComesUp ==
    \A r \in Runtimes : <>[]({Public, TenantOf[r]} \subseteq exists => pc[r] = "up")
=============================================================================
