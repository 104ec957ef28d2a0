------------------------------ MODULE Migrations ------------------------------
(***************************************************************************)
(* The start of a process (main.py lifespan) and the migration of the      *)
(* database it begins with (migrations.py): the processes of a deployment  *)
(* start, die and are replaced by other releases while they share one      *)
(* database.                                                               *)
(*                                                                         *)
(* Migration m is the m-th element of MIGRATIONS.  It stands for its       *)
(* change, a table or columns; Table says which migration introduced the   *)
(* table that the change is in.  A release knows the migrations up to its  *)
(* head.                                                                   *)
(*                                                                         *)
(* A definition whose comment starts with "Mutant" is the definition below *)
(* it with a plausible bug; it is not part of the specification.           *)
(***************************************************************************)
EXTENDS Integers, Sequences, FiniteSets

CONSTANTS
    Procs,
    Nobody,
    Heads,     \* heads of the releases that are deployed
    Table,
    Dialect,   \* "sqlite" or "postgres"
    MaxFaults  \* bound: deaths of processes and faults of the database

Versions == 1 .. Len(Table)

ASSUME MigrationAssumption ==
    /\ Nobody \notin Procs /\ Heads \subseteq Versions /\ Heads # {}
    /\ Table \in Seq(Nat) /\ \A m \in Versions : Table[m] \in 1 .. m /\ Table[Table[m]] = Table[m]
    /\ Dialect \in {"sqlite", "postgres"} /\ MaxFaults \in Nat

VARIABLES
    schema,  \* the changes the database has
    ledger,  \* schema_migrations
    lock,    \* who holds the migration lock, with an open transaction
    draft,   \* schema and ledger as that transaction sees them
    at,      \* the migration it has come to
    head,    \* the release a process runs
    stage,   \* how far a process is
    faults

database  == <<schema, ledger>>
migration == <<lock, draft, at>>
procs     == <<head, stage, faults>>
migVars   == <<database, migration, procs>>

Database == [schema : SUBSET Versions, ledger : SUBSET Versions]

MigTypeOK ==
    /\ [schema |-> schema, ledger |-> ledger] \in Database /\ draft \in Database
    /\ lock \in Procs \cup {Nobody} /\ at \in 1 .. Len(Table) + 1
    /\ head \in [Procs -> Heads] /\ stage \in [Procs -> {"down", "lock", "apply", "serving"}]
    /\ faults \in 0 .. MaxFaults

NoDraft == [schema |-> {}, ledger |-> {}]

\* A new database, one of a release that had no ledger, or one of a release that had.
\* The ledger of a PostgreSQL database is never written (see Raises).
MigInit ==
    /\ \E n \in {0} \cup Heads : schema = 1 .. n /\ ledger \in {{}, 1 .. n}
    /\ Dialect = "postgres" => ledger = {}
    /\ lock = Nobody /\ draft = NoDraft /\ at = 1
    /\ head = [p \in Procs |-> CHOOSE h \in Heads : TRUE]
    /\ stage = [p \in Procs |-> "down"] /\ faults = 0

Become(p, s) == stage' = [stage EXCEPT ![p] = s]

\* A process of some release is started: lifespan calls database.initialize.
Boot(p) ==
    /\ stage[p] = "down" /\ Become(p, "lock")
    /\ \E h \in Heads : head' = [head EXCEPT ![p] = h]
    /\ UNCHANGED <<database, migration, faults>>

\* BEGIN IMMEDIATE or pg_advisory_lock, CREATE TABLE schema_migrations and the SELECT
\* of the recorded versions.
Lock(p) ==
    /\ stage[p] = "lock" /\ lock = Nobody /\ Become(p, "apply")
    /\ lock' = p /\ at' = 1
    /\ draft' = [schema |-> schema, ledger |-> ledger]
    /\ UNCHANGED <<database, head, faults>>

\* SQLite waits for the lock for busy_timeout and raises: the process ends.
Busy(p) ==
    /\ stage[p] = "lock" /\ lock # Nobody /\ Dialect = "sqlite" /\ Become(p, "down")
    /\ UNCHANGED <<database, migration, head, faults>>

\* SCHEMA: every table that the database does not have is created, in its latest form.
Schema(h) == {c \in 1 .. h : Table[c] \notin draft.schema}

\* Mutant: tables are left to SCHEMA.
ChangeColumns(h, m) == IF m = 1 THEN Schema(h) ELSE {c \in {m} : Table[c] # c}

\* What migration m of a release with head h adds: the first one runs SCHEMA, the others
\* create a table or add the columns that are missing.
Change(h, m) == IF m = 1 THEN Schema(h) ELSE {m}

\* Mutant: ALTER TABLE without the look at the columns.
RaisesOnDuplicate(m) == Dialect = "postgres" \/ (m # 1 /\ m \in draft.schema)

\* PostgresConnection.execute appends RETURNING id to each INSERT; schema_migrations has
\* no column id, so recording a version raises.
Raises(m) == Dialect = "postgres"

\* Mutant: the loop goes on behind the last migration.
ComeBeyond(p) == stage[p] = "apply" /\ lock = p /\ at <= head[p] + 1

\* _migrate_connection is at one of the release's migrations.
Come(p) == stage[p] = "apply" /\ lock = p /\ at <= head[p]

\* The loop of _migrate_connection: a recorded version is skipped.
Skip(p) ==
    /\ Come(p) /\ at \in draft.ledger /\ at' = at + 1
    /\ UNCHANGED <<database, lock, draft, procs>>

\* A version that is not recorded is applied and recorded.
Apply(p) ==
    /\ Come(p) /\ at \notin draft.ledger /\ ~Raises(at)
    /\ at' = at + 1
    /\ draft' = [schema |-> draft.schema \cup Change(head[p], at),
                 ledger |-> draft.ledger \cup {at}]
    /\ UNCHANGED <<database, lock, procs>>

Unlock == lock' = Nobody /\ draft' = NoDraft /\ at' = 1

\* The process ends; an open transaction is rolled back and the lock is free.
End(p) ==
    /\ Become(p, "down") /\ IF lock = p THEN Unlock ELSE UNCHANGED migration
    /\ UNCHANGED <<database, head>>

\* A migration or its record raises, or a fault of the database makes it.
Fail(p) ==
    /\ Come(p) /\ at \notin draft.ledger /\ (Raises(at) \/ faults < MaxFaults)
    /\ faults' = IF Raises(at) THEN faults ELSE faults + 1
    /\ End(p)

\* The end of database.connect: COMMIT frees the lock of SQLite.  On PostgreSQL, where
\* the unlock comes first, no transaction gets this far.
Commit(p) ==
    /\ stage[p] = "apply" /\ lock = p /\ at > head[p] /\ Become(p, "serving")
    /\ schema' = draft.schema /\ ledger' = draft.ledger /\ Unlock
    /\ UNCHANGED <<head, faults>>

\* Mutant: each statement commits on its own.
DieCommitted(p) ==
    /\ stage[p] # "down" /\ faults < MaxFaults /\ faults' = faults + 1
    /\ schema' = (IF lock = p THEN draft.schema ELSE schema)
    /\ Become(p, "down") /\ IF lock = p THEN Unlock ELSE UNCHANGED migration
    /\ UNCHANGED <<ledger, head>>

\* A process dies, or is stopped for an upgrade.
Die(p) == stage[p] # "down" /\ faults < MaxFaults /\ faults' = faults + 1 /\ End(p)

\* The start of a process up to its service.
Start(p) == Boot(p) \/ Lock(p) \/ Busy(p) \/ Skip(p) \/ Apply(p) \/ Fail(p) \/ Commit(p)

\* migrations.py: the ledger records an initial segment of the migrations, the schema has
\* what it records, and no process serves before its release's migrations are both in
\* the schema and recorded, whichever releases start, race and die.
LedgerIsTrue ==
    /\ ledger \subseteq schema /\ \A m \in ledger : 1 .. m \subseteq ledger
    /\ \A p \in Procs : stage[p] = "serving" => 1 .. head[p] \subseteq ledger

\* _migration_lock, connect: the database changes only by a whole migration run, so a
\* process that dies in one leaves neither a half-made schema nor a version recorded.
AllOrNothing ==
    [][database' # database =>
         \E p \in Procs : /\ lock = p /\ stage'[p] = "serving"
                          /\ 1 .. head[p] \subseteq schema' \cap ledger']_migVars

\* README: every process that is started comes to serve, on either database.
EveryProcessServes == \A p \in Procs : <>[](stage[p] = "serving")

(***************************************************************************)
(* The inductive invariant behind the safety properties                    *)
(***************************************************************************)
\* Who applies migrations holds the lock, and nobody else does.
HolderApplies == \A p \in Procs : stage[p] = "apply" <=> lock = p

\* The open transaction has all that is committed, the migrations it has come past, and
\* a ledger that is true.
DraftIsTrue ==
    lock # Nobody =>
      /\ schema \subseteq draft.schema /\ ledger \subseteq draft.ledger
      /\ draft.ledger \subseteq draft.schema
      /\ \A m \in draft.ledger : 1 .. m \subseteq draft.ledger
      /\ 1 .. at - 1 \subseteq draft.ledger /\ at <= head[lock] + 1

MigIInv == MigTypeOK /\ HolderApplies /\ DraftIsTrue /\ LedgerIsTrue
=============================================================================
