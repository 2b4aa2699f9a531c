----------------------------- MODULE Bootstrap -----------------------------
(***************************************************************************)
(* What a start of the process does to the database before it serves:      *)
(* bootstrap() of services/api/src/db/init.py over db/001..013*.sql.       *)
(*                                                                         *)
(* Each statement is executed and commits by itself; one that raises is    *)
(* logged and the next one follows.  A file of _MIGRATIONS is recorded in  *)
(* platform.schema_migration when its statements have been gone through,   *)
(* whatever they did, and is skipped at later starts.  The table itself is *)
(* made by one of the files, so that the files before it are run at the    *)
(* first two starts.  The process can die anywhere.                        *)
(*                                                                         *)
(* What a database holds is a set of objects: tables, columns, indexes and *)
(* rows that a statement makes or needs.                                   *)
(***************************************************************************)
EXTENDS Naturals, Sequences

CONSTANTS
    Objects,
    Schema,      \* the statements of 001_core_duckdb.sql
    Migrations,  \* Migrations[m]: those of the m-th file of _MIGRATIONS
    Ledger,      \* the table platform.schema_migration
    Found,       \* the databases that a first start may find
    MaxFaults    \* bound on the calls that fail without a reason in db

\* CREATE ... IF NOT EXISTS makes its object unless it is there, and brings
\* with a new one what only a new one has.
Statement == [needs : SUBSET Objects, makes : SUBSET Objects, brings : SUBSET Objects,
              drops : SUBSET Objects]

ASSUME BootstrapAssumption ==
    /\ Schema \in Seq(Statement)
    /\ Migrations \in Seq(Seq(Statement))
    /\ Ledger \in Objects
    /\ Found \subseteq SUBSET Objects
    /\ MaxFaults \in Nat

VARIABLES
    db,          \* the objects that are there
    recorded,    \* the rows of platform.schema_migration
    phase,       \* what the process is doing
    file,        \* the file it is at; 0 is the schema
    next,        \* the statement of the file that comes next
    faults,      \* how many calls failed, for the bound
    lost         \* what a statement failed to make, in this start or in the
                 \* one that recorded its file (history, guards nothing)

vars == <<db, recorded, phase, file, next, faults, lost>>

Last == Len(Migrations)
Script(m) == IF m = 0 THEN Schema ELSE Migrations[m]

Promised(m) == UNION {Script(m)[k].makes : k \in DOMAIN Script(m)}
Dropped == UNION {UNION {Script(m)[k].drops : k \in DOMAIN Script(m)} : m \in 0..Last}

TypeOK ==
    /\ db \subseteq Objects
    /\ recorded \subseteq 1..Last
    /\ phase \in {"down", "check", "run", "up"}
    /\ file \in 0..(Last + 1)
    /\ next \in Nat
    /\ phase = "run" => file <= Last /\ next \in 1..(Len(Script(file)) + 1)
    /\ phase = "up" => file = Last + 1
    /\ phase = "down" => file = 0
    /\ faults \in 0..MaxFaults
    /\ lost \subseteq Objects

Init ==
    /\ db \in Found
    /\ recorded = {}
    /\ phase = "down"
    /\ file = 0 /\ next = 1
    /\ faults = 0
    /\ lost = {}

----------------------------------------------------------------------------
\* The connection may fail any call, which every caller here survives.
Fault == faults < MaxFaults /\ faults' = faults + 1
NoFault == faults' = faults

\* lifespan: the connection is open, the schema comes first.
Boot ==
    /\ phase = "down"
    /\ phase' = "check"
    /\ lost' = lost \cap UNION {Promised(m) : m \in recorded}
    /\ NoFault
    /\ UNCHANGED <<db, recorded, file, next>>

\* The row is found; not so without the table, and the schema has none.
Applied == file \in recorded /\ Ledger \in db

Skip ==
    /\ file' = file + 1
    /\ UNCHANGED <<phase, next>>

Enter ==
    /\ phase' = "run" /\ next' = 1
    /\ UNCHANGED file

\* _is_migration_applied, which takes an exception for a no.
Check ==
    /\ phase = "check" /\ file <= Last
    /\ \/ Applied /\ Skip /\ NoFault
       \/ ~Applied /\ Enter /\ NoFault
       \/ file # 0 /\ Enter /\ Fault
    /\ UNCHANGED <<db, recorded, lost>>

\* conn.execute(stmt)
Execute ==
    /\ phase = "run" /\ next <= Len(Script(file))
    /\ LET s == Script(file)[next]
           new == IF s.makes \subseteq db THEN {} ELSE s.makes \cup s.brings
       IN  /\ s.needs \subseteq db
           /\ db' = (db \cup new) \ s.drops
    /\ next' = next + 1
    /\ NoFault
    /\ UNCHANGED <<recorded, phase, file, lost>>

\* Mutant: the rest of the file is given up.
RaiseAbandons ==
    /\ phase = "run" /\ next <= Len(Script(file))
    /\ LET s == Script(file)[next]
       IN  /\ IF s.needs \subseteq db THEN Fault ELSE NoFault
           /\ lost' = lost \cup s.makes
    /\ next' = Len(Script(file)) + 1
    /\ UNCHANGED <<db, recorded, phase, file>>

\* It raises, is logged, and the next one follows.
Raise ==
    /\ phase = "run" /\ next <= Len(Script(file))
    /\ LET s == Script(file)[next]
       IN  /\ IF s.needs \subseteq db THEN Fault ELSE NoFault
           /\ lost' = lost \cup s.makes
    /\ next' = next + 1
    /\ UNCHANGED <<db, recorded, phase, file>>

\* Mutant: it writes the row of the next file.
RecordNext ==
    /\ phase = "run" /\ next > Len(Script(file))
    /\ recorded' = IF file # 0 /\ Ledger \in db THEN recorded \cup {file + 1} ELSE recorded
    /\ phase' = "check" /\ file' = file + 1 /\ next' = 1
    /\ NoFault
    /\ UNCHANGED <<db, lost>>

\* _record_migration, which may fail; the schema is not recorded.
Record ==
    /\ phase = "run" /\ next > Len(Script(file))
    /\ \/ /\ recorded' = IF file # 0 /\ Ledger \in db THEN recorded \cup {file} ELSE recorded
          /\ NoFault
       \/ /\ file # 0 /\ Ledger \in db
          /\ Fault
          /\ UNCHANGED recorded
    /\ phase' = "check" /\ file' = file + 1 /\ next' = 1
    /\ UNCHANGED <<db, lost>>

\* The rest of the bootstrap rewrites stored SQL (module TransformLifecycle)
\* and makes what any start can make again.
Serve ==
    /\ phase = "check" /\ file = Last + 1
    /\ phase' = "up"
    /\ NoFault
    /\ UNCHANGED <<db, recorded, file, next, lost>>

Stop ==
    /\ phase # "down"
    /\ phase' = "down" /\ file' = 0 /\ next' = 1
    /\ NoFault
    /\ UNCHANGED <<db, recorded, lost>>

Next == Boot \/ Check \/ Execute \/ Raise \/ Record \/ Serve \/ Stop

Spec == Init /\ [][Next]_vars

----------------------------------------------------------------------------
\* A process that serves finds every table, column, index and row that any
\* file makes, however often earlier starts died or failed half way, except
\* what was not made in this very start, or in the start that recorded the
\* file: a failure heals at the next start until its file is recorded, and
\* never after that.
FailuresHealUntilRecorded ==
    phase = "up" => \A m \in 0..Last : Promised(m) \ Dropped \subseteq db \cup lost

=============================================================================
