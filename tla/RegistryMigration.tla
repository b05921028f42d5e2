-------------------------- MODULE RegistryMigration --------------------------
(***************************************************************************)
(* Bringing the registry's database into being and up to date               *)
(* (quant_platform.tracking.migrations): initialize_database applies every  *)
(* migration it was compiled with in one transaction, probe_database reads  *)
(* one snapshot and answers whether the registry is ready, and              *)
(* open_database looks at the database's WAL sidecar before it trusts it,   *)
(* while other connections come and go.  Processes of two releases, with    *)
(* different HMAC keys, may do so at once, and may be killed at it.         *)
(* SQLite is external: a transaction commits whole or not at all, one       *)
(* writer holds it, the last connection to close removes the sidecar.       *)
(***************************************************************************)
EXTENDS Naturals, FiniteSets

CONSTANTS
    Initializers, Probers,   \* processes, by what they call
    Compiled,                \* the newest migration each process was compiled with
    KeyOf,                   \* the HMAC authority each process was given
    Unkeyed,                 \* no authority
    Found,                   \* the databases there may be at the start
    Casts,                   \* which processes run, one set per behaviour
    MaxSidecars,             \* bound: WAL files ever created
    MaxKills                 \* bound: processes killed

Processes == Initializers \cup Probers
None == 0
Sidecars == 1..MaxSidecars

VARIABLES
    db,      \* the committed database
    writer,  \* who holds the write transaction
    open,    \* connections to the database
    wal,     \* the sidecar at the database's name: the number of its inode
    made,    \* sidecars created so far
    proc,    \* where each process is, and what it works on
    kills

vars == <<db, writer, open, wal, made, proc, kills>>

\* ledger and objects are sets of migrations: those recorded, and those whose
\* tables are there.  The registry's id is the process that drew it.
Database == [exists : BOOLEAN, ledger : SUBSET (1..3), objects : SUBSET (1..3),
             authority : {KeyOf[p] : p \in Processes} \cup {Unkeyed}, id : Processes \cup {Unkeyed}]
Missing == [exists |-> FALSE, ledger |-> {}, objects |-> {}, authority |-> Unkeyed, id |-> Unkeyed]
AtRest == [pc |-> "idle", seen |-> None, since |-> 0, again |-> FALSE, work |-> Missing,
           accepted |-> FALSE, id |-> Unkeyed]
Away == [AtRest EXCEPT !.pc = "away"]

TypeOK ==
    /\ db \in Database
    /\ writer \in Initializers \cup {Unkeyed}
    /\ open \subseteq Processes
    /\ wal \in Sidecars \cup {None} /\ made \in 0..MaxSidecars
    /\ proc \in [Processes -> [pc : {"away", "idle", "stat", "open", "fstat", "connect", "begin", "migrate",
                                   "bind", "verify", "commit", "probe", "refused", "close"},
                             seen : Sidecars \cup {None}, since : 0..MaxSidecars, again : BOOLEAN,
                             work : Database, accepted : BOOLEAN, id : Processes \cup {Unkeyed}]]
    /\ kills \in 0..MaxKills

Init ==
    /\ db \in Found
    /\ writer = Unkeyed /\ open = {} /\ wal = None /\ made = 0
    /\ \E cast \in Casts : proc = [p \in Processes |-> IF p \in cast THEN AtRest ELSE Away]
    /\ kills = 0

To(p, pc) == proc' = [proc EXCEPT ![p].pc = pc]

-----------------------------------------------------------------------------
\* open_database: inspect the files, connect, and inspect them once more.

\* A missing database file is created, empty, with O_EXCL.
PrepareFile(p) ==
    /\ p \in Initializers /\ proc[p].pc = "idle"
    /\ db' = [db EXCEPT !.exists = TRUE]
    /\ proc' = [proc EXCEPT ![p] = [AtRest EXCEPT !.pc = "stat"]]
    /\ UNCHANGED <<writer, open, wal, made, kills>>

\* A probe creates nothing.
StartProbe(p) ==
    /\ p \in Probers /\ proc[p].pc = "idle" /\ db.exists
    /\ proc' = [proc EXCEPT ![p] = [AtRest EXCEPT !.pc = "stat"]]
    /\ UNCHANGED <<db, writer, open, wal, made, kills>>

\* What follows a sidecar that is private, or absent.
Inspected(p) == IF proc[p].again THEN "begin" ELSE "connect"

StatSidecar(p) ==
    /\ proc[p].pc = "stat"
    /\ proc' = [proc EXCEPT ![p].seen = wal, ![p].since = made,
                            ![p].pc = IF wal = None THEN Inspected(p) ELSE "open"]
    /\ UNCHANGED <<db, writer, open, wal, made, kills>>

\* Its absence by now is benign, another file under its name is not.
OpenSidecar(p) ==
    /\ proc[p].pc = "open"
    /\ To(p, IF wal = None THEN Inspected(p) ELSE IF wal = proc[p].seen THEN "fstat" ELSE "refused")
    /\ UNCHANGED <<db, writer, open, wal, made, kills>>

\* Mutant: a descriptor without a link is refused.
FstatStrictly(p) ==
    /\ proc[p].pc = "fstat"
    /\ To(p, IF wal = proc[p].seen THEN Inspected(p) ELSE "refused")
    /\ UNCHANGED <<db, writer, open, wal, made, kills>>

\* A link count of zero, after a concurrent last close, counts as absence.
FstatSidecar(p) ==
    /\ proc[p].pc = "fstat"
    /\ To(p, Inspected(p))
    /\ UNCHANGED <<db, writer, open, wal, made, kills>>

\* The first use of a connection opens the sidecar, and creates it if need be.
UseSidecar(p) ==
    /\ open' = open \cup {p}
    /\ \/ wal # None /\ UNCHANGED <<wal, made>>
       \/ wal = None /\ made < MaxSidecars /\ wal' = made + 1 /\ made' = made + 1

\* journal_mode=WAL makes a writer use it at once; a reader's pragmas do not.
Connect(p) ==
    /\ proc[p].pc = "connect"
    /\ IF p \in Initializers THEN UseSidecar(p) ELSE UNCHANGED <<open, wal, made>>
    /\ proc' = [proc EXCEPT ![p].pc = "stat", ![p].again = TRUE]
    /\ UNCHANGED <<db, writer, kills>>

\* The last connection to close removes the sidecar.
Close(p) ==
    /\ proc[p].pc \in {"close", "refused"}
    /\ open' = open \ {p}
    /\ wal' = IF p \in open /\ open' = {} THEN None ELSE wal
    /\ To(p, "idle")
    /\ UNCHANGED <<db, writer, made, kills>>

-----------------------------------------------------------------------------
\* _verify_ledger: known migrations only, in a contiguous prefix.
LedgerHolds(p, d) ==
    /\ d.ledger \subseteq 1..Compiled[p]
    /\ d.ledger = 1..Cardinality(d.ledger)

\* No table of the registry without a ledger.
NotPartial(d) == d.ledger = {} => d.objects = {}

Work(p) == proc[p].work

\* BEGIN IMMEDIATE and the ledger; busy or refused is Fail.
Begin(p) ==
    /\ p \in Initializers /\ proc[p].pc = "begin"
    /\ writer = Unkeyed /\ LedgerHolds(p, db) /\ NotPartial(db)
    /\ writer' = p
    /\ proc' = [proc EXCEPT ![p].pc = "migrate", ![p].work = db]
    /\ UNCHANGED <<db, open, wal, made, kills>>

Pending(p) == 1..Compiled[p] \ Work(p).ledger
NextMigration(p) == Cardinality(Work(p).ledger) + 1

\* Mutant: executescript, which commits what is under way.
ApplyCommitting(p) ==
    /\ proc[p].pc = "migrate" /\ Pending(p) # {}
    /\ LET v == NextMigration(p)
           d == [Work(p) EXCEPT !.ledger = @ \cup {v}, !.objects = @ \cup {v}]
       IN /\ v \notin Work(p).objects
          /\ proc' = [proc EXCEPT ![p].work = d] /\ db' = d
    /\ UNCHANGED <<writer, open, wal, made, kills>>

\* One migration and its ledger row, statement by statement, uncommitted.
Apply(p) ==
    /\ proc[p].pc = "migrate" /\ Pending(p) # {}
    /\ LET v == NextMigration(p) IN
       /\ v \notin Work(p).objects
       /\ proc' = [proc EXCEPT ![p].work.ledger = @ \cup {v}, ![p].work.objects = @ \cup {v}]
    /\ UNCHANGED <<db, writer, open, wal, made, kills>>

Applied(p) ==
    /\ proc[p].pc = "migrate" /\ Pending(p) = {}
    /\ To(p, "bind")
    /\ UNCHANGED <<db, writer, open, wal, made, kills>>

\* Mutant: whoever applied a migration takes it for the first.
SomethingApplied(p) == Work(p).ledger # db.ledger

\* The ledger was empty when the transaction began.
FirstBootstrap(p) == db.ledger = {}

\* The first to initialize draws the registry's id and leaves its key's verifier;
\* everyone has to have that key.
BindAuthority(p) ==
    /\ proc[p].pc = "bind"
    /\ IF FirstBootstrap(p)
       THEN proc' = [proc EXCEPT ![p].pc = "verify", ![p].work.authority = KeyOf[p], ![p].work.id = p]
       ELSE Work(p).authority = KeyOf[p] /\ To(p, "verify")
    /\ UNCHANGED <<db, writer, open, wal, made, kills>>

\* Only names in sl_registry_ are compared with the canonical schema: those of
\* the first migration.
SchemaHolds(d) == 1 \in d.objects

VerifySchema(p) ==
    /\ proc[p].pc = "verify" /\ SchemaHolds(Work(p))
    /\ To(p, "commit")
    /\ UNCHANGED <<db, writer, open, wal, made, kills>>

Commit(p) ==
    /\ proc[p].pc = "commit"
    /\ db' = Work(p) /\ writer' = Unkeyed
    /\ proc' = [proc EXCEPT ![p].pc = "close", ![p].accepted = TRUE, ![p].id = Work(p).id]
    /\ UNCHANGED <<open, wal, made, kills>>

\* A newer, gapped or partial database, another key, a schema that differs, a
\* verification past its deadline, a busy database, an error of SQLite: rollback.
Fail(p) ==
    /\ proc[p].pc \in {"connect", "begin", "migrate", "bind", "verify", "commit"}
    /\ writer' = IF writer = p THEN Unkeyed ELSE writer
    /\ To(p, "close")
    /\ UNCHANGED <<db, open, wal, made, kills>>

-----------------------------------------------------------------------------
\* probe_database: BEGIN on a read-only connection fixes the snapshot.
Snapshot(p) ==
    /\ p \in Probers /\ proc[p].pc = "begin"
    /\ UseSidecar(p)
    /\ proc' = [proc EXCEPT ![p].pc = "probe", ![p].work = db]
    /\ UNCHANGED <<db, writer, kills>>

\* Ready: the ledger is there, known and complete, the key and the schema hold.
Ready(p) ==
    /\ Work(p).ledger = 1..Compiled[p]
    /\ Work(p).authority = KeyOf[p]
    /\ SchemaHolds(Work(p))

Answer(p) ==
    /\ proc[p].pc = "probe"
    /\ proc' = [proc EXCEPT ![p].pc = "close", ![p].accepted = Ready(p),
                            ![p].id = IF Ready(p) THEN Work(p).id ELSE Unkeyed]
    /\ UNCHANGED <<db, writer, open, wal, made, kills>>

\* The kernel closes what a killed process had open; the sidecar stays, and the
\* next connection rolls back what was not committed.
Kill(p) ==
    /\ proc[p].pc \notin {"away", "idle"} /\ kills < MaxKills
    /\ kills' = kills + 1
    /\ open' = open \ {p} /\ writer' = IF writer = p THEN Unkeyed ELSE writer
    /\ proc' = [proc EXCEPT ![p] = AtRest]
    /\ UNCHANGED <<db, wal, made>>

Next ==
    \E p \in Processes :
        \/ PrepareFile(p) \/ StartProbe(p) \/ StatSidecar(p) \/ OpenSidecar(p) \/ FstatSidecar(p)
        \/ Connect(p) \/ Close(p) \/ Begin(p) \/ Apply(p) \/ Applied(p) \/ BindAuthority(p)
        \/ VerifySchema(p) \/ Commit(p) \/ Fail(p) \/ Snapshot(p) \/ Answer(p) \/ Kill(p)

Spec == Init /\ [][Next]_vars

-----------------------------------------------------------------------------
\* Whoever was told the registry is initialized or ready has a database with all
\* of its migrations, its own key and the id it was given, through every later
\* migration, kill and refused attempt of processes of any release.  The databases found
\* at the start have what their ledger records: of a complete ledger over missing objects
\* nobody notices (ReadyIsCanonical, below).
AcceptedIsWhole ==
    \A p \in Processes : proc[p].accepted =>
        /\ db.ledger = db.objects /\ 1..Compiled[p] \subseteq db.ledger
        /\ db.authority = KeyOf[p] /\ db.id = proc[p].id

\* An opener is refused for its sidecar only if the sidecar was made anew while it
\* looked, never because others closed theirs (_validate_private_file).
OnlyAReplacementRefuses ==
    \A p \in Processes : proc[p].pc = "refused" => made > proc[p].since

\* A database goes from one release's whole schema to another's, recorded, and
\* keeps its id and its key: no process ever sees half a migration.
CommitsAreWhole ==
    [][db' # db /\ db.exists =>
          /\ \E p \in Initializers : db'.ledger = 1..Compiled[p]
          /\ db'.objects = db'.ledger /\ db.ledger \subseteq db'.ledger
          /\ db.id # Unkeyed => db'.id = db.id /\ db'.authority = db.authority]_vars

\* docs/run_registry.md: "canonical schema-object verification".  What is accepted
\* has every object of every migration its ledger records.
ReadyIsCanonical ==
    \A p \in Probers : proc[p].accepted /\ db = proc[p].work => db.objects = db.ledger

\* No opener is refused for what others legitimately did.
NoBenignRefusal == \A p \in Processes : proc[p].pc # "refused"
=============================================================================
