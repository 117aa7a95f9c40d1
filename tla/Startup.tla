-------------------------------- MODULE Startup --------------------------------
(***************************************************************************)
(* The start of the processes that share one database file: server.ts and  *)
(* db/migrate.ts, which open it, apply the pending migrations and seed the *)
(* policy bundles, connection.ts and seed.ts.                              *)
(*                                                                         *)
(* A process runs these steps without an await, but another process may do *)
(* its own between any two statements.  SQLite (external) admits one       *)
(* writer; what a transaction writes is seen when it commits and is lost   *)
(* when its process stops.  A transaction that begins with a write waits   *)
(* for the writer up to the busy timeout; one that has read before fails   *)
(* at once if there is a writer or somebody has written since.             *)
(***************************************************************************)
EXTENDS Integers, FiniteSets

CONSTANTS
    Processes,          \* processes started on the database, again and again
    Servers,            \* those that run server.ts; the others run migrate.ts
    N,                  \* number of migration files
    Bundles,            \* POLICY_BUNDLES
    Earlier,            \* databases a process may find: a new file, or what an
                        \* earlier release with fewer files and bundles left
    Nobody              \* "there is no writer"

\* readdirSync(..).sort(): a file goes by its position in the sorted names.
Files == 1..N

\* What is committed: whether schema_migrations exists, its names, how often
\* the statements of each file have been executed, and policy_bundles.
Database == [tracked: BOOLEAN, names: SUBSET Files,
             effects: [Files -> Nat], bundles: SUBSET Bundles]

\* Each file recorded has been executed once, and each other one not at all.
Recorded(d) == \A f \in Files : d.effects[f] = IF f \in d.names THEN 1 ELSE 0

\* A file is applied after all those before it.
InOrder(d) == \E n \in 0..N : d.names = 1..n

StartupAssumption ==
    /\ Servers \subseteq Processes
    /\ N \in Nat
    /\ Nobody \notin Processes
    /\ Earlier \subseteq Database
    /\ \A d \in Earlier : Recorded(d) /\ InOrder(d)

ASSUME StartupConstants == StartupAssumption

VARIABLES
    db,                 \* the committed database
    writer,             \* process with a write transaction, or Nobody
    pc,                 \* where each process is
    passed,             \* files its loop has passed: in "applied", or its own
    snapshot            \* the database its seed transaction reads

vars == <<db, writer, pc, passed, snapshot>>

\* Not running: never started or stopped by a crash; ended; ended by an
\* exception.  And the stages of a process that is starting.
Stopped == {"off", "done", "failed"}
Starting == {"opened", "tracking", "migrating", "applying", "seeding", "inserting"}
Serving == {"listening"}

Move(p, stage) == pc' = [pc EXCEPT ![p] = stage]

Init ==
    /\ db \in Earlier
    /\ writer = Nobody
    /\ pc = [p \in Processes |-> "off"]
    /\ passed = [p \in Processes |-> {}]
    /\ snapshot = [p \in Processes |-> db]

-----------------------------------------------------------------------------
(* openDatabase and runMigrations                                           *)

Open(p) ==
    /\ pc[p] \in Stopped
    /\ Move(p, "opened")
    /\ UNCHANGED <<db, writer, passed, snapshot>>

\* CREATE TABLE IF NOT EXISTS schema_migrations
EnsureTracking(p) ==
    /\ pc[p] = "opened"
    /\ db' = [db EXCEPT !.tracked = TRUE]
    /\ Move(p, "tracking")
    /\ UNCHANGED <<writer, passed, snapshot>>

\* The names read once, before the loop.  (NothingYet: as if never read.)
NothingYet(d) == {}
AppliedSoFar(d) == d.names

ReadApplied(p) ==
    /\ pc[p] = "tracking"
    /\ passed' = [passed EXCEPT ![p] = AppliedSoFar(db)]
    /\ Move(p, "migrating")
    /\ UNCHANGED <<db, writer, snapshot>>

Pending(p) == Files \ passed[p]

\* The next file of the loop.  (LastOf: in descending order.)
LastOf(files) == CHOOSE f \in files : \A g \in files : g <= f
FirstOf(files) == CHOOSE f \in files : \A g \in files : f <= g

\* apply(file, sql) begins: its first statement takes the write lock.
BeginApply(p) ==
    /\ pc[p] = "migrating"
    /\ Pending(p) # {}
    /\ writer = Nobody
    /\ writer' = p
    /\ Move(p, "applying")
    /\ UNCHANGED <<db, passed, snapshot>>

\* The file's statements, which create tables or insert rows and fail if these
\* are there, and the insert of its name, a primary key.  (OrIgnored: with
\* IF NOT EXISTS and OR IGNORE.)
OrIgnored(d, f) == f \in Files
Executes(d, f) == d.effects[f] = 0 /\ f \notin d.names

CommitApply(p) ==
    LET f == FirstOf(Pending(p)) IN
    /\ pc[p] = "applying"
    /\ Executes(db, f)
    /\ db' = [db EXCEPT !.names = @ \cup {f}, !.effects[f] = @ + 1]
    /\ passed' = [passed EXCEPT ![p] = @ \cup {f}]
    /\ writer' = Nobody
    /\ Move(p, "migrating")
    /\ UNCHANGED snapshot

\* What remains of a db.transaction(..) that does not commit.
\* (ExecStays: with the statements of the file outside a transaction.)
ExecStays(p) ==
    IF pc[p] = "applying" /\ db.effects[FirstOf(Pending(p))] = 0
    THEN db' = [db EXCEPT !.effects[FirstOf(Pending(p))] = 1]
    ELSE UNCHANGED db

RolledBack(p) == UNCHANGED db

\* Somebody else has applied the file: the exception ends the process.  (A
\* CREATE TABLE fails when it is compiled, before it takes the lock.)
FailApply(p) ==
    /\ pc[p] = "applying"
    /\ ~Executes(db, FirstOf(Pending(p)))
    /\ RolledBack(p)
    /\ writer' = Nobody
    /\ Move(p, "failed")
    /\ UNCHANGED <<passed, snapshot>>

\* SQLITE_BUSY after the busy timeout.
GiveUp(p) ==
    /\ pc[p] = "migrating"
    /\ Pending(p) # {}
    /\ writer # Nobody
    /\ Move(p, "failed")
    /\ UNCHANGED <<db, writer, passed, snapshot>>

-----------------------------------------------------------------------------
(* seedDemoData, and the end of server.ts and migrate.ts                    *)

\* Bundles the seed transaction does not find.  (UnlessSeeded: looked for
\* only once, for all of them together.)
UnlessSeeded(d) == IF d.bundles = {} THEN Bundles ELSE {}
Missing(d) == Bundles \ d.bundles

Ready(p) == IF p \in Servers THEN "listening" ELSE "done"

\* The first SELECT of the transaction opens its snapshot.
BeginSeed(p) ==
    /\ pc[p] = "migrating"
    /\ Pending(p) = {}
    /\ snapshot' = [snapshot EXCEPT ![p] = db]
    /\ Move(p, IF Missing(db) = {} THEN Ready(p) ELSE "seeding")
    /\ UNCHANGED <<db, writer, passed>>

\* The first INSERT turns it into a write transaction.
MayWrite(p) == writer = Nobody /\ snapshot[p] = db

BeginInsert(p) ==
    /\ pc[p] = "seeding"
    /\ MayWrite(p)
    /\ writer' = p
    /\ Move(p, "inserting")
    /\ UNCHANGED <<db, passed, snapshot>>

\* SQLITE_BUSY or SQLITE_BUSY_SNAPSHOT: the exception ends the process.
FailInsert(p) ==
    /\ pc[p] = "seeding"
    /\ ~MayWrite(p)
    /\ Move(p, "failed")
    /\ UNCHANGED <<db, writer, passed, snapshot>>

CommitSeed(p) ==
    /\ pc[p] = "inserting"
    /\ db' = [db EXCEPT !.bundles = @ \cup Missing(snapshot[p])]
    /\ writer' = Nobody
    /\ Move(p, Ready(p))
    /\ UNCHANGED <<passed, snapshot>>

-----------------------------------------------------------------------------
(* A process stops at any point, and the specification.                     *)

Crash(p) ==
    /\ pc[p] \notin Stopped
    /\ RolledBack(p)
    /\ writer' = IF writer = p THEN Nobody ELSE writer
    /\ Move(p, "off")
    /\ UNCHANGED <<passed, snapshot>>

Advance(p) ==
    \/ EnsureTracking(p)
    \/ ReadApplied(p)
    \/ BeginApply(p) \/ CommitApply(p) \/ FailApply(p) \/ GiveUp(p)
    \/ BeginSeed(p) \/ BeginInsert(p) \/ FailInsert(p) \/ CommitSeed(p)

Next == \E p \in Processes : Open(p) \/ Advance(p) \/ Crash(p)

\* A process that is running goes on; nobody has to start one.
Fairness == \A p \in Processes : WF_vars(Advance(p))

Spec == Init /\ [][Next]_vars /\ Fairness

-----------------------------------------------------------------------------
(* Properties.                                                              *)

\* Every variable has its type, and the writer is the process inside a write
\* transaction.
TypeOK ==
    /\ db \in Database
    /\ \A f \in Files : db.effects[f] <= 1
    /\ writer \in Processes \cup {Nobody}
    /\ pc \in [Processes -> Stopped \cup Starting \cup Serving]
    /\ passed \in [Processes -> SUBSET Files]
    /\ snapshot \in [Processes -> Database]
    /\ \A p \in Processes : pc[p] \in {"applying", "inserting"} <=> writer = p

\* connection.ts: migrations are "tracked in schema_migrations so they run
\* exactly once", though a process may work on a list of names that others
\* have outdated, and may stop inside a file.
RunExactlyOnce == Recorded(db)

\* What is committed grows by one whole file, the next in order, or by all
\* missing bundles at once, after the last file.
GrowsInOrder ==
    [][ \/ db'.names = db.names /\ db'.bundles = db.bundles
        \/ /\ \E n \in 0..(N - 1) : db.names = 1..n /\ db'.names = 1..(n + 1)
           /\ db'.bundles = db.bundles
        \/ /\ db.names = Files
           /\ db'.names = Files
           /\ db'.bundles = Bundles
      ]_vars

\* A server listens on a complete database only.
ListeningIsComplete ==
    \A p \in Servers : pc[p] = "listening" => db.names = Files /\ db.bundles = Bundles

\* Whatever crashes and races were before, a process that is started while no
\* other one is starting gets through, unless it is stopped or joined.
LoneStartSucceeds ==
    \A p \in Processes :
        ( /\ pc[p] = "opened"
          /\ \A q \in Processes \ {p} : pc[q] \notin Starting )
        ~> ( \/ pc[p] \in {Ready(p), "off"}
             \/ \E q \in Processes \ {p} : pc[q] \in Starting )

=============================================================================
