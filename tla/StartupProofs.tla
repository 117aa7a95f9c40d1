----------------------------- MODULE StartupProofs -----------------------------
(***************************************************************************)
(* Proofs about Startup for any number of processes, files and bundles.    *)
(***************************************************************************)
EXTENDS Startup, TLAPS

\* schema_migrations is there before a process goes on.
TrackedFirst ==
    \A p \in Processes : pc[p] \in Starting \ {"opened"} => db.tracked

\* What a process of the loop has passed is a first part of the files, and all
\* of it is applied.
PassedIsApplied ==
    \A p \in Processes : pc[p] \in {"migrating", "applying"} =>
        /\ \E k \in 0..N : passed[p] = 1..k
        /\ passed[p] \subseteq db.names

\* A process is inside the transaction of a file only if one is left.
ApplyingHasFile == \A p \in Processes : pc[p] = "applying" => Pending(p) # {}

\* Seeding begins after the last file, and once it writes nobody else does.
SeedingIsLast ==
    \A p \in Processes :
        /\ pc[p] \in {"seeding", "inserting"} => db.names = Files
        /\ pc[p] = "inserting" => snapshot[p] = db

Complete == db.names = Files /\ db.bundles = Bundles

ReadyIsComplete == \A p \in Processes : pc[p] = "listening" => Complete

\* The inductive invariant: no property of the runs is inductive by itself,
\* because a commit relies on what the process passed over before.
Inv ==
    /\ TypeOK
    /\ Recorded(db)
    /\ InOrder(db)
    /\ TrackedFirst
    /\ PassedIsApplied
    /\ ApplyingHasFile
    /\ SeedingIsLast
    /\ ReadyIsComplete

-----------------------------------------------------------------------------
(* Lemmas about the loop over the files.                                    *)

\* The first of the files after k is k + 1.
LEMMA FirstOfRest ==
    ASSUME N \in Nat, NEW k \in 0..N, Files \ (1..k) # {}
    PROVE  /\ FirstOf(Files \ (1..k)) = k + 1
           /\ k < N
<1>1. k < N
  BY DEF Files
<1>2. k + 1 \in Files \ (1..k) /\ \A g \in Files \ (1..k) : k + 1 <= g
  BY <1>1 DEF Files
<1>3. \A f \in Files \ (1..k) : (\A g \in Files \ (1..k) : f <= g) => f = k + 1
  BY <1>2 DEF Files
<1>. QED
  BY <1>1, <1>2, <1>3 DEF FirstOf

\* The file a commit applies is the next one of the database, although the
\* process looked for it in a list of its own.
LEMMA CommitIsNext ==
    ASSUME StartupAssumption, Inv, NEW p \in Processes, CommitApply(p)
    PROVE  \E n \in 0..(N - 1) :
              /\ FirstOf(Pending(p)) = n + 1
              /\ passed[p] = 1..n
              /\ db.names = 1..n
              /\ db'.names = 1..(n + 1)
<1>1. PICK k \in 0..N : passed[p] = 1..k
  BY DEF CommitApply, Inv, PassedIsApplied
<1>2. FirstOf(Pending(p)) = k + 1 /\ k < N
  BY <1>1, FirstOfRest DEF CommitApply, Inv, ApplyingHasFile, Pending, StartupAssumption
<1>3. PICK n \in 0..N : db.names = 1..n
  BY DEF Inv, InOrder
<1>4. 1..k \subseteq 1..n
  BY <1>1, <1>3 DEF CommitApply, Inv, PassedIsApplied
<1>5. k + 1 \notin 1..n
  BY <1>2, <1>3 DEF CommitApply, Executes
<1>6. k = n
  BY <1>2, <1>4, <1>5 DEF StartupAssumption
<1>7. db'.names = 1..n \cup {n + 1}
  BY <1>2, <1>3, <1>6 DEF CommitApply, Inv, TypeOK, Database
<1>8. 1..n \cup {n + 1} = 1..(n + 1)
  OBVIOUS
<1>. QED
  BY <1>1, <1>2, <1>3, <1>6, <1>7, <1>8 DEF StartupAssumption

-----------------------------------------------------------------------------
(* The invariant.                                                           *)

LEMMA InitInv == StartupAssumption /\ Init => Inv
  BY DEF StartupAssumption, Init, Inv, TypeOK, Database, Recorded, InOrder, Files,
         Stopped, Starting, Serving, TrackedFirst, PassedIsApplied, ApplyingHasFile,
         SeedingIsLast, ReadyIsComplete

\* The steps that only move a process, and perhaps what it remembers.
LEMMA QuietSteps ==
    ASSUME StartupAssumption, Inv, NEW p \in Processes,
           \/ Open(p) \/ ReadApplied(p) \/ GiveUp(p) \/ FailInsert(p)
    PROVE  Inv'
<1>. USE DEF Inv, TypeOK, Recorded, InOrder, TrackedFirst, PassedIsApplied,
             ApplyingHasFile, SeedingIsLast, ReadyIsComplete, Complete, Move, Stopped, Starting, Serving,
             Pending, Files
<1>1. CASE Open(p)
  BY <1>1 DEF Open
<1>2. CASE ReadApplied(p)
  BY <1>2 DEF ReadApplied, AppliedSoFar, Database
<1>3. CASE GiveUp(p)
  BY <1>3 DEF GiveUp
<1>4. CASE FailInsert(p)
  BY <1>4 DEF FailInsert
<1>. QED
  BY <1>1, <1>2, <1>3, <1>4

\* The steps that take or give back the write lock without committing.
LEMMA LockSteps ==
    ASSUME StartupAssumption, Inv, NEW p \in Processes,
           \/ BeginApply(p) \/ FailApply(p) \/ BeginInsert(p) \/ Crash(p)
    PROVE  Inv'
<1>. USE DEF Inv, TypeOK, Recorded, InOrder, TrackedFirst, PassedIsApplied,
             ApplyingHasFile, SeedingIsLast, ReadyIsComplete, Complete, Move, Stopped, Starting, Serving,
             Pending, Files, StartupAssumption
<1>1. CASE BeginApply(p)
  BY <1>1 DEF BeginApply
<1>2. CASE FailApply(p)
  BY <1>2 DEF FailApply, RolledBack
<1>3. CASE BeginInsert(p)
  BY <1>3 DEF BeginInsert, MayWrite
<1>4. CASE Crash(p)
  BY <1>4 DEF Crash, RolledBack
<1>. QED
  BY <1>1, <1>2, <1>3, <1>4

\* schema_migrations is created: if it was not there, nobody writes yet.
LEMMA TrackingStep ==
    ASSUME StartupAssumption, Inv, NEW p \in Processes, EnsureTracking(p)
    PROVE  Inv'
<1>. USE DEF Inv, TypeOK, EnsureTracking, Move, Stopped, Starting, Serving, Database
<1>1. db' \in Database /\ db'.tracked
  BY DEF Database
<1>2. db'.names = db.names /\ db'.effects = db.effects /\ db'.bundles = db.bundles
  OBVIOUS
<1>3. TypeOK'
  BY <1>1, <1>2
<1>4. Recorded(db)' /\ InOrder(db)'
  BY <1>2 DEF Recorded, InOrder
<1>5. TrackedFirst' /\ PassedIsApplied' /\ ApplyingHasFile'
  BY <1>1, <1>2 DEF TrackedFirst, PassedIsApplied, ApplyingHasFile, Pending
<1>6. SeedingIsLast'
  <2>1. ASSUME NEW q \in Processes, pc'[q] = "inserting"
        PROVE  snapshot'[q] = db'
    <3>1. pc[q] = "inserting" /\ db.tracked
      BY <2>1 DEF TrackedFirst
    <3>2. db' = db
      BY <3>1
    <3>. QED
      BY <3>1, <3>2 DEF SeedingIsLast
  <2>. QED
    BY <1>2, <2>1 DEF SeedingIsLast
<1>7. ReadyIsComplete'
  BY <1>2 DEF ReadyIsComplete, Complete
<1>. QED
  BY <1>3, <1>4, <1>5, <1>6, <1>7

\* A file is committed.
LEMMA CommitApplyStep ==
    ASSUME StartupAssumption, Inv, NEW p \in Processes, CommitApply(p)
    PROVE  Inv'
<1>1. PICK n \in 0..(N - 1) : /\ FirstOf(Pending(p)) = n + 1
                              /\ passed[p] = 1..n
                              /\ db.names = 1..n
                              /\ db'.names = 1..(n + 1)
  BY CommitIsNext
<1>2. n + 1 \in Files /\ n + 1 \in 0..N
  BY DEF Files, StartupAssumption
<1>3. /\ db.effects[n + 1] = 0
      /\ db' = [db EXCEPT !.names = @ \cup {n + 1}, !.effects[n + 1] = @ + 1]
      /\ passed' = [passed EXCEPT ![p] = @ \cup {n + 1}]
  BY <1>1 DEF CommitApply, Executes
<1>4. /\ db' \in Database
      /\ db'.tracked = db.tracked
      /\ db'.bundles = db.bundles
      /\ db'.effects = [db.effects EXCEPT ![n + 1] = 1]
      /\ db'.names = db.names \cup {n + 1}
  <2>1. db \in Database
    BY DEF Inv, TypeOK
  <2>2. db' = [tracked |-> db.tracked, names |-> db.names \cup {n + 1},
               effects |-> [db.effects EXCEPT ![n + 1] = db.effects[n + 1] + 1],
               bundles |-> db.bundles]
    BY <1>3, <2>1 DEF Database
  <2>3. [db.effects EXCEPT ![n + 1] = db.effects[n + 1] + 1]
          = [db.effects EXCEPT ![n + 1] = 1]
    BY <1>3
  <2>4. [db.effects EXCEPT ![n + 1] = 1] \in [Files -> Nat]
    BY <2>1 DEF Database
  <2>. QED
    BY <1>2, <2>1, <2>2, <2>3, <2>4 DEF Database
<1>5. writer = p /\ \A q \in Processes \ {p} : pc[q] \notin {"applying", "inserting"}
  BY DEF CommitApply, Inv, TypeOK
<1>6. TypeOK'
  BY <1>2, <1>3, <1>4, <1>5 DEF CommitApply, Inv, TypeOK, Move, Stopped, Starting,
     Serving, StartupAssumption
<1>7. Recorded(db)'
  BY <1>2, <1>4 DEF Inv, Recorded, TypeOK, Database
<1>8. InOrder(db)'
  BY <1>1, <1>2 DEF InOrder
<1>9. TrackedFirst'
  BY <1>4 DEF CommitApply, Inv, TypeOK, TrackedFirst, Move, Stopped, Starting, Serving
<1>10. PassedIsApplied'
  <2>1. passed'[p] = 1..(n + 1) /\ passed'[p] \subseteq db'.names
    BY <1>1, <1>3 DEF Inv, TypeOK
  <2>2. ASSUME NEW q \in Processes \ {p}, pc'[q] \in {"migrating", "applying"}
        PROVE  (\E k \in 0..N : passed'[q] = 1..k) /\ passed'[q] \subseteq db'.names
    BY <1>3, <1>4, <2>2 DEF CommitApply, Inv, TypeOK, PassedIsApplied, Move
  <2>. QED
    BY <1>2, <2>1, <2>2 DEF PassedIsApplied
<1>11. ApplyingHasFile'
  BY <1>5 DEF CommitApply, ApplyingHasFile, Move, Inv, TypeOK
<1>12. SeedingIsLast'
  BY <1>4, <1>5, <1>2 DEF CommitApply, Inv, SeedingIsLast, TypeOK, Move, Database
<1>13. ReadyIsComplete'
  BY <1>2, <1>4 DEF CommitApply, Inv, ReadyIsComplete, Complete, TypeOK, Move
<1>. QED
  BY <1>6, <1>7, <1>8, <1>9, <1>10, <1>11, <1>12, <1>13 DEF Inv

\* The seed transaction begins; if all is there, it has ended by that.
LEMMA BeginSeedStep ==
    ASSUME StartupAssumption, Inv, NEW p \in Processes, BeginSeed(p)
    PROVE  Inv'
<1>. USE DEF BeginSeed, Inv, TypeOK, Move
<1>1. db.names = Files
  BY DEF Pending, PassedIsApplied, Database
<1>2. Missing(db) = {} => Complete
  BY <1>1 DEF Missing, Complete, Database
<1>3. Ready(p) \in {"listening", "done"}
  BY DEF Ready
<1>4. TypeOK'
  BY <1>3 DEF Stopped, Starting, Serving
<1>5. TrackedFirst'
  BY <1>3 DEF TrackedFirst, Starting, Stopped, Serving
<1>6. PassedIsApplied' /\ ApplyingHasFile'
  BY <1>3 DEF PassedIsApplied, ApplyingHasFile, Pending
<1>7. SeedingIsLast'
  BY <1>1, <1>3 DEF SeedingIsLast
<1>8. ReadyIsComplete'
  BY <1>2, <1>3 DEF ReadyIsComplete, Complete
<1>. QED
  BY <1>4, <1>5, <1>6, <1>7, <1>8 DEF Recorded, InOrder

\* The seed is committed: what was missing in the snapshot is missing still.
LEMMA CommitSeedFacts ==
    ASSUME StartupAssumption, Inv, NEW p \in Processes, CommitSeed(p)
    PROVE  /\ db.names = Files
           /\ db' = [db EXCEPT !.bundles = Bundles]
           /\ db' \in Database
           /\ db'.tracked = db.tracked
           /\ db'.names = db.names
           /\ db'.effects = db.effects
           /\ db'.bundles = Bundles
<1>1. snapshot[p] = db /\ db.names = Files
  BY DEF CommitSeed, Inv, SeedingIsLast
<1>2. db \in Database
  BY DEF Inv, TypeOK
<1>3. db.bundles \cup Missing(snapshot[p]) = Bundles
  BY <1>1, <1>2 DEF Missing, Database
<1>. QED
  BY <1>1, <1>2, <1>3 DEF CommitSeed, Database

LEMMA CommitSeedStep ==
    ASSUME StartupAssumption, Inv, NEW p \in Processes, CommitSeed(p)
    PROVE  Inv'
<1>. USE CommitSeedFacts
<1>1. Ready(p) \in {"listening", "done"}
  BY DEF Ready
<1>2. writer = p /\ \A q \in Processes \ {p} : pc[q] \notin {"applying", "inserting"}
  BY DEF CommitSeed, Inv, TypeOK
<1>. USE DEF CommitSeed, Inv, TypeOK, Move
<1>3. TypeOK'
  BY <1>1, <1>2 DEF Stopped, Starting, Serving, StartupAssumption
<1>4. Recorded(db)' /\ InOrder(db)'
  BY DEF Recorded, InOrder
<1>5. TrackedFirst'
  BY <1>1 DEF TrackedFirst, Starting
<1>6. PassedIsApplied' /\ ApplyingHasFile'
  BY <1>1 DEF PassedIsApplied, ApplyingHasFile, Pending
<1>7. SeedingIsLast'
  BY <1>1, <1>2 DEF SeedingIsLast
<1>8. ReadyIsComplete'
  BY DEF ReadyIsComplete, Complete
<1>. QED
  BY <1>3, <1>4, <1>5, <1>6, <1>7, <1>8

LEMMA NextInv ==
    ASSUME StartupAssumption, Inv, [Next]_vars
    PROVE  Inv'
<1>1. CASE UNCHANGED vars
  BY <1>1 DEF vars, Inv, TypeOK, Recorded, InOrder, TrackedFirst, PassedIsApplied,
     ApplyingHasFile, SeedingIsLast, ReadyIsComplete, Complete, Pending
<1>2. ASSUME NEW p \in Processes, Open(p) \/ Advance(p) \/ Crash(p)
      PROVE  Inv'
  BY <1>2, QuietSteps, LockSteps, TrackingStep, CommitApplyStep, BeginSeedStep,
     CommitSeedStep DEF Advance
<1>. QED
  BY <1>1, <1>2 DEF Next

\* The invariant holds in every reachable state.
LEMMA Invariance == Spec => []Inv
<1>1. Init => Inv
  BY InitInv, StartupConstants
<1>2. Inv /\ [Next]_vars => Inv'
  BY NextInv, StartupConstants
<1>. QED
  BY <1>1, <1>2, PTL DEF Spec

-----------------------------------------------------------------------------
(* The theorems.                                                            *)

\* Whatever processes start at the same time, race, give up or are stopped
\* inside a transaction, each recorded file has been executed exactly once and
\* each other file not at all, which connection.ts promises of its migrations.
THEOREM MigrationsRunExactlyOnce == Spec => []RunExactlyOnce
<1>1. Inv => RunExactlyOnce
  BY DEF Inv, RunExactlyOnce
<1>. QED
  BY <1>1, Invariance, PTL

\* Every variable has its type: the property TypeOK.
THEOREM StartupTypeCorrect == Spec => []TypeOK
<1>1. Inv => TypeOK
  BY DEF Inv
<1>. QED
  BY <1>1, Invariance, PTL

\* A server that listens, server.ts after its seed, has every table, the seed
\* rows and all bundles, although another process may have written them.
THEOREM ServersAreComplete == Spec => []ListeningIsComplete
<1>1. Inv => ListeningIsComplete
  BY StartupConstants DEF Inv, ReadyIsComplete, Complete, ListeningIsComplete,
     StartupAssumption
<1>. QED
  BY <1>1, Invariance, PTL

\* A step changes what is committed by the next file or by the whole seed.
LEMMA StepGrowsInOrder ==
    ASSUME Inv, [Next]_vars
    PROVE  \/ db'.names = db.names /\ db'.bundles = db.bundles
           \/ /\ \E n \in 0..(N - 1) : db.names = 1..n /\ db'.names = 1..(n + 1)
              /\ db'.bundles = db.bundles
           \/ /\ db.names = Files
              /\ db'.names = Files
              /\ db'.bundles = Bundles
<1>. DEFINE Same == db'.names = db.names /\ db'.bundles = db.bundles
<1>1. CASE UNCHANGED vars
  BY <1>1 DEF vars
<1>2. ASSUME NEW p \in Processes, CommitApply(p)
      PROVE  /\ \E n \in 0..(N - 1) : db.names = 1..n /\ db'.names = 1..(n + 1)
             /\ db'.bundles = db.bundles
  <2>1. db'.bundles = db.bundles
    <3>1. db \in Database
      BY DEF Inv, TypeOK
    <3>. QED
      BY <1>2, <3>1 DEF CommitApply, Database
  <2>. QED
    BY <1>2, <2>1, CommitIsNext, StartupConstants
<1>3. ASSUME NEW p \in Processes, CommitSeed(p)
      PROVE  db.names = Files /\ db'.names = Files /\ db'.bundles = Bundles
  BY <1>3, CommitSeedFacts, StartupConstants
<1>4. ASSUME NEW p \in Processes, EnsureTracking(p)
      PROVE  Same
  <2>1. db \in Database
    BY DEF Inv, TypeOK
  <2>. QED
    BY <1>4, <2>1 DEF EnsureTracking, Database
<1>5. ASSUME NEW p \in Processes,
             \/ Open(p) \/ ReadApplied(p) \/ BeginApply(p) \/ FailApply(p) \/ GiveUp(p)
             \/ BeginSeed(p) \/ BeginInsert(p) \/ FailInsert(p) \/ Crash(p)
      PROVE  Same
  BY <1>5 DEF Open, ReadApplied, BeginApply, FailApply, GiveUp, BeginSeed, BeginInsert,
     FailInsert, Crash, RolledBack
<1>. QED
  BY <1>1, <1>2, <1>3, <1>4, <1>5 DEF Next, Advance

\* The database grows file by file in the order of their names, and by the
\* seed in one piece: no process ever leaves a gap or half of anything.
THEOREM DatabaseGrowsInOrder == Spec => GrowsInOrder
<1>1. Inv /\ [Next]_vars
        => [ \/ db'.names = db.names /\ db'.bundles = db.bundles
             \/ /\ \E n \in 0..(N - 1) : db.names = 1..n /\ db'.names = 1..(n + 1)
                /\ db'.bundles = db.bundles
             \/ /\ db.names = Files
                /\ db'.names = Files
                /\ db'.bundles = Bundles ]_vars
  BY StepGrowsInOrder
<1>. QED
  BY <1>1, Invariance, PTL DEF Spec, GrowsInOrder

=============================================================================
