---------------------------- MODULE StartupProofs ----------------------------
(***************************************************************************)
(* For every set of hosts and every number of migrations: what the database *)
(* holds when a host serves, and that the hosts together prepare it in the  *)
(* order PreparedDatabase states.                                          *)
(***************************************************************************)
EXTENDS Startup, TLAPS

(* How far a host is says how far the database must be: it never goes back, *)
(* so what a host has passed stays true while others work, and the migration it *)
(* is about to apply is at most one ahead.                                 *)
PlaceInv ==
  \A h \in Hosts :
    /\ pc[h] = "migrating" =>
         next[h] \in 1..LastMigration /\ next[h] <= applied + 1
    /\ pc[h] \in SeedSteps \cup {"running"} => applied = LastMigration
    /\ pc[h] = "running" => seeds > 0

(* The default data is on the whole schema only.                           *)
DataOnSchema == seeds > 0 => applied = LastMigration

StartupInv == TypeOK /\ PlaceInv /\ DataOnSchema

LEMMA InitStartup == Init => StartupInv
  BY StartupAssumption
     DEF Init, StartupInv, TypeOK, PlaceInv, DataOnSchema, MigrationSteps, SeedSteps

(* Steps that move one host and leave the database as it is.               *)
LEMMA MoveStep ==
  ASSUME StartupInv, NEW h \in Hosts,
         NEW place \in {"down", "running"} \cup MigrationSteps \cup SeedSteps,
         Goto(h, place), UNCHANGED <<next, applied, seeds, people>>,
         faults' \in 0..MaxFaults,
         place # "migrating",
         place \in SeedSteps \cup {"running"} => applied = LastMigration,
         place = "running" => seeds > 0
  PROVE  StartupInv'
  BY DEF StartupInv, TypeOK, PlaceInv, DataOnSchema, Goto, MigrationSteps,
         SeedSteps

LEMMA StepStartup == StartupInv /\ [Next]_vars => StartupInv'
<1> SUFFICES ASSUME StartupInv, [Next]_vars
             PROVE  StartupInv'
  OBVIOUS
<1> USE StartupAssumption DEF StartupInv
<1>1. ASSUME NEW h \in Hosts, Start(h) PROVE StartupInv'
  BY <1>1, MoveStep DEF Start, TypeOK, MigrationSteps, SeedSteps
<1>2. ASSUME NEW h \in Hosts, CheckMigrations(h) PROVE StartupInv'
  <2>1. CASE applied < LastMigration
    BY <1>2, <2>1, MoveStep
       DEF CheckMigrations, PendingAfter, TypeOK, MigrationSteps, SeedSteps
  <2>2. CASE ~(applied < LastMigration)
    <3>1. applied = LastMigration
      BY <2>2 DEF TypeOK
    <3> QED
      BY <1>2, <2>2, <3>1, MoveStep
         DEF CheckMigrations, PendingAfter, TypeOK, MigrationSteps, SeedSteps
  <2> QED
    BY <2>1, <2>2
<1>3. ASSUME NEW h \in Hosts, ReadApplied(h) PROVE StartupInv'
  <2>1. TypeOK'
    BY <1>3 DEF ReadApplied, FirstPending, PendingAfter, Goto, TypeOK,
                MigrationSteps, SeedSteps
  <2>2. PlaceInv'
    BY <1>3 DEF ReadApplied, FirstPending, PendingAfter, Goto, TypeOK, PlaceInv,
                MigrationSteps, SeedSteps
  <2> QED
    BY <1>3, <2>1, <2>2 DEF ReadApplied, DataOnSchema
<1>4. ASSUME NEW h \in Hosts, Migrate(h) PROVE StartupInv'
  <2>1. next[h] \in 1..LastMigration /\ applied' = next[h] /\ applied < next[h]
    BY <1>4 DEF Migrate, PlaceInv
  <2>2. TypeOK'
    BY <1>4, <2>1 DEF Migrate, PendingAfter, Goto, TypeOK, MigrationSteps, SeedSteps
  <2>3. \A g \in Hosts : pc[g] \notin SeedSteps \cup {"running"}
    BY <2>1 DEF PlaceInv, TypeOK
  <2>4. PlaceInv'
    BY <1>4, <2>1, <2>3
       DEF Migrate, PendingAfter, Goto, TypeOK, PlaceInv, MigrationSteps, SeedSteps
  <2>5. DataOnSchema'
    BY <1>4, <2>1 DEF Migrate, DataOnSchema, TypeOK
  <2> QED
    BY <2>2, <2>4, <2>5
<1>5. ASSUME NEW h \in Hosts, MigrateCollides(h) PROVE StartupInv'
  BY <1>5, MoveStep
     DEF MigrateCollides, MigrationThrows, TypeOK, MigrationSteps, SeedSteps
<1>6. ASSUME NEW h \in Hosts, MigrateFails(h) PROVE StartupInv'
  BY <1>6, MoveStep
     DEF MigrateFails, MigrationThrows, TypeOK, MigrationSteps, SeedSteps
<1>7. ASSUME NEW h \in Hosts, CheckLocks(h) PROVE StartupInv'
  <2>1. applied = LastMigration /\ seeds \in Nat /\ faults \in 0..MaxFaults
    BY <1>7 DEF CheckLocks, PlaceInv, TypeOK, SeedSteps
  <2>2. CASE seeds > 0
    BY <1>7, <2>1, <2>2, MoveStep DEF CheckLocks, LocksFound, SeedSteps
  <2>3. CASE ~(seeds > 0)
    BY <1>7, <2>1, <2>3, MoveStep DEF CheckLocks, LocksFound, SeedSteps
  <2> QED
    BY <2>2, <2>3
<1>8. ASSUME NEW h \in Hosts, Seed(h) PROVE StartupInv'
  <2>1. TypeOK'
    BY <1>8 DEF Seed, Goto, TypeOK
  <2>2. PlaceInv'
    BY <1>8 DEF Seed, KeysFree, Goto, TypeOK, PlaceInv, SeedSteps
  <2> QED
    BY <1>8, <2>1, <2>2 DEF Seed, PlaceInv, DataOnSchema, SeedSteps
<1>9. ASSUME NEW h \in Hosts, SeedCollides(h) PROVE StartupInv'
  BY <1>9, MoveStep DEF SeedCollides, TypeOK, MigrationSteps, SeedSteps
<1>10. ASSUME NEW h \in Hosts, SeedFails(h) PROVE StartupInv'
  BY <1>10, MoveStep DEF SeedFails, TypeOK, MigrationSteps, SeedSteps
<1>11. ASSUME NEW h \in Hosts, Stop(h) PROVE StartupInv'
  BY <1>11, MoveStep DEF Stop, TypeOK, MigrationSteps, SeedSteps
<1>12. ASSUME NEW p \in People, DeletePerson(p) PROVE StartupInv'
  BY <1>12 DEF DeletePerson, TypeOK, PlaceInv, DataOnSchema
<1>13. CASE UNCHANGED vars
  BY <1>13 DEF vars, TypeOK, PlaceInv, DataOnSchema
<1> QED
  BY <1>1, <1>2, <1>3, <1>4, <1>5, <1>6, <1>7, <1>8, <1>9, <1>10, <1>11, <1>12,
     <1>13
     DEF Next, HostStep

LEMMA StartupInvariant == Spec => []StartupInv
  BY InitStartup, StepStartup, PTL DEF Spec

-----------------------------------------------------------------------------
(* Every reachable state is well typed; in particular no host applies a     *)
(* migration that the assembly does not have.                              *)
THEOREM StartupTypeCorrect == Spec => []TypeOK
  BY StartupInvariant, PTL DEF StartupInv

(* A host that serves has the whole schema and the default data.           *)
THEOREM ServesReadyDatabase == Spec => []RunningOnReadyDatabase
<1>1. StartupInv => RunningOnReadyDatabase
  BY DEF StartupInv, PlaceInv, RunningOnReadyDatabase
<1> QED
  BY <1>1, StartupInvariant, PTL

(* The default data is committed at most once, however many hosts try.     *)
THEOREM SeedsOnce == Spec => []SeededOnce
<1>1. Init => SeededOnce
  BY DEF Init, SeededOnce
<1>2. SeededOnce /\ [Next]_vars => SeededOnce'
  BY DEF SeededOnce, Next, HostStep, vars, Start, CheckMigrations, ReadApplied,
         Migrate, MigrateCollides, MigrateFails, CheckLocks, Seed, KeysFree,
         SeedCollides, SeedFails, Stop, DeletePerson
<1> QED
  BY <1>1, <1>2, PTL DEF Spec

-----------------------------------------------------------------------------
(* The refinement of PreparedDatabase.                                     *)

Serving == {h \in Hosts : pc[h] = "running"}

(* What a host does that touches neither the database nor the set of hosts  *)
(* that serve.                                                             *)
LEMMA AsideIsStutter ==
  ASSUME StartupInv, NEW h \in Hosts, NEW place, Goto(h, place),
         pc[h] # "running", place # "running", UNCHANGED <<applied, seeds>>
  PROVE  UNCHANGED Prepared!vars
<1>1. Serving' = Serving
  BY DEF Goto, StartupInv, TypeOK, Serving
<1> QED
  BY <1>1 DEF Prepared!vars, Serving

LEMMA MigrateIsUpgrade ==
  ASSUME StartupInv, NEW h \in Hosts, Migrate(h)
  PROVE  Prepared!Upgrade
<1>1. applied' = applied + 1 /\ applied < LastMigration
  <2>1. applied' = next[h] /\ applied < next[h]
    BY DEF Migrate
  <2>2. next[h] \in 1..LastMigration /\ next[h] <= applied + 1
    BY DEF Migrate, StartupInv, PlaceInv
  <2>3. applied \in Nat /\ LastMigration \in Nat
    BY StartupAssumption DEF StartupInv, TypeOK
  <2> QED
    BY <2>1, <2>2, <2>3
<1>2. seeds = 0 /\ seeds' = 0
  BY <1>1 DEF Migrate, StartupInv, DataOnSchema, TypeOK
<1>3. Serving = {} /\ Serving' = {}
  BY <1>1 DEF Migrate, PendingAfter, Goto, StartupInv, TypeOK, PlaceInv, Serving
<1> QED
  BY <1>1, <1>2, <1>3 DEF Prepared!Upgrade, Serving

LEMMA SeedIsFill ==
  ASSUME StartupInv, NEW h \in Hosts, Seed(h)
  PROVE  Prepared!Fill(h)
<1>1. applied = LastMigration /\ UNCHANGED applied
  BY DEF Seed, StartupInv, PlaceInv, SeedSteps
<1>2. seeds = 0 /\ seeds' = 1
  BY DEF Seed, KeysFree
<1>3. Serving' = Serving \cup {h}
  BY DEF Seed, Goto, StartupInv, TypeOK, Serving
<1> QED
  BY <1>1, <1>2, <1>3 DEF Prepared!Fill, Serving

LEMMA RunIsServe ==
  ASSUME StartupInv, NEW h \in Hosts, CheckLocks(h), LocksFound
  PROVE  Prepared!Serve(h)
<1>1. applied = LastMigration /\ seeds > 0 /\ UNCHANGED <<applied, seeds>>
  BY DEF CheckLocks, LocksFound, StartupInv, PlaceInv, SeedSteps
<1>2. Serving' = Serving \cup {h}
  BY DEF CheckLocks, Goto, StartupInv, TypeOK, Serving
<1> QED
  BY <1>1, <1>2 DEF Prepared!Serve, Serving

LEMMA StopIsLeave ==
  ASSUME StartupInv, NEW h \in Hosts, Stop(h)
  PROVE  Prepared!Leave(h)
<1>1. UNCHANGED <<applied, seeds>>
  BY DEF Stop
<1>2. Serving' = Serving \ {h}
  BY DEF Stop, Goto, StartupInv, TypeOK, Serving
<1> QED
  BY <1>1, <1>2 DEF Prepared!Leave, Serving

(* Hosts that race for the schema and for the default data implement the    *)
(* one preparation of the database: a commit of the database is a step of   *)
(* it, a check, a collision and a failure are not.                         *)
THEOREM HostsPrepareDatabase == Spec => ImplementsPreparation
<1>1. Init => Prepared!Init
  BY DEF Init, Prepared!Init
<1>2. StartupInv /\ [Next]_vars => [Prepared!Next]_(Prepared!vars)
  <2> SUFFICES ASSUME StartupInv, [Next]_vars
               PROVE  [Prepared!Next]_(Prepared!vars)
    OBVIOUS
  <2>1. ASSUME NEW h \in Hosts,
               Start(h) \/ CheckMigrations(h) \/ ReadApplied(h) \/ MigrateCollides(h)
        PROVE  UNCHANGED Prepared!vars
    BY <2>1, AsideIsStutter
       DEF Start, CheckMigrations, ReadApplied, MigrateCollides, MigrationThrows
  <2>2. ASSUME NEW h \in Hosts, MigrateFails(h) \/ SeedFails(h) \/ SeedCollides(h)
        PROVE  UNCHANGED Prepared!vars
    BY <2>2, AsideIsStutter
       DEF MigrateFails, SeedFails, SeedCollides, MigrationThrows, MigrationSteps,
           SeedSteps
  <2>3. ASSUME NEW h \in Hosts, Migrate(h) PROVE Prepared!Next
    BY <2>3, MigrateIsUpgrade DEF Prepared!Next
  <2>4. ASSUME NEW h \in Hosts, CheckLocks(h)
        PROVE  [Prepared!Next]_(Prepared!vars)
    <3>1. CASE LocksFound
      BY <2>4, <3>1, RunIsServe DEF Prepared!Next
    <3>2. CASE ~LocksFound
      BY <2>4, <3>2, AsideIsStutter DEF CheckLocks
    <3> QED
      BY <3>1, <3>2
  <2>5. ASSUME NEW h \in Hosts, Seed(h) PROVE Prepared!Next
    BY <2>5, SeedIsFill DEF Prepared!Next
  <2>6. ASSUME NEW h \in Hosts, Stop(h) PROVE Prepared!Next
    BY <2>6, StopIsLeave DEF Prepared!Next
  <2>7. ASSUME NEW p \in People, DeletePerson(p) PROVE UNCHANGED Prepared!vars
    BY <2>7 DEF DeletePerson, Prepared!vars
  <2>8. CASE UNCHANGED vars
    BY <2>8 DEF vars, Prepared!vars
  <2> QED
    BY <2>1, <2>2, <2>3, <2>4, <2>5, <2>6, <2>7, <2>8 DEF Next, HostStep
<1> QED
  BY <1>1, <1>2, StartupInvariant, PTL DEF Spec, ImplementsPreparation, Prepared!Spec

-----------------------------------------------------------------------------
(* The safety half of FirstStartSucceeds and RestartSucceeds: what each     *)
(* step brings nearer, fairness then carries to the end.                   *)

(* A host that has begun and that no migration has overtaken.              *)
Contender(h) ==
  \/ pc[h] \in {"checking", "reading"} \cup SeedSteps
  \/ pc[h] = "migrating" /\ applied < next[h]

(* How many steps a host has before it at most.                            *)
Rank(h) ==
  CASE pc[h] = "checking"  -> LastMigration + 4
    [] pc[h] = "reading"   -> LastMigration + 3
    [] pc[h] = "migrating" -> LastMigration - next[h] + 3
    [] pc[h] = "finding"   -> 2
    [] pc[h] = "seeding"   -> 1
    [] OTHER               -> 0

(* While the database fails nothing, a contender for the first start goes   *)
(* on being one, and each of its steps takes it nearer to the end, until    *)
(* another host takes the database forward and is the contender then, or a  *)
(* host serves: nobody is ever stopped but by somebody who is ahead.       *)
FirstStartStep(h) ==
  seeds = 0 /\ Contender(h) /\ faults' = faults =>
    \/ /\ Contender(h)' /\ seeds' = 0
       /\ IF HostStep(h) THEN Rank(h)' < Rank(h) ELSE Rank(h)' = Rank(h)
    \/ applied < applied' /\ seeds' = 0 /\ \E g \in Hosts : Contender(g)'
    \/ \E g \in Hosts : pc'[g] = "running"

(* On a prepared database a host that begins cannot lose: whatever others   *)
(* do and whatever is deleted, its own next step is the check of the locks  *)
(* and the one after that serves.                                          *)
RestartStep(h) ==
  /\ pc[h] \in {"checking", "finding"}
  /\ applied = LastMigration /\ seeds > 0
  /\ faults' = faults
  => /\ applied' = LastMigration /\ seeds' > 0
     /\ \/ pc'[h] = pc[h] /\ ~HostStep(h)
        \/ pc[h] = "checking" /\ pc'[h] = "finding"
        \/ pc[h] = "finding" /\ pc'[h] = "running"

(* Every own step of a host leads somewhere else, and a step of another     *)
(* host leaves its place and its next migration alone.                     *)
LEMMA OthersStayPut ==
  ASSUME StartupInv, NEW h \in Hosts, NEW g \in Hosts \ {h},
         \/ Start(g) \/ HostStep(g) \/ Stop(g) \/ MigrateFails(g) \/ SeedFails(g)
  PROVE  pc'[h] = pc[h] /\ next'[h] = next[h]
<1> USE DEF StartupInv, TypeOK, Goto
<1>1. CASE Start(g) \/ Stop(g) \/ MigrateFails(g) \/ SeedFails(g)
  BY <1>1 DEF Start, Stop, MigrateFails, MigrationThrows, SeedFails
<1>2. CASE CheckMigrations(g) \/ ReadApplied(g) \/ Migrate(g) \/ MigrateCollides(g)
  BY <1>2 DEF CheckMigrations, ReadApplied, Migrate, MigrateCollides, MigrationThrows
<1>3. CASE CheckLocks(g) \/ Seed(g) \/ SeedCollides(g)
  BY <1>3 DEF CheckLocks, Seed, SeedCollides
<1> QED
  BY <1>1, <1>2, <1>3 DEF HostStep

LEMMA OwnStepMoves ==
  ASSUME StartupInv, NEW h \in Hosts, HostStep(h)
  PROVE  pc'[h] # pc[h] \/ next'[h] # next[h]
<1> USE DEF StartupInv, TypeOK, Goto
<1>1. CASE CheckMigrations(h) \/ ReadApplied(h) \/ MigrateCollides(h)
  BY <1>1 DEF CheckMigrations, ReadApplied, MigrateCollides, MigrationThrows
<1>2. CASE Migrate(h)
  <2>1. next'[h] = next[h] + 1 /\ next[h] \in Nat
    BY <1>2, StartupAssumption DEF Migrate
  <2> QED
    BY <2>1
<1>3. CASE CheckLocks(h) \/ Seed(h) \/ SeedCollides(h)
  BY <1>3 DEF CheckLocks, Seed, SeedCollides
<1> QED
  BY <1>1, <1>2, <1>3 DEF HostStep

(* The own steps of a contender while the default data is not there.       *)
LEMMA ContenderDescends ==
  ASSUME StartupInv, NEW h \in Hosts, Contender(h), seeds = 0, HostStep(h)
  PROVE  \/ Contender(h)' /\ seeds' = 0 /\ Rank(h)' < Rank(h)
         \/ pc'[h] = "running"
<1> USE StartupAssumption DEF StartupInv, TypeOK, Goto, Contender, Rank, SeedSteps
<1>1. CASE CheckMigrations(h)
  BY <1>1 DEF CheckMigrations
<1>2. CASE ReadApplied(h)
  <2>1. next'[h] = applied + 1 /\ applied' = applied /\ applied \in Nat /\ seeds' = 0
    BY <1>2 DEF ReadApplied, FirstPending
  <2>2. pc'[h] = IF PendingAfter(applied) THEN "migrating" ELSE "finding"
    BY <1>2 DEF ReadApplied
  <2> QED
    BY <1>2, <2>1, <2>2 DEF ReadApplied
<1>3. CASE Migrate(h)
  <2>1. /\ next'[h] = next[h] + 1 /\ applied' = next[h] /\ seeds' = 0
        /\ pc[h] = "migrating"
    BY <1>3 DEF Migrate
  <2>2. next[h] \in 1..LastMigration
    BY <1>3 DEF Migrate, PlaceInv
  <2>3. pc'[h] = IF PendingAfter(next[h]) THEN "migrating" ELSE "finding"
    BY <1>3 DEF Migrate
  <2> QED
    BY <2>1, <2>2, <2>3
<1>4. CASE MigrateCollides(h)
  <2>1. pc[h] = "migrating" /\ next[h] <= applied /\ next[h] \in Nat /\ applied \in Nat
    BY <1>4 DEF MigrateCollides
  <2> QED
    BY <2>1
<1>5. CASE CheckLocks(h)
  BY <1>5 DEF CheckLocks, LocksFound
<1>6. CASE Seed(h)
  BY <1>6 DEF Seed
<1>7. CASE SeedCollides(h)
  BY <1>7 DEF SeedCollides, KeysFree
<1> QED
  BY <1>1, <1>2, <1>3, <1>4, <1>5, <1>6, <1>7 DEF HostStep

(* Another host's step overtakes a contender only with a migration, and     *)
(* then that host is a contender.                                          *)
LEMMA OvertakenByContender ==
  ASSUME StartupInv, NEW h \in Hosts, NEW g \in Hosts \ {h}, Contender(h),
         seeds = 0, HostStep(g)
  PROVE  \/ Contender(h)' /\ seeds' = 0
         \/ applied < applied' /\ seeds' = 0 /\ Contender(g)'
         \/ pc'[g] = "running"
<1>1. pc'[h] = pc[h] /\ next'[h] = next[h]
  BY OthersStayPut
<1>2. CASE Migrate(g)
  <2>1. /\ next'[g] = next[g] + 1 /\ applied' = next[g] /\ applied < next[g]
        /\ seeds' = 0 /\ next[g] \in Nat
        /\ pc'[g] = IF PendingAfter(next[g]) THEN "migrating" ELSE "finding"
    BY <1>2, StartupAssumption DEF Migrate, Goto, StartupInv, TypeOK
  <2> QED
    BY <2>1 DEF Contender, SeedSteps
<1>3. CASE \/ CheckMigrations(g) \/ ReadApplied(g) \/ MigrateCollides(g)
           \/ CheckLocks(g) \/ SeedCollides(g)
  <2>1. UNCHANGED <<applied, seeds>>
    BY <1>3 DEF CheckMigrations, ReadApplied, MigrateCollides, CheckLocks, SeedCollides
  <2> QED
    BY <1>1, <2>1 DEF Contender
<1>4. CASE Seed(g)
  BY <1>4 DEF Seed, Goto, StartupInv, TypeOK
<1> QED
  BY <1>2, <1>3, <1>4 DEF HostStep

(* What is neither a step of a host nor a failure of the database moves no  *)
(* host that has begun and not arrived.                                    *)
LEMMA AsideMoves ==
  ASSUME StartupInv, NEW h \in Hosts, pc[h] \notin {"down", "running"},
         \/ \E g \in Hosts : Start(g) \/ Stop(g)
         \/ \E p \in People : DeletePerson(p)
         \/ UNCHANGED vars
  PROVE  pc'[h] = pc[h] /\ UNCHANGED <<next, applied, seeds>>
BY DEF Start, Stop, DeletePerson, Goto, vars, StartupInv, TypeOK

LEMMA HostSteps ==
  ASSUME StartupInv, [Next]_vars, faults' = faults
  PROVE  \/ \E g \in Hosts : HostStep(g)
         \/ \E g \in Hosts : Start(g) \/ Stop(g)
         \/ \E p \in People : DeletePerson(p)
         \/ UNCHANGED vars
<1>1. faults \in Nat
  BY StartupAssumption DEF StartupInv, TypeOK
<1>2. ASSUME NEW g \in Hosts, MigrateFails(g) \/ SeedFails(g)
      PROVE  FALSE
  BY <1>1, <1>2 DEF MigrateFails, SeedFails
<1> QED
  BY <1>2 DEF Next

(* The ranking argument of FirstStartSucceeds, for every number of hosts    *)
(* and of migrations.                                                      *)
THEOREM FirstStartsAdvance == Spec => [][\A h \in Hosts : FirstStartStep(h)]_vars
<1>1. ASSUME StartupInv, [Next]_vars, NEW h \in Hosts, seeds = 0, Contender(h),
             faults' = faults
      PROVE  \/ /\ Contender(h)' /\ seeds' = 0
                /\ IF HostStep(h) THEN Rank(h)' < Rank(h) ELSE Rank(h)' = Rank(h)
             \/ applied < applied' /\ seeds' = 0 /\ \E g \in Hosts : Contender(g)'
             \/ \E g \in Hosts : pc'[g] = "running"
  <2>1. CASE HostStep(h)
    BY <1>1, <2>1, ContenderDescends
  <2>2. ASSUME NEW g \in Hosts \ {h}, HostStep(g), ~HostStep(h)
        PROVE  \/ Contender(h)' /\ seeds' = 0 /\ Rank(h)' = Rank(h)
               \/ applied < applied' /\ seeds' = 0 /\ Contender(g)'
               \/ pc'[g] = "running"
    <3>1. Rank(h)' = Rank(h)
      BY <1>1, <2>2, OthersStayPut DEF Rank
    <3> QED
      BY <1>1, <2>2, <3>1, OvertakenByContender
  <2>3. CASE \/ \E g \in Hosts : Start(g) \/ Stop(g)
             \/ \E p \in People : DeletePerson(p)
             \/ UNCHANGED vars
    <3>1. pc[h] \notin {"down", "running"}
      BY <1>1 DEF Contender, SeedSteps
    <3>2. pc'[h] = pc[h] /\ UNCHANGED <<next, applied, seeds>>
      BY <1>1, <2>3, <3>1, AsideMoves
    <3>3. Rank(h)' = Rank(h) /\ Contender(h)'
      BY <1>1, <3>2 DEF Rank, Contender
    <3>4. ~HostStep(h)
      BY <1>1, <3>2, OwnStepMoves
    <3> QED
      BY <1>1, <3>2, <3>3, <3>4
  <2> QED
    BY <1>1, <2>1, <2>2, <2>3, HostSteps
<1>2. StartupInv /\ [Next]_vars => \A h \in Hosts : FirstStartStep(h)
  BY <1>1 DEF FirstStartStep
<1> QED
  BY <1>2, StartupInvariant, PTL DEF Spec

(* The two steps of a host that starts on a prepared database, for every    *)
(* number of hosts.                                                        *)
THEOREM RestartsAdvance == Spec => [][\A h \in Hosts : RestartStep(h)]_vars
<1>1. ASSUME StartupInv, [Next]_vars, NEW h \in Hosts,
             pc[h] \in {"checking", "finding"}, applied = LastMigration,
             seeds > 0, faults' = faults
      PROVE  /\ applied' = LastMigration /\ seeds' > 0
             /\ \/ pc'[h] = pc[h] /\ ~HostStep(h)
                \/ pc[h] = "checking" /\ pc'[h] = "finding"
                \/ pc[h] = "finding" /\ pc'[h] = "running"
  <2>0. seeds \in Nat /\ LastMigration \in Nat
    BY <1>1, StartupAssumption DEF StartupInv, TypeOK
  <2>1. ASSUME NEW g \in Hosts, HostStep(g)
        PROVE  applied' = LastMigration /\ seeds' > 0
    <3>1. ~Migrate(g)
      BY <1>1, <2>0 DEF Migrate, StartupInv, PlaceInv
    <3> QED
      BY <1>1, <2>0, <2>1, <3>1
         DEF HostStep, CheckMigrations, ReadApplied, MigrateCollides, CheckLocks,
             Seed, SeedCollides
  <2>2. CASE HostStep(h)
    <3>1. CASE CheckMigrations(h)
      BY <1>1, <2>0, <3>1
         DEF CheckMigrations, PendingAfter, Goto, StartupInv, TypeOK
    <3>2. CASE CheckLocks(h)
      BY <1>1, <3>2 DEF CheckLocks, LocksFound, Goto, StartupInv, TypeOK
    <3>3. CheckMigrations(h) \/ CheckLocks(h)
      BY <1>1, <2>2
         DEF HostStep, ReadApplied, Migrate, MigrateCollides, Seed, SeedCollides
    <3> QED
      BY <1>1, <2>1, <2>2, <3>1, <3>2, <3>3
         DEF CheckMigrations, CheckLocks
  <2>3. ASSUME NEW g \in Hosts \ {h}, HostStep(g), ~HostStep(h)
        PROVE  pc'[h] = pc[h]
    BY <1>1, <2>3, OthersStayPut
  <2>4. CASE \/ \E g \in Hosts : Start(g) \/ Stop(g)
             \/ \E p \in People : DeletePerson(p)
             \/ UNCHANGED vars
    <3>1. pc'[h] = pc[h] /\ UNCHANGED <<next, applied, seeds>>
      BY <1>1, <2>4, AsideMoves
    <3> QED
      BY <1>1, <3>1, OwnStepMoves
  <2> QED
    BY <1>1, <2>1, <2>2, <2>3, <2>4, HostSteps
<1>2. StartupInv /\ [Next]_vars => \A h \in Hosts : RestartStep(h)
  BY <1>1 DEF RestartStep
<1> QED
  BY <1>2, StartupInvariant, PTL DEF Spec
=============================================================================
