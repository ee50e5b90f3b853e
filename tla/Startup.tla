------------------------------- MODULE Startup -------------------------------
(***************************************************************************)
(* Hosts that start on one database.  Before it serves anything, a host     *)
(* migrates the schema and seeds the default locks, accounts and roles,     *)
(* each time checking first whether there is anything to do.  Nothing in    *)
(* the code excludes another host between a check and what follows it; only *)
(* the transactions of the database do: each migration is one, the whole    *)
(* seeding is one.  What is refused by the database leaves Program as an    *)
(* exception and ends the host.                                             *)
(*                                                                         *)
(* The database itself and the table of applied migrations exist.          *)
(***************************************************************************)
EXTENDS Naturals

CONSTANTS
  Hosts,
  LastMigration,  \* the migrations of the assembly are 1..LastMigration
  People,         \* the default accounts and roles
  MaxFaults       \* bound on the steps of start-up the database fails

ASSUME StartupAssumption ==
  /\ LastMigration \in Nat \ {0}
  /\ MaxFaults \in Nat

VARIABLES
  pc,       \* where each host is in Program
  next,     \* the migration its MigrateAsync applies next
  applied,  \* the migrations applied to the database are 1..applied
  seeds,    \* copies of the default data ever committed
  people,   \* default accounts and roles that are in the database
  faults    \* start-up steps the database has failed

vars == <<pc, next, applied, seeds, people, faults>>

-----------------------------------------------------------------------------
MigrationSteps == {"checking", "reading", "migrating"}
SeedSteps == {"finding", "seeding"}

Init ==
  /\ pc = [h \in Hosts |-> "down"]
  /\ next = [h \in Hosts |-> 0]
  /\ applied = 0
  /\ seeds = 0
  /\ people = {}
  /\ faults = 0

Goto(h, place) == pc' = [pc EXCEPT ![h] = place]

Start(h) ==
  /\ pc[h] = "down"
  /\ Goto(h, "checking")
  /\ UNCHANGED <<next, applied, seeds, people, faults>>

-----------------------------------------------------------------------------
(* MigrateDatabaseAsync.  hasPendingMigration is computed from one read;    *)
(* MigrateAsync reads the applied migrations again.                        *)

(* Whether migrations follow migration n: an off-by-one, and the test.     *)
PendingFrom(n) == n <= LastMigration
PendingAfter(n) == n < LastMigration

CheckMigrations(h) ==
  /\ pc[h] = "checking"
  /\ Goto(h, IF PendingAfter(applied) THEN "reading" ELSE "finding")
  /\ UNCHANGED <<next, applied, seeds, people, faults>>

(* The migrator goes on after the last recorded migration, not with the     *)
(* newest one.                                                             *)
NewestPending == LastMigration
FirstPending == applied + 1

ReadApplied(h) ==
  /\ pc[h] = "reading"
  /\ next' = [next EXCEPT ![h] = FirstPending]
  /\ Goto(h, IF PendingAfter(applied) THEN "migrating" ELSE "finding")
  /\ UNCHANGED <<applied, seeds, people, faults>>

Migrate(h) ==
  /\ pc[h] = "migrating"
  /\ applied < next[h]
  /\ applied' = next[h]
  /\ next' = [next EXCEPT ![h] = @ + 1]
  /\ Goto(h, IF PendingAfter(next[h]) THEN "migrating" ELSE "finding")
  /\ UNCHANGED <<seeds, people, faults>>

(* The catch block without its throw, and with it: Wait passes the          *)
(* exception on, and Program ends.                                         *)
MigrationSwallowed(h) == Goto(h, "finding")
MigrationThrows(h) == Goto(h, "down")

(* Another host has applied the migration since: its tables exist.         *)
MigrateCollides(h) ==
  /\ pc[h] = "migrating"
  /\ next[h] <= applied
  /\ MigrationThrows(h)
  /\ UNCHANGED <<next, applied, seeds, people, faults>>

MigrateFails(h) ==
  /\ pc[h] \in MigrationSteps
  /\ faults < MaxFaults
  /\ faults' = faults + 1
  /\ MigrationThrows(h)
  /\ UNCHANGED <<next, applied, seeds, people>>

-----------------------------------------------------------------------------
(* SeedDbAsync.  A failure after the commit is Seed and then Stop.         *)

(* A check of the accounts, and the check of the table of locks, from which *)
(* nothing ever deletes.                                                   *)
PeopleFound == people # {}
LocksFound == seeds > 0

CheckLocks(h) ==
  /\ pc[h] = "finding"
  /\ Goto(h, IF LocksFound THEN "running" ELSE "seeding")
  /\ UNCHANGED <<next, applied, seeds, people, faults>>

(* The keys of the default rows are constants of DefaultData: one that is   *)
(* there already fails the whole transaction.  Fresh keys never would, and  *)
(* one constant used for two rows always would.                            *)
NoKeyTaken == TRUE
KeyUsedTwice == FALSE
KeysFree == seeds = 0

Seed(h) ==
  /\ pc[h] = "seeding"
  /\ KeysFree
  /\ seeds' = seeds + 1
  /\ people' = People
  /\ Goto(h, "running")
  /\ UNCHANGED <<next, applied, faults>>

SeedCollides(h) ==
  /\ pc[h] = "seeding"
  /\ ~KeysFree
  /\ Goto(h, "down")
  /\ UNCHANGED <<next, applied, seeds, people, faults>>

SeedFails(h) ==
  /\ pc[h] \in SeedSteps
  /\ faults < MaxFaults
  /\ faults' = faults + 1
  /\ Goto(h, "down")
  /\ UNCHANGED <<next, applied, seeds, people>>

-----------------------------------------------------------------------------
(* A host stops serving.                                                   *)
Stop(h) ==
  /\ pc[h] = "running"
  /\ Goto(h, "down")
  /\ UNCHANGED <<next, applied, seeds, people, faults>>

(* The identity and role pages of a running host delete default data.      *)
DeletePerson(p) ==
  /\ \E h \in Hosts : pc[h] = "running"
  /\ p \in people
  /\ people' = people \ {p}
  /\ UNCHANGED <<pc, next, applied, seeds, faults>>

(* What a host does by itself once it has begun.                           *)
HostStep(h) ==
  \/ CheckMigrations(h) \/ ReadApplied(h) \/ Migrate(h) \/ MigrateCollides(h)
  \/ CheckLocks(h) \/ Seed(h) \/ SeedCollides(h)

Next ==
  \/ \E h \in Hosts : Start(h) \/ HostStep(h) \/ Stop(h)
  \/ \E h \in Hosts : MigrateFails(h) \/ SeedFails(h)
  \/ \E p \in People : DeletePerson(p)

Spec == Init /\ [][Next]_vars

(* A host that has begun goes on.  Nothing starts or stops a host.         *)
FairSpec == Spec /\ \A h \in Hosts : WF_vars(HostStep(h))

-----------------------------------------------------------------------------
TypeOK ==
  /\ pc \in [Hosts -> {"down", "running"} \cup MigrationSteps \cup SeedSteps]
  /\ next \in [Hosts -> 0..(LastMigration + 1)]
  /\ applied \in 0..LastMigration
  /\ seeds \in Nat
  /\ people \in SUBSET People
  /\ faults \in 0..MaxFaults

(* A host that serves has the whole schema and the default data below it,   *)
(* whoever made them and however many attempts failed: a failed migration  *)
(* ends the host (DbMigrationManager.cs:37-42), and the schema comes first  *)
(* (Program.cs:50-51).                                                     *)
RunningOnReadyDatabase ==
  \A h \in Hosts :
    pc[h] = "running" => applied = LastMigration /\ seeds > 0

(* However many hosts find the table of locks empty, the default data is    *)
(* committed once: the check of DbDataSeeder.cs:19 is not what ensures it,  *)
(* the constant keys are.                                                  *)
SeededOnce == seeds <= 1

(* When a host begins on an unprepared database and the database fails no   *)
(* further step, at least one host comes to serve: whoever loses a race     *)
(* loses it to a host that is ahead of it.  A host that was already         *)
(* migrating when the database failed another does not count: it may still *)
(* lose to what the failed one had done.                                   *)
FirstStartSucceeds ==
  \A f \in 0..MaxFaults :
    (seeds = 0 /\ faults = f /\ \E h \in Hosts : pc[h] = "checking")
      ~> (faults > f \/ \E h \in Hosts : pc[h] = "running")

(* On a prepared database a host always starts, with whatever default       *)
(* accounts and roles were deleted since (DbDataSeeder.cs:19).             *)
RestartSucceeds ==
  \A f \in 0..MaxFaults, h \in Hosts :
    (pc[h] = "checking" /\ applied = LastMigration /\ seeds > 0 /\ faults = f)
      ~> (faults > f \/ pc[h] = "running")

-----------------------------------------------------------------------------
Prepared == INSTANCE PreparedDatabase WITH
  version <- applied,
  filled <- seeds > 0,
  serving <- {h \in Hosts : pc[h] = "running"}

(* However hosts race and fail, what becomes of the database is a sequence  *)
(* of the migrations in their order, then the one filling with the default  *)
(* data, and only then hosts that serve: every step of a host is one of     *)
(* these or leaves the database alone (DbMigrationManager.cs:31-35,         *)
(* DbDataSeeder.cs:19-31, Program.cs:50-51).                               *)
ImplementsPreparation == Prepared!Spec
=============================================================================
