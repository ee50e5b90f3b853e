\* Hosts race for two migrations and the seeding.
CONSTANTS
  h1 = h1
  h2 = h2
  h3 = h3
  manager = manager
  employee = employee
  Hosts <- ThreeHosts
  LastMigration = 2
  People <- TwoPeople
  MaxFaults = 1
SPECIFICATION FairSpec
INVARIANTS
  TypeOK
  RunningOnReadyDatabase
  SeededOnce
PROPERTIES
  FirstStartSucceeds
  RestartSucceeds
  ImplementsPreparation
