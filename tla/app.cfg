SPECIFICATION FairSpec
CONSTANTS
  MaxLines = 3
  Faults = {"bind", "net", "parse", "slow", "db", "kill"}
INVARIANTS
  TypeOK
  CloseCutsNothing
  StorageClosedLast
  CleanStopClosesRow
  ListenerOutlivesScheduler
PROPERTIES
  StopEndsProcess
