SPECIFICATION Spec
CONSTANTS
  Lines <- LogLines
  NoChan = NoChan
  NoTime = NoTime
  Zone <- Clocks
  Undated = {"unknown"}
  Year = 6
  DayLen = 1
  NewYear = 2
  MaxSent = 3
  Faults = {"loss", "dup", "kill", "power", "db", "csv", "slow", "reorder"}
INVARIANTS
  TypeOK
  SessionsReplayEvents
  OneOpenSession
  CsvNeverAhead
  VerdictHasEvidence
  CountedIsStored
  OnlyClocksAheadLoseAYear
