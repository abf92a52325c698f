SPECIFICATION FairSpec
CONSTANTS
  A <- Wide
  B <- Narrow
  C = C
  Combos <- Overlapping
  Orders <- TwoPlan
  NoCombo = NoCombo
  Dwell = 2
  Poll = 1
  Cooldown = 1
  Retry = 1
  Day = 2
  TransitionHour = 1
  Offsets <- AroundUtc
  MaxTime = 4
  MaxHits = 1
  Faults = {"unifi"}
INVARIANTS
  SubchannelSums
PROPERTIES
  StopReachesExit
  TrialEnds
  StoredRadarEndsTrial
  NextTrialFollows
