SPECIFICATION Spec
CONSTANTS
  A <- Wide
  B <- Narrow
  C = C
  Combos <- Overlapping
  Orders <- TwoPlan
  NoCombo = NoCombo
  Dwell = 2
  Poll = 1
  Cooldown = 1
  Retry = 1
  Day = 3
  TransitionHour = 0
  Offsets <- OnTime
  MaxTime = 7
  MaxHits = 0
  Faults = {"unifi", "kill"}
INVARIANTS
  CleanMeansFullDwell
  WindowBetween
  TrialsDontOverlap
  HoursAccounted
  CleanTrialsBacked
PROPERTIES
  HoursOnlyGrow
