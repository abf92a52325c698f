SPECIFICATION Spec
CONSTANTS
  A = A
  B = B
  C = C
  Combos = {A, B}
  Orders <- TwoPlan
  NoCombo = NoCombo
  Dwell = 2
  Poll = 1
  Cooldown = 2
  Retry = 1
  Day = 2
  TransitionHour <- NoWindow
  Offsets <- OnTime
  MaxTime = 5
  MaxHits = 1
  Faults = {}
INVARIANT
  CooldownBetweenTrials
