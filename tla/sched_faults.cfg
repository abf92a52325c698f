SPECIFICATION Spec
CONSTANTS
  A = A
  B = B
  C = C
  Combos = {A, B, C}
  Orders <- ChangingPlans
  NoCombo = NoCombo
  Dwell = 1
  Poll = 1
  Cooldown = 1
  Retry = 1
  Day = 2
  TransitionHour <- NoWindow
  Offsets <- BehindOrOn
  MaxTime = 4
  MaxHits = 1
  Faults = {"unifi", "net", "db_read", "db_write", "loss", "slow", "kill"}
INVARIANTS
  TypeOK
  MeasuringOnChannel
  DetectionsConserved
  CooldownBeforeSwitch
PROPERTIES
  ImplementsTrialLog
  SwitchOnlyWhenDue
