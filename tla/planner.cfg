SPECIFICATION Spec
CONSTANTS
  Pool <- Usa
  EditChannels = {38, 40, 64, 144, 165, 177}
  EditBlack = {36, 140}
  EditCombos <- BlockedCombos
INVARIANTS
  PlanIsWhatFits
  PlannedIsShown
