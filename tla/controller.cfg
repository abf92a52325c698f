SPECIFICATION FairSpec
CONSTANTS
  C36 = C36
  C52 = C52
  C100 = C100
  Combos = {C36, C52, C100}
  Radios = {"ng", "na"}
  Target = "na"
  NoDevice = NoDevice
  Faults = {"unifi", "net", "forbidden", "silent", "expire", "rotate", "edit"}
INVARIANTS
  TypeOK
  AppliedIsSet
PROPERTIES
  ImplementsApply
  OthersOnlyLostToEdits
  CallsReturn
  Recovers
