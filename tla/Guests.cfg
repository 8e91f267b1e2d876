SPECIFICATION MachineSpec
CONSTANTS
  NPC = 2
  TimeMod = 4
  WordMax = 3
  Instr <- AnyGuest
  cyclesPerStep = 1
  TicksPerUs = 1
  MaxSleepUs = 1
  Poll = {9}
  MaxTime = 2
INVARIANTS
  MachineTypeOK
  SbiAssertsHold
  UndelegatedOnly
  SbiTransparent
  TrapReturns
PROPERTIES
  Confined
