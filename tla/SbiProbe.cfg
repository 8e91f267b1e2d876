SPECIFICATION MachineSpec
CONSTANTS
  NPC = 2
  TimeMod = 4
  WordMax = 3
  Instr <- ProbingKernel
  cyclesPerStep = 1
  TicksPerUs = 1
  MaxSleepUs = 1
  Poll = {}
  MaxTime = 2
INVARIANTS
  ProbedExtensionsKnown
