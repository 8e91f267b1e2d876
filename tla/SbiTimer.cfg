SPECIFICATION FairMachine
CONSTANTS
  NPC = 2
  TimeMod = 16
  WordMax = 7
  Instr <- TimerKernel
  cyclesPerStep = 2
  TicksPerUs = 2
  MaxSleepUs = 1
  Poll = {}
  MaxTime = 6
INVARIANTS
  PendingNoticed
  TimerNotLost
PROPERTIES
  IdleNotPast
  TimerFires
