SPECIFICATION LruSpec
CONSTANTS
  NFrames = 5
  NULL = NULL
INVARIANTS
  Threaded
  NoFrameMissed
PROPERTIES
  EvictsLru
  LookupReturns
