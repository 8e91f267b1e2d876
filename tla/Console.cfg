SPECIFICATION FairConsole
CONSTANTS
  NPC = 2
  PLIC_INTERRUPTS = 1
  NS16550A_BUF_SIZE = 3
  Char = {1, 2}
INVARIANTS
  ConsoleTypeOK
  RingIsFifo
  ClaimCurrent
  DeliveryNotLost
  UnreadSignalled
PROPERTIES
  KeysRead
