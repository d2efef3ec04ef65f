SPECIFICATION Spec
CONSTANTS
  Commands <- DataCommands
  MaxPacket = 2
  BlockLen = 2
  BufCap = 4
  RxSlots = 2
  BlankBlocks = 3
  MaxCmds = 3
  MaxAborts = 1
  Faults = {"media", "refuse"}
INVARIANT TypeOK
INVARIANT BufferSafe
INVARIANT NoLostWakeup
INVARIANT InSync
INVARIANT ResidueTruthful
INVARIANT NeverStuck
