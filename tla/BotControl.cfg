SPECIFICATION FairSpec
CONSTANTS
  Commands <- ControlCommands
  MaxPacket = 2
  BlockLen = 2
  BufCap = 4
  RxSlots = 2
  BlankBlocks = 3
  MaxCmds = 3
  MaxAborts = 0
  Faults = {"media", "sync", "alloc"}
INVARIANT BlankAckedWhenWiped
INVARIANT ProgressVisible
PROPERTY EjectHonoured
PROPERTY CommandsEnd
PROPERTY ExitJoins
