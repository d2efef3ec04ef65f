SPECIFICATION Spec
CONSTANTS
  Commands <- EjectCommands
  MaxPacket = 2
  BlockLen = 2
  BufCap = 4
  RxSlots = 2
  BlankBlocks = 3
  MaxCmds = 2
  MaxAborts = 0
  Faults = {}
PROPERTY EjectAfterAck
