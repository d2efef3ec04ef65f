SPECIFICATION Spec
CONSTANTS
  Sectors = 4
  SectorLen = 2
  HalfLen = 3
  ScanFactor = 2
  Tracks <- TwoTracks
  QueueLen = 2
  Keys <- AllKeys
  HostLbas <- HostSectors
  HostCommands <- HostAudio
  MaxCalls = 3
INVARIANT TypeOK
INVARIANT OutputFollowsStatus
INVARIANT Gapless
INVARIANT PositionHeard
PROPERTY CompletedAtEnd
PROPERTY PlaybackEnds
PROPERTY PlayerEnds
CHECK_DEADLOCK FALSE
