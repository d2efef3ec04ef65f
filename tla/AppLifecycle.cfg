SPECIFICATION FairSpec
CONSTANTS
  ExitModes = {"off", "disk", "usb"}
  Images = {"disk", "audio"}
  FirstScenes = {"Start", "Settings"}
  MaxQueue = 2
  MaxSessions = 2
  MaxBus = 3
INVARIANT SessionHasItsResources
INVARIANT EjectOwnSession
PROPERTY ExitsOnEject
PROPERTY LedSettles
