SPECIFICATION Spec
CONSTANTS
  Images = {"img", "iso"}
  FixedImages = {"iso"}
  Options <- SomeOptions
  Default <- DefaultOptions
  MaxStates = 2
  MaxLosses = 1
  RenameKinds = {"atomic", "removeFirst"}
  Faults = {"read", "write", "rename", "remove", "stale"}
INVARIANT Remembered
INVARIANT FixedNeverRecorded
PROPERTY ImplementsRecordFile
