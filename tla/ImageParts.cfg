SPECIFICATION Spec
CONSTANTS
  PartSize = 2
  MaxParts = 3
  SeekStep = 3
  MaxUnits = 6
  Sizes = {1, 2, 5, 6}
  Requests <- SomeRequests
  Values = {"junk", "zero", "new"}
  Faults = {"open", "seek", "io", "remove"}
  MaxCreates = 1
  MaxRequests = 3
INVARIANT PositionKnown
INVARIANT CreationComplete
PROPERTY ImplementsFlatImage
CHECK_DEADLOCK FALSE
