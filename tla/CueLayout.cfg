SPECIFICATION Spec
CONSTANTS
  MaxTracks = 3
  Addresses <- SheetAddresses
  Pregaps <- SheetPregaps
  Sizes <- FileSizes
INVARIANT ReadsDescribed
INVARIANT TracksTile
CHECK_DEADLOCK FALSE
