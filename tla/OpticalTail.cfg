SPECIFICATION Spec
CONSTANTS
  Blocks = 4
  Aligned = FALSE
  SampleLba = 2
  PacketSize = 2
  MaxChunk = 2
  Zero = Zero
  Udf = Udf
  Plain = Plain
  Contents = {Zero, Udf, Plain}
  LookAlike = {Zero, Plain}
  Patterns <- DataPatterns
  Requests <- WriteRequests
  Formats <- FormatParameters
  MaxCmds = 2
  MaxCrashes = 0
  Faults = {}
PROPERTY RecordingRemembered
