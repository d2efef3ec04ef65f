SPECIFICATION Spec
CONSTANTS
  Blocks = 4
  Aligned = TRUE
  SampleLba = 2
  PacketSize = 2
  MaxChunk = 2
  Zero = Zero
  Udf = Udf
  Plain = Plain
  Contents = {Zero, Udf, Plain}
  LookAlike = {Zero, Plain}
  Patterns <- DataPatterns
  Requests <- WriteRequests
  Formats <- FormatParameters
  MaxCmds = 4
  MaxCrashes = 1
  Faults = {"media", "sync", "save"}
INVARIANT TypeOK
INVARIANT StateConsistent
INVARIANT RecordedBelowPointer
INVARIANT ReportedSpaceWritable
PROPERTY Durable
PROPERTY AppendOnly
PROPERTY BlankLeavesEmpty
PROPERTY ReadOnlyUntouched
