SPECIFICATION Spec
CONSTANTS
  Frames <- MCFrames
  Garbage = Garbage
  SchemaId = 16909060
  Schemas <- MCSchemas
  WallClock = 2000000
  MaxFrames = 2
  MaxHeartbeats = 1
INVARIANTS ReadsAreInBounds DecodesTheFrame KeyIsFlow TotalsAreTheWires ReadableByName
