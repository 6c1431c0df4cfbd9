SPECIFICATION FairSpec
CONSTANTS
  QueueCapacity = 2
  SrBufferSize = 1
  OutqCapacity = 2
  MaxWrites = 1
  MaxEvents = 4
INVARIANTS TypeOK Conservation OrderedWhileCapturing QueueDrained
PROPERTY Terminates
