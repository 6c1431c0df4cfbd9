SPECIFICATION Spec
CONSTANTS
  QueueCapacity = 2
  SrBufferSize = 2
  OutqCapacity = 1
  MaxWrites = 2
  MaxEvents = 4
INVARIANT TopicInOrder
