SPECIFICATION Spec
CONSTANTS
  MaxSignals = 1
  Interval = 15
  FlushTimeout = 9
INVARIANT ShutdownWithin10s
