SPECIFICATION FairSpec
CONSTANTS
  MaxSignals = 1
  Interval = 15
  FlushTimeout = 9
PROPERTY SignalEndsProcess
