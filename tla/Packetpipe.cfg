SPECIFICATION FairSpec
CONSTANTS
  MaxSignals = 2
  Interval = 15
  FlushTimeout = 9
INVARIANTS TypeOK ClosedOnce CrashOnlyAfterClose NoDanglingUse SinkStopsLast CleanExit ShutdownBounded
PROPERTY StopEndsProcess
