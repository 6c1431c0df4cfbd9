SPECIFICATION Spec
CONSTANTS
  tcp1 = tcp1
  tcp2 = tcp2
  udp = udp
  Keys <- MCOneTcp
  TcpKeys <- MCOneTcp
  MaxFlows = 1
  FlowTimeoutSec = 2
  StatsIntervalSec = 1
  Live = TRUE
  Recorded <- MCRecorded
  Epoch = 3
  MaxLag = 1
  Jitter = 1
  ClockSets <- MCNever
  MaxTime = 12
  MaxPkts = 3
INVARIANTS TimelyExpiry TimelyHeartbeat
PROPERTY NoEarlyExpiry
