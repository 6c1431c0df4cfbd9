SPECIFICATION Spec
CONSTANTS
  tcp1 = tcp1
  tcp2 = tcp2
  udp = udp
  Keys <- MCKeys
  TcpKeys <- MCTcpKeys
  MaxFlows = 2
  FlowTimeoutSec = 1
  StatsIntervalSec = 1
  Live = FALSE
  Recorded <- MCRecorded
  Epoch = 3
  MaxLag = 0
  Jitter = 0
  ClockSets <- MCClockSet
  MaxTime = 5
  MaxPkts = 3
SYMMETRY Symmetry
INVARIANTS TypeOK Accounting PacketConservation EveryFlowEnded
PROPERTY WellFormedLives
