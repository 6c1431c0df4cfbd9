SPECIFICATION Spec
CONSTANTS
  tcp1 = tcp1
  tcp2 = tcp2
  udp = udp
  Keys <- MCTwoKeys
  TcpKeys <- MCOneTcp
  MaxFlows = 2
  FlowTimeoutSec = 1
  StatsIntervalSec = 1
  Live = FALSE
  Recorded <- MCRecorded
  Epoch = 4
  MaxLag = 1
  Jitter = 1
  ClockSets <- MCNever
  MaxTime = 9
  MaxPkts = 3
PROPERTY IdleTimeoutRespected
