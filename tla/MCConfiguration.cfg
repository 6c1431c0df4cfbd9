SPECIFICATION Spec
CONSTANTS
  Flags = {"--pcap", "--iface", "--flow-timeout", "--stats-interval", "--metrics-port", "--log-level", "--kafka-brokers", "--kafka-conf"}
  Values <- MCValues
  stoi <- MCstoi
  NotANumber = NotANumber
  IntMax = 131071
  ConfLines <- MCConfLines
  Skipped = Skipped
  Rejected <- MCRejected
  MaxOptions = 3
  MaxLines = 2
INVARIANTS ConfigIsLastGiven SweepsTwicePerTimeout LaterLayersOverride
