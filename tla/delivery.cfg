SPECIFICATION FairSpec
CONSTANTS
  Publications = {"u1", "u2"}
  PingCheck = TRUE
  MaxPackets = 4
INVARIANTS TypeOK NoStrandedPacket
PROPERTIES AcksAdvance Drained PollReturns
