CONSTANTS
  Links = {"lowpan", "udp"}
  Space <- SeqSpace
  b1 = b1
  b2 = b2
  b3 = b3
  Bundles = {b1, b2, b3}
  Segments <- Sizes
  Faults = {}
  Channel = 2
  None = None
SPECIFICATION FairSpec
INVARIANTS TypeOK Intact AckedIsAccepted
PROPERTIES ImplementsReliable Recovers
CHECK_DEADLOCK FALSE
