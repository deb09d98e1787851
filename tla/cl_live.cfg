CONSTANTS
  QUEUE = 3
  QUEUE_FREE = 1
  RETRIES = 1
  FAILED_RETRIES = 1
  RETRANSMIT_TRIES = 2
  Nodes = {n1, n2}
  Udp = {}
  Bundles = {b1, b2}
  MaxSegments = 1
  Outcomes = {"ok", "noack"}
  Sources = {n1}
  Kinds = {"first"}
  AckTypes = {}
  Faults = {}
  None = None
SPECIFICATION FairSpec
PROPERTIES TransientFreed LockReleased OldestIsTried
CHECK_DEADLOCK FALSE
