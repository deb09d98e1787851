CONSTANTS
  QUEUE = 3
  QUEUE_FREE = 1
  RETRIES = 1
  FAILED_RETRIES = 1
  RETRANSMIT_TRIES = 2
  Nodes = {n1, n2}
  Udp = {n2}
  Bundles = {b1}
  MaxSegments = 1
  Outcomes = {"ok", "noack"}
  Sources = {n1, n2}
  Kinds = {"first"}
  AckTypes = {"ack"}
  Faults = {"unsendable"}
  None = None
SPECIFICATION Spec
CONSTRAINT DriftBound
INVARIANTS ListMatches LockedOnce
CHECK_DEADLOCK FALSE
