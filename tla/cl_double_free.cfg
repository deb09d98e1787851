CONSTANTS
  QUEUE = 3
  QUEUE_FREE = 1
  RETRIES = 2
  FAILED_RETRIES = 2
  RETRANSMIT_TRIES = 2
  Nodes = {n1}
  Udp = {}
  Bundles = {b1, b2}
  MaxSegments = 2
  Outcomes = {"ok", "noack", "nosend"}
  Sources = {n1}
  Kinds = {"single", "first", "middle", "last"}
  AckTypes = {"ack", "nack", "tempnack"}
  Faults = {"routing_deletes"}
  None = None
SPECIFICATION Spec
SYMMETRY Interchangeable
INVARIANTS CountersAgree
CHECK_DEADLOCK FALSE
