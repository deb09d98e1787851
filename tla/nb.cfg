SPECIFICATION Spec
CONSTANTS
  n1 = n1
  n2 = n2
  x = x
  y = y
  None = None
  Nodes = {n1, n2}
  Ips = {x, y}
  IpsOf <- IpsOfNodes
  Cache = 3
  Timeout = 2
INVARIANTS TypeOK LinksUnique NoGhosts
PROPERTIES KeptWhileHeard ChangesReported
