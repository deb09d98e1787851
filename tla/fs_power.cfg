SPECIFICATION FairSpec
CONSTANTS
  agent = agent
  radio = radio
  udp = udp
  own = own
  x = x
  y = y
  None = None
  Bundles = {own, x, y}
  Tasks = {agent, radio}
  Comes <- ComesApart
  Prio <- Priorities
  Lifetime <- Lifetimes
  Reports = {x}
  StoreSize = 2
  Wrap = 3
  Tries = 2
  MaxOpen = 2
  Faults = {"card_fails", "close_fails"}
INVARIANTS TypeOK ListIsDirectory Survives
PROPERTIES SaveReturns
