SPECIFICATION Spec
CONSTANTS
  agent = agent
  radio = radio
  udp = udp
  own = own
  x = x
  y = y
  None = None
  Bundles = {own, x}
  Tasks = {agent, radio}
  Comes <- ComesApart
  Prio <- Priorities
  Lifetime <- Lifetimes
  Reports = {x}
  StoreSize = 1
  Wrap = 3
  Tries = 2
  MaxOpen = 2
  Faults = {"card_fails", "close_fails", "close_gives_up", "unlink_fails", "unreadable", "no_memory"}
INVARIANTS  ListedHasFile FilesKept
