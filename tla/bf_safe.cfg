SPECIFICATION Spec
CONSTANTS
  p1 = p1
  p2 = p2
  far = far
  group = group
  flood = flood
  own = own
  mine = mine
  note = note
  receipt = receipt
  chat = chat
  news = news
  Self = Self
  None = None
  Bundles = {flood, own, receipt}
  Peers = {p1, p2}
  Services = {chat, news}
  Apps = {"chat", "news"}
  Header <- HeaderSafe
  AppOf <- TwoApps
  Started <- StartedSome
  StoreSize = 1
  NeiMem = 2
  QueueLen = 2
  RingLen = 1
  MaxTickets = 1
  MaxRegs = 1
  Recorded = {flood, own, receipt}
  UdpPeers = {p2}
  AppCalls <- NoCalls
  Faults = {"queue_full","app_full","no_memory","cl_busy","unsendable","dest_nack"}
INVARIANTS TypeOK RefsAgree InTransitHasTicket
PROPERTIES NoRepeat KeptUntilServed
CHECK_DEADLOCK FALSE
