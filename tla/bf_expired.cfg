SPECIFICATION Spec
CONSTANTS
  p1 = p1
  p2 = p2
  far = far
  group = group
  flood = flood
  own = own
  mine = mine
  note = note
  receipt = receipt
  chat = chat
  news = news
  Self = Self
  None = None
  Bundles = {flood, own, receipt}
  Peers = {p1, p2}
  Services = {chat, news}
  Apps = {"chat", "news"}
  Header <- HeaderSafe
  AppOf <- TwoApps
  Started <- StartedSome
  StoreSize = 1
  NeiMem = 1
  QueueLen = 2
  RingLen = 1
  MaxTickets = 1
  MaxRegs = 1
  Recorded = {}
  UdpPeers = {}
  AppCalls <- NoCalls
  Faults = {"expired_held"}
INVARIANTS RefsAgree
CHECK_DEADLOCK FALSE
