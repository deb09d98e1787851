SPECIFICATION FairSpec
CONSTANTS
  p1 = p1
  p2 = p2
  far = far
  group = group
  flood = flood
  own = own
  mine = mine
  note = note
  receipt = receipt
  chat = chat
  news = news
  Self = Self
  None = None
  Bundles = {flood, own}
  Peers = {p1, p2}
  Services = {chat, news}
  Apps = {"chat", "news"}
  Header <- HeaderLive
  AppOf <- TwoApps
  Started <- StartedSome
  StoreSize = 2
  NeiMem = 1
  QueueLen = 1
  RingLen = 1
  MaxTickets = 1
  MaxRegs = 1
  Recorded = {}
  UdpPeers = {}
  AppCalls <- NoCalls
  Faults = {}
INVARIANTS Announced BusyIffGiven

CHECK_DEADLOCK FALSE
PROPERTIES LocalDelivered ForwardedIfHeard
