SPECIFICATION Spec
CONSTANTS
  p1 = p1
  p2 = p2
  far = far
  group = group
  flood = flood
  own = own
  mine = mine
  note = note
  receipt = receipt
  chat = chat
  news = news
  Self = Self
  None = None
  Bundles = {flood, mine}
  Peers = {p1, p2}
  Services = {chat, news}
  Apps = {"chat", "news"}
  Header <- HeaderSafe
  AppOf <- TwoApps
  Started <- StartedSome
  StoreSize = 1
  NeiMem = 1
  QueueLen = 2
  RingLen = 1
  MaxTickets = 1
  MaxRegs = 2
  Recorded = {flood, mine}
  UdpPeers = {}
  AppCalls <- ManyCalls
  Faults = {"queue_full","app_full", "fatal"}
INVARIANTS GivenIsLocked
PROPERTIES NoRepeat
CHECK_DEADLOCK FALSE
