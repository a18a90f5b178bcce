SPECIFICATION FairServerSpec
CONSTANTS
  Conns = {c1, c2}
  Ips = {i1, i2}
  Methods = {"password"}
  MaxConnections = 1
  MaxPerIp = 1
  AuthFailThreshold = 1
  Sessions = {w1}
  Ids = {1, 2}
  Relays = {r1, r2}
  Kinds = {"tcp", "udp"}
  Credit = 2
  InputSlots = 1
  StreamBytes = 2
  ServerBytes = 2
  PrebufferBytes = 1
  MaxPerConn = 2
  MaxOpen = 1
  WsSlots = 1
CHECK_DEADLOCK FALSE
INVARIANTS StreamAccountsExact AdmissionIsExact
PROPERTIES InputIsTaken
