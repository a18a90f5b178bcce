SPECIFICATION EmbedderSpec
CONSTANTS
  f1 = f1
  f2 = f2
  p1 = p1
  p2 = p2
  s1 = s1
  Fetches <- JustF1
  Ports <- TwoPorts
  Crediting <- FirstPort
  Safe <- Neither
  Streamed <- Neither
  Credit = 1
  FrameLimit = 3
  MaxChunks = 4
  Socks <- OneSocket
  MaxSends = 2
  MaxData = 1
  MaxSweeps = 2
CHECK_DEADLOCK FALSE
INVARIANTS PairFallsBackUndelivered StreamIsKept SocketEndsOnce
PROPERTIES LiveChannelKept HostReleased CloseEnds
