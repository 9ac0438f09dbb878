CONSTANTS
  Conns = {c1, c2}
  NoConn = NoConn
  MaxEvents = 2
  MaxFd = 2
  BufLen = 2
  IdleLimit = 1
  SweepLen = 1
  MaxSend = 2
SPECIFICATION FairSpec

INVARIANTS NoStaleEvent
PROPERTIES RegisteredClosed
