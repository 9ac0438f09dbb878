CONSTANTS
  Conns = {c1, c2}
  NoConn = NoConn
  MaxEvents = 1
  MaxFd = 2
  BufLen = 1
  IdleLimit = 1
  SweepLen = 1
  MaxSend = 1
SPECIFICATION FairSpec


PROPERTIES IdleClosed
