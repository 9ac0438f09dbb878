CONSTANTS
  Conns = {c1, c2, c3}
  NoConn = NoConn
  MaxEvents = 1
  MaxFd = 2
  BufLen = 2
  IdleLimit = 1
  SweepLen = 1
  MaxSend = 2
SPECIFICATION Spec
SYMMETRY ConnSymmetry
INVARIANTS TypeOK TableAgrees EchoToSender EchoComplete

