CONSTANTS
  Clients = {a, b, c}
  NoClient = NoClient
  Lockstep = {a}
  Leaver = b
  Units <- MCUnits
  Departures <- MCDepartures
  BufLen = 1
  TablePrograms = {"primary", "server", "myserver", "myserver1", "poll", "epoll"}
  TableSize = 3
  SetSize = 3
  Limits <- MCLimits
  ForkPrograms = {"process", "thread", "domain", "tcp"}
  Slots = 2
  ForkMayFail = TRUE
  ProducerOf <- MCProducers
  ConsumerOf <- MCConsumers
  NUM = 2
  Products = 4
  Writers = {"w1", "w2"}
  Readers = {"r1"}
  Writes = 3
  Count = 3
  Chosen = 2
  StreamUnits = 2
  Fds = {"f", "g"}
  Data <- MCData
  ReadBuf = 2
  SocketBuf = 2
  Sizes = {1, 3}
  Browsers = {"browser"}
  Hasty = {"hasty"}
  Asks = 3
  Bothers = 2
  Nodes <- MCNodes
  Kind <- MCKind
  Parent <- MCParent
  Name <- MCName
  Target <- MCTarget
  ErrorPage = TRUE
  Chars <- MCChars
  Hex <- MCHex
  Typed <- MCTyped
  UdpClients = {a, b}
  Ports = {1, 2}
  NoPort = 0
  Lines = 2
  Room = 1
  Tree <- MCTree
  TreeKind <- MCTreeKind
  TreeParent <- MCTreeParent
  TreeTarget <- MCTreeTarget
  NameLen <- MCNameLen
  PATH_LEN = 7
  MaxLinks = 1
  DirLimit = 3
  BevClients = {a, b}
  Keys = 2
SPECIFICATION Spec
INVARIANTS TypeOK TableHolds EchoWhole OneServerEach Undivided NoneLeft
  StreamInOrder LinksOpen AnswersWhole
PROPERTIES ImplementsBuffer Served Reaped GoesOn
\* Clients leave, threads block for ever, processes end.
CHECK_DEADLOCK FALSE
