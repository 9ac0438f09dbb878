CONSTANTS
  Clients = {a, b}
  Polite = {a}
  Leavings = {"shut", "reset"}
  NoClient = NoClient
  Programs = {"myhttpd", "server"}
  Scripts <- MCScripts
  WholeScripts <- Whole
  Departures <- MCDepartures
  FileLen = 5
  ChunkLen = 3
  SendBuf = 3
SPECIFICATION FairSpec
INVARIANTS TypeOK OneAnswer BodyInOrder
PROPERTIES OrderlyServed
