CONSTANTS
  Clients = {a}
  Polite = {}
  Leavings = {"shut"}
  NoClient = NoClient
  Programs = {"myhttpd", "server"}
  Scripts <- MCScripts
  WholeScripts <- Whole
  Departures <- MCDepartures
  FileLen = 1
  ChunkLen = 1
  SendBuf = 1
SPECIFICATION FairSpec
PROPERTIES CloseNoticed
