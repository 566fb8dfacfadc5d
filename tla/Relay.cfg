\* Two chunks from the device, from the application, or one from each; a channel,
\* sockets and a PTY of one chunk each.
CONSTANTS
  Conn = conn
  NoConn = NoConn
  ChanCap = 1
  SockCap = 1
  MaxChunks = 2
  MaxDials = 1
  Initial = 1
  Max = 1
  Num = 1
  Den = 1
  PtyCap = 1
  MaxUp = 2
SPECIFICATION LoadedSpec
INVARIANTS TypeOK LiveClientIsKept
PROPERTIES ImplementsServer ImplementsClient ImplementsCable DeviceReachesApplication ApplicationReachesDevice GoneClientIsDropped
\* It stops once both processes have.
CHECK_DEADLOCK FALSE
