\* One client may stop reading, the other reads.
CONSTANTS
  c1 = c1
  c2 = c2
  Conns <- Clients
  NoConn = NoConn
  ChanCap = 1
  SockCap = 1
  MaxChunks = 2
  MaxUp <- Silent
SPECIFICATION StalledSpec
PROPERTY ReaderIsServed
\* Once the device and the peers have said everything, the server waits.
CHECK_DEADLOCK FALSE
