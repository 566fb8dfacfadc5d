\* Two clients, a channel of one and sockets of one.  With two chunks from the
\* device the serial reader and the hub both block, a client joins between two
\* chunks and one leaves within a broadcast; with a silent one both clients send
\* two chunks.
CONSTANTS
  c1 = c1
  c2 = c2
  Conns <- Clients
  NoConn = NoConn
  ChanCap = 1
  SockCap = 1
  MaxChunks = 2
  MaxUp <- BothTalk
SPECIFICATION LoadedSpec
INVARIANTS TypeOK RegisteredWhileServed UplinkInOrder
PROPERTIES ImplementsBroadcast EveryChunkIsDelivered GonePeerIsReaped
\* Once the device and the peers have said everything, the server waits.
CHECK_DEADLOCK FALSE
