\* Two chunks from the port, one frame under way, one dial.
CONSTANTS
  AutoPair = TRUE
  MaxDials = 1
  MaxChunks = 2
  MaxInbox = 1
SPECIFICATION FairSpec
INVARIANTS TypeOK ChunkGivenUpMeansOver OneFrameAfterCancel ConnectedMeansOpen SocketIsNotLeaked
PROPERTIES ImplementsSession LostLinkIsClosed DataAfterCloseEndsAgent StuckCallbackStopsReaderOnly
\* The system stops when the process has exited.
CHECK_DEADLOCK FALSE
