\* Two chunks from the port, one frame under way, and a dial that may fail
\* once and then for good.
CONSTANTS
  AutoPair = TRUE
  MaxDials = 2
  MaxChunks = 2
  MaxInbox = 1
SPECIFICATION FairServerSpec
PROPERTY ReconnectsOrExits
\* The system stops when the process has exited.
CHECK_DEADLOCK FALSE
