\* Three dials, a delay that reaches its maximum, and chunks both ways.
CONSTANTS
  MaxDials = 3
  Initial = 3
  Max = 5
  Num = 3
  Den = 2
  PtyCap = 1
  MaxUp = 2
  MaxDown = 2
SPECIFICATION FairSpec
INVARIANTS TypeOK OneReportEach BridgeIsLossless NothingLeftBehind DelayIsBounded
PROPERTY RemoteEndEndsClient
\* The system stops when the process has exited.
CHECK_DEADLOCK FALSE
