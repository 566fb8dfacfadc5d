\* A signal while the client is bridging.
CONSTANTS
  MaxDials = 3
  Initial = 3
  Max = 5
  Num = 3
  Den = 2
  PtyCap = 1
  MaxUp = 2
  MaxDown = 2
SPECIFICATION Spec
INVARIANT GracefulShutdown
\* The system stops when the process has exited.
CHECK_DEADLOCK FALSE
