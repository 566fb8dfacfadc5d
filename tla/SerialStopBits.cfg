\* A platform that accepts one and a half stop bits.
CONSTANTS
  Configured <- Defaults
  Bauds <- Rates
  Unit = 2
  Numbers <- SentNumbers
  Strings <- SentStrings
  OnePointFive = TRUE
SPECIFICATION Spec
INVARIANT StopBitsAsAsked
