\* A platform without one and a half stop bits; good, bad and unsupported values.
CONSTANTS
  Configured <- Defaults
  Bauds <- Rates
  Unit = 2
  Numbers <- SentNumbers
  Strings <- SentStrings
  OnePointFive = FALSE
SPECIFICATION Spec
INVARIANTS TypeOK ConfigIsLine
