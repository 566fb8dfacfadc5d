\* The sequence of two requests in the README.
CONSTANTS
  Configured <- Defaults
  Bauds <- Rates
  Unit = 2
  Numbers <- SentNumbers
  Strings <- SentStrings
  OnePointFive = FALSE
SPECIFICATION Spec
INVARIANT BaudIsKept
