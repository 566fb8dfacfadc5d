\* Three processes, two of one name, and a PTY more than they need.
CONSTANTS
  p1 = p1
  p2 = p2
  q = q
  Clients <- Processes
  Name <- Configured
  Ptys = {1, 2, 3, 4}
SPECIFICATION Spec
INVARIANTS TypeOK LoneClientKeepsItsName NoLitter NeverAnotherPort
