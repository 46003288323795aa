SPECIFICATION Spec
CONSTANTS
  Socket = {1, 2, 3}
  Pid = {1}
  Name = {m, n}
  Renames <- MCRenames
  Byte = {1, 2}
  RemoteIP = {"a", "b", "c"}
  Second = {0, 2}
  TIMEOUT = 2
  IdWidth = 256
  IPHash <- MCIPHash
  Addr <- MCAddr
  Traffic <- MCTraffic
INVARIANTS
  AssertionsHold
  IndexesRight
  NoDuplicates
  AnswerOfMatchingEntry
VIEW MCView
SYMMETRY MCNames
CHECK_DEADLOCK FALSE
