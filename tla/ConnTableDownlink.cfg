SPECIFICATION Spec
CONSTANTS
  Socket = {3, 4}
  Pid = {1, 2}
  Name = {"m", "n"}
  Renames = {}
  Byte = {1, 2}
  RemoteIP = {"a", "b", "c"}
  Second = {0, 2}
  TIMEOUT = 2
  IdWidth = 256
  IPHash <- MCIPHash
  Addr <- MCAddr
  Traffic <- MCTraffic
INVARIANTS
  AnswerHasLocalPort
VIEW MCView
CHECK_DEADLOCK FALSE
