SPECIFICATION Spec
CONSTANTS
  Socket = {1, 3}
  Pid = {1, 2}
  Name = {m, n}
  Renames = {}
  Byte = {1, 2}
  RemoteIP = {"a", "b", "c"}
  Second = {0, 2}
  TIMEOUT = 2
  IdWidth = 256
  IPHash <- MCIPHash
  Addr <- MCAddr
  Traffic <- MCTrafficOf1
INVARIANTS
  TypeOK
  AttributedToHolder
  ConnectedAttributed
PROPERTY
  Attributes
VIEW MCView
SYMMETRY MCNames
CHECK_DEADLOCK FALSE
