CONSTANTS
  Bytes = {"x", "nl", "cr", "nul"}
  Block = 2
  MaxSize = 4
  UserNames <- MCUserNames
  AskedNames <- MCAskedNames
  JapiWords <- MCJapiWords
  NULL = NULL
  Pushers = {"p"}
  Parts = 2
  MaxSent = 4
  MaxPush = 1
SPECIFICATION Spec
INVARIANTS TypeOK BuffersFit RegistrySound FramingExact SocketToOwn EachInOrder
CHECK_DEADLOCK FALSE
