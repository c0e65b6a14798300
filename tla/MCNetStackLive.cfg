SPECIFICATION NetFairSpec

CONSTANTS
  Conn = {c1, c2}
  NoConn = NoConn
  ListenFd <- MCListenFd
  ClientFd <- MCOneFd
  MAX_PACKET_SIZE = 2
  SendCap = 1
  MaxUnits = 1
  MaxBcast = 2

PROPERTIES
  DestructorReturns
  EndedClientRemoved
