SPECIFICATION Spec

CONSTANTS
  Conn = {c1, c2}
  NoConn = NoConn
  ListenFd <- MCListenFd
  ClientFd <- MCClientFd
  MAX_PACKET_SIZE = 1
  SendCap = 1
  MaxUnits = 1
  MaxBcast = 1

INVARIANTS
  BcastReachesAll
