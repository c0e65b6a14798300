SPECIFICATION NetSpec

CONSTANTS
  Conn = {c1, c2}
  NoConn = NoConn
  ListenFd <- MCListenFd
  ClientFd <- MCClientFd
  MAX_PACKET_SIZE = 2
  SendCap = 1
  MaxUnits = 2
  MaxBcast = 1

SYMMETRY Symmetry

INVARIANTS
  NetTypeOK
  ClientSetsAgree
  PublisherOutlivesServer
  TableMatchesKernel
  NoDescriptorLeak
  WatchedDescriptorsOpen
  NeverBlocksInServerTask
  IteratorValid
  SuccessMeansAll
  Conservation

PROPERTIES
  SessionSpec
