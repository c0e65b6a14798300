SPECIFICATION FairSpec

CONSTANTS
  MAX_PACKET_SIZE = 2
  SendCap = 1
  MaxUnits = 3
  MaxLines = 3

INVARIANTS
  TypeOK
  DisconnectIsLast

PROPERTIES
  LossReported
  QuitEndsProcess
