SPECIFICATION FairSpec

CONSTANTS
  MaxRelay = 3
  MaxStats = 3

INVARIANTS
  RequestsAlternate

PROPERTIES
  SignalEndsProcess
