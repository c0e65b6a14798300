SPECIFICATION FairSpec

CONSTANTS
  Prober = {p1, p2}
  CountMod = 3
  MaxHealthy = 9

INVARIANTS
  DetectionDelay
  NoProbeOnDeadStack

PROPERTIES
  WedgedIsReported
