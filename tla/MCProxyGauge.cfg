SPECIFICATION Spec

CONSTANTS
  MaxRelay = 2
  MaxStats = 2

INVARIANTS
  GaugeIsCount
