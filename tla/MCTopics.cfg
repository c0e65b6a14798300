SPECIFICATION Spec

CONSTANTS
  Service <- MCNumbered
  MaxArgs = 2
  MaxGiven = 3
  Pod = {p1, p2}
  NoPod = NoPod
  BATCH = 2
  HWM = 2
  MaxMsg = 3
  MaxStop = 2
  Lines <- MCLines
  MaxTyped = 1

INVARIANT
  TopicsConfigurable
