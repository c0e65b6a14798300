SPECIFICATION FairSpec

CONSTANTS
  Service <- MCService
  MaxArgs = 2
  MaxGiven = 3
  Pod = {p1, p2}
  NoPod = NoPod
  BATCH = 2
  HWM = 2
  MaxMsg = 3
  MaxStop = 2
  Lines <- MCLines
  MaxTyped = 1

INVARIANTS
  SettingsExplained
  DocumentedUnderstood
  EachMessageOnce
  BatchPerConnection

PROPERTIES
  SignalEndsProcess
  EverySentHandled
