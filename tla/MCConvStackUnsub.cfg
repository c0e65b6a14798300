SPECIFICATION Spec

CONSTANTS
  a = a
  b = b
  Topic <- MCTopic
  IngressTopic = a
  SubTopics <- MCNoTopics
  Conversions <- MCConversions
  Targets <- MCTargets
  MaxMsg = 1
  MaxCmd = 3

INVARIANTS
  UnlistedIsUnsubscribed
