SPECIFICATION FairSpec

CONSTANTS
  a = a
  b = b
  Topic <- MCTopic
  IngressTopic = a
  SubTopics <- MCSubTopics
  Conversions <- MCConversions
  Targets <- MCTargets
  MaxMsg = 2
  MaxCmd = 2

INVARIANTS
  RoutedAtomically
  PublisherOneAtATime
  AtMostOneCutShort
  ListedIsSubscribed

PROPERTIES
  EveryMessageHandled
  DestructorReturns
