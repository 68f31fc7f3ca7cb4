CONSTANTS
  Nodes = {n1, n2, n3, n4}
  NULL = NULL
  Event = {call, inside}
  EVT_SHUTDOWN = EVT_SHUTDOWN
  Consumers = {core, other}
SPECIFICATION FairSpec
INVARIANTS
  TypeOK
  ListIntact
  EveryNodeHasOneOwner
  NoLostWakeup
PROPERTIES
  QueueSpec
  ShutdownReleases
