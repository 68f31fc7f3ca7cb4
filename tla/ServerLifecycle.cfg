CONSTANTS
  Nodes = {n1, n2, n3}
  NULL = NULL
  Event = {call, inside}
  EVT_SHUTDOWN = EVT_SHUTDOWN
  Consumers = {core_thread}
  Core = core_thread
SPECIFICATION FairLSpec
INVARIANTS
  LTypeOK
  StopIsNotLost
PROPERTIES
  EndsOnlyWhenStopped
  StopReturns
  EventsReachCore
