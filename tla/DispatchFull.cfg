CONSTANTS
  NumFloors = 3
  FloorTicks = 2
  DoorTicks = 1
  NumElevators = 1
  MAX_REQUESTS = 3
  MAX_ASSIGN_PER_TICK = 2
  Events <- OneCar
  MaxEvents = 4
SPECIFICATION FairSpec
INVARIANT CallsWaitOnlyWhenFull
PROPERTIES
  CallsEndInACar
  PendingCallsAssigned
  AcceptedCallsReached
