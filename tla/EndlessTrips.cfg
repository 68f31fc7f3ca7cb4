CONSTANTS
  NumFloors = 4
  FloorTicks = 2
  DoorTicks = 1
  NumElevators = 2
  MAX_REQUESTS = 3
  MAX_ASSIGN_PER_TICK = 2
  Events <- OrdinaryTraffic
  MaxEvents = 3
SPECIFICATION FairSpec
PROPERTY ArrivalRemovesRequests
