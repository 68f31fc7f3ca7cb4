CONSTANTS
  NumFloors = 3
  FloorTicks = 2
  DoorTicks = 1
  NumElevators = 2
  MAX_REQUESTS = 1
  MAX_ASSIGN_PER_TICK = 2
  Events <- TwoCalls
  MaxEvents = 2
SPECIFICATION Spec
PROPERTY AcceptedCallsKept
