CONSTANTS
  NumFloors = 3
  FloorTicks = 2
  DoorTicks = 1
  Watched <- EveryHallCall
SPECIFICATION HSpec
INVARIANT OnlyServedCallsCleared
