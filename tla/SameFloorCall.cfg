CONSTANTS
  NumFloors = 3
  FloorTicks = 2
  DoorTicks = 1
SPECIFICATION FairSpec
PROPERTY SameFloorCallOpensDoor
