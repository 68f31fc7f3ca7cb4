CONSTANTS
  NumFloors = 3
  FloorTicks = 2
  DoorTicks = 1
  NumElevators = 2
  MAX_REQUESTS = 3
  MAX_ASSIGN_PER_TICK = 2
  Events <- AllKinds
  MaxEvents = 3
SPECIFICATION Spec
INVARIANTS
  TypeOK
  EveryCarSound
  NoPhantomRequests
PROPERTIES
  CallsEndInACar
