CONSTANTS
  NumFloors = 3
  FloorTicks = 2
  DoorTicks = 2
  Watched <- TwoUp
SPECIFICATION HFairSpec
PROPERTIES
  InsideServed
  HallAnswered
  KnownCallsAnswered
  ParksOnlyWhenDone
  ServiceSpec
INVARIANTS
  KnownCallsKept
  TypeOK
  TripHasPurpose
  StopsAtTarget
  LittleTimeLeftOver
