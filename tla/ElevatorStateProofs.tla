------------------------- MODULE ElevatorStateProofs -------------------------
(***************************************************************************)
(* Lemmas about the operators of ElevatorState, for every number of floors *)
(* and every length of a floor and of a door stop: what one step or one    *)
(* request makes of a car.  ElevatorProofs uses them for one car and       *)
(* DispatchProofs for all of them.                                         *)
(***************************************************************************)
EXTENDS ElevatorState, WellFoundedInduction, TLAPS

-----------------------------------------------------------------------------
(* The next target *)

\* A picked target is a floor of the shaft with a request, never the car's own.
LEMMA TargetsAreRequests ==
  ASSUME NEW c \in ElevatorStruct, NEW f \in Targets(c)
  PROVE  f \in Floors /\ f \in Requests(c) /\ f # c.current_floor
<1>1. f \in Above(c) \cup Below(c)
  BY DEF Targets, Closest, Lowest, Highest
<1>2. Requests(c) \subseteq Floors
  BY DEF Requests, ElevatorStruct
<1>3. c.current_floor \in Int
  BY ConstantsAssumption DEF ElevatorStruct, Floors
<1> QED
  BY <1>1, <1>2, <1>3, ConstantsAssumption DEF Above, Below, Floors

\* The chosen target is one of the targets.
LEMMA NextTargetIsRequest ==
  ASSUME NEW c \in ElevatorStruct, Targets(c) # {}
  PROVE  /\ NextTarget(c) \in Floors
         /\ NextTarget(c) \in Requests(c)
         /\ NextTarget(c) # c.current_floor
<1>1. NextTarget(c) \in Targets(c)
  BY DEF NextTarget
<1> QED
  BY <1>1, TargetsAreRequests

\* A car that sets out has a purpose; whatever its state was.
LEMMA DepartsSoundly ==
  ASSUME NEW c \in ElevatorStruct, Targets(c) # {}, c.accum <= 1
  PROVE  CarInv(PrepareFor(c, NextTarget(c)))
<1> DEFINE f == NextTarget(c)
           d == PrepareFor(c, f)
<1>1. f \in Floors /\ f \in Requests(c) /\ f # c.current_floor
  BY NextTargetIsRequest
<1> HIDE DEF f
<1>2. d = [c EXCEPT !.target_floor = f, !.direction = Sign(f - c.current_floor),
                    !.task_state = "PREPARE"]
  BY DEF PrepareFor
<1>3. Sign(f - c.current_floor) \in {DIR_NONE, DIR_UP, DIR_DOWN}
  BY DEF Sign
<1>4. d \in ElevatorStruct
  BY <1>1, <1>2, <1>3 DEF ElevatorStruct, TaskState
<1>5. Purposeful(d)
  BY <1>1, <1>2 DEF Purposeful, Travelling, Requests, ElevatorStruct
<1>6. StatesReached(d) /\ StoppedAtTarget(d) /\ LittleLeftOver(d)
  BY <1>2 DEF StatesReached, StoppedAtTarget, AtStop, LittleLeftOver, Travelling, ElevatorStruct
<1> QED
  BY <1>4, <1>5, <1>6 DEF CarInv, f

\* Serving the passengers inside touches no other field than their flags.
LEMMA ServeInsideKeepsType ==
  ASSUME NEW c \in ElevatorStruct
  PROVE  ServeInside(c) \in ElevatorStruct
  BY DEF ServeInside, ElevatorStruct

\* A closed door leads to a sound car, on its way or parked.
LEMMA DepartOrParkIsSound ==
  ASSUME NEW c \in ElevatorStruct, c.accum <= 1
  PROVE  CarInv(DepartOrPark(c))
<1>1. CASE Targets(c) # {}
  BY <1>1, DepartsSoundly DEF DepartOrPark
<1>2. CASE Targets(c) = {}
  <2>1. DepartOrPark(c) = [c EXCEPT !.task_state = "IDLE", !.direction = DIR_NONE]
    BY <1>2 DEF DepartOrPark, ParkAlways
  <2>2. [c EXCEPT !.task_state = "IDLE", !.direction = DIR_NONE] \in ElevatorStruct
    BY DEF ElevatorStruct, TaskState
  <2> QED
    BY <2>1, <2>2 DEF CarInv, StatesReached, Purposeful, StoppedAtTarget, LittleLeftOver,
                      Travelling, AtStop, ElevatorStruct
<1> QED
  BY <1>1, <1>2

-----------------------------------------------------------------------------
(* One lemma per case of Elevator_step *)

\* A request set in any state of the car, for any floor and type, keeps it sound.
LEMMA PressIsSound ==
  ASSUME NEW c, CarInv(c), NEW floor, NEW type
  PROVE  CarInv(elevator_add_request_flag(c, floor, type))
<1> DEFINE d == elevator_add_request_flag(c, floor, type)
<1>1. CASE floor \in Floors
  <2>1. d = [c EXCEPT !.call_up   = IF type = "CALL_UP"   THEN @ \cup {floor} ELSE @,
                      !.call_down = IF type = "CALL_DOWN" THEN @ \cup {floor} ELSE @,
                      !.inside    = IF type = "INSIDE"    THEN @ \cup {floor} ELSE @]
    BY <1>1 DEF elevator_add_request_flag, AddRequestUnchecked
  <2>2. d \in ElevatorStruct
    <3> DEFINE with(S, t) == IF type = t THEN S \cup {floor} ELSE S
    <3>1. c \in ElevatorStruct
      BY DEF CarInv
    <3>2. /\ with(c.call_up, "CALL_UP") \in SUBSET Floors
          /\ with(c.call_down, "CALL_DOWN") \in SUBSET Floors
          /\ with(c.inside, "INSIDE") \in SUBSET Floors
      BY <1>1, <3>1 DEF ElevatorStruct
    <3>3. d = [c EXCEPT !.call_up   = with(c.call_up, "CALL_UP"),
                        !.call_down = with(c.call_down, "CALL_DOWN"),
                        !.inside    = with(c.inside, "INSIDE")]
      BY <2>1, <3>1 DEF ElevatorStruct
    <3> HIDE DEF with, d
    <3> QED
      BY <3>1, <3>2, <3>3 DEF ElevatorStruct
  <2>3. Requests(c) \subseteq Requests(d)
    BY <2>1 DEF CarInv, ElevatorStruct, Requests
  <2>4. /\ d.task_state = c.task_state /\ d.target_floor = c.target_floor
        /\ d.current_floor = c.current_floor /\ d.direction = c.direction
        /\ d.accum = c.accum
    BY <2>1 DEF CarInv, ElevatorStruct
  <2> HIDE DEF d
  <2> QED
    BY <2>2, <2>3, <2>4 DEF d, CarInv, StatesReached, Purposeful, StoppedAtTarget,
                            LittleLeftOver, Travelling, AtStop
<1>2. CASE floor \notin Floors
  BY <1>2 DEF elevator_add_request_flag
<1> QED
  BY <1>1, <1>2

\* The opening door: the car stays at its target.
LEMMA DoorOpeningIsSound ==
  ASSUME NEW c, CarInv(c), c.task_state = "DOOR_OPENING"
  PROVE  CarInv(StepDoorOpening(c))
<1>1. c \in ElevatorStruct /\ DoorTicks \in 0 .. DoorTicks
  BY ConstantsAssumption DEF CarInv
<1>2. StepDoorOpening(c) \in ElevatorStruct
  BY <1>1 DEF StepDoorOpening, ElevatorStruct, TaskState
<1> QED
  BY <1>1, <1>2 DEF StepDoorOpening, CarInv, StatesReached, Purposeful, StoppedAtTarget,
                    LittleLeftOver, Travelling, AtStop, ElevatorStruct

\* The open door, counting down or closing: the car departs soundly or parks.
LEMMA DoorOpenIsSound ==
  ASSUME NEW c, CarInv(c), c.task_state = "DOOR_OPEN"
  PROVE  CarInv(StepDoorOpen(c))
<1>1. CASE c.door_timer > 1
  <2>1. StepDoorOpen(c) = [c EXCEPT !.door_timer = @ - 1]
    BY <1>1 DEF StepDoorOpen
  <2>2. [c EXCEPT !.door_timer = @ - 1] \in ElevatorStruct
    BY <1>1, ConstantsAssumption DEF CarInv, ElevatorStruct
  <2> QED
    BY <2>1, <2>2 DEF CarInv, StatesReached, Purposeful, StoppedAtTarget, LittleLeftOver,
                      Travelling, AtStop, ElevatorStruct
<1>2. CASE ~(c.door_timer > 1)
  <2> DEFINE d == ServeInside([c EXCEPT !.door_timer = 0])
  <2>1. [c EXCEPT !.door_timer = 0] \in ElevatorStruct
    BY ConstantsAssumption DEF CarInv, ElevatorStruct
  <2>2. d \in ElevatorStruct
    BY <2>1, ServeInsideKeepsType
  <2>3. d.accum <= 1
    BY DEF ServeInside, CarInv, LittleLeftOver, Travelling, ElevatorStruct
  <2> QED
    BY <1>2, <2>2, <2>3, DepartOrParkIsSound DEF StepDoorOpen
<1> QED
  BY <1>1, <1>2

\* A tick of travel: the car keeps its purpose until it is at the target, and
\* then the request it came for is still there.
LEMMA MovingIsSound ==
  ASSUME NEW c, CarInv(c), c.task_state = "MOVING", NEW due \in FloorDue(c)
  PROVE  CarInv(StepMoving(c, due))
<1> DEFINE t == c.target_floor
           s == Sign(t - c.current_floor)
<1>1. /\ c \in ElevatorStruct /\ t \in Requests(c) /\ t # c.current_floor /\ c.direction = s
  BY DEF CarInv, Purposeful, Travelling
<1>2. t \in Int /\ c.current_floor \in Int /\ t \in Floors /\ c.current_floor \in Floors
  BY <1>1, ConstantsAssumption DEF ElevatorStruct, Requests, Floors
<1>3. CASE ~due
  <2>1. c.accum + 1 <= FloorTicks
    BY <1>3 DEF FloorDue
  <2>2. StepMoving(c, due) = [c EXCEPT !.accum = @ + 1]
    BY <1>1, <1>3 DEF StepMoving, Accumulate, ElevatorStruct
  <2>3. [c EXCEPT !.accum = @ + 1] \in ElevatorStruct
    BY <1>1, <2>1, ConstantsAssumption DEF ElevatorStruct
  <2> QED
    BY <2>2, <2>3 DEF CarInv, StatesReached, Purposeful, StoppedAtTarget, LittleLeftOver,
                      Travelling, AtStop, ElevatorStruct, Requests
<1>4. CASE due
  <2> DEFINE a == Accumulate(c, due)
             m == MoveOneFloor(a)
  <2>1. c.accum + 1 >= FloorTicks
    BY <1>4 DEF FloorDue
  <2>2. a = [c EXCEPT !.accum = @ + 1 - FloorTicks]
    BY <1>4 DEF Accumulate
  <2>3. c.accum + 1 - FloorTicks \in 0 .. 1 /\ c.accum + 1 - FloorTicks \in 0 .. FloorTicks
    BY <1>1, <2>1, ConstantsAssumption DEF ElevatorStruct
  <2>4. /\ m.current_floor = c.current_floor + s
        /\ m.call_up   = IF s = DIR_UP   THEN c.call_up   \ {c.current_floor} ELSE c.call_up
        /\ m.call_down = IF s = DIR_DOWN THEN c.call_down \ {c.current_floor} ELSE c.call_down
        /\ m.inside = c.inside
        /\ m.accum = c.accum + 1 - FloorTicks
        /\ m.task_state = c.task_state /\ m.target_floor = t /\ m.direction = c.direction
    BY <1>1, <2>2 DEF MoveOneFloor, ElevatorStruct
  <2>5. c.current_floor + s \in Floors
    BY <1>1, <1>2, ConstantsAssumption DEF Sign, DIR_UP, DIR_DOWN, DIR_NONE, Floors
  <2>6. m \in ElevatorStruct
    BY <1>1, <2>2, <2>3, <2>5 DEF MoveOneFloor, ElevatorStruct
  <2>7. t \in Requests(m)
    BY <1>1, <2>4 DEF Requests
  <2> HIDE DEF m
  <2>8. CASE m.current_floor = t
    <3>1. StepMoving(c, due) = [m EXCEPT !.task_state = "ARRIVED"]
      BY <1>4, <2>4, <2>8 DEF StepMoving, m
    <3>2. [m EXCEPT !.task_state = "ARRIVED"] \in ElevatorStruct
      BY <2>6 DEF ElevatorStruct, TaskState
    <3> QED
      BY <2>3, <2>4, <2>6, <2>7, <2>8, <3>1, <3>2
      DEF CarInv, StatesReached, Purposeful, StoppedAtTarget, LittleLeftOver,
          Travelling, AtStop, ElevatorStruct, Requests
  <2>9. CASE m.current_floor # t
    <3>1. StepMoving(c, due) = m
      BY <1>4, <2>4, <2>9 DEF StepMoving, m
    <3>2. m.direction = Sign(t - m.current_floor)
      BY <1>1, <1>2, <2>4, <2>9 DEF Sign, DIR_UP, DIR_DOWN, DIR_NONE
    <3> QED
      BY <2>4, <2>6, <2>7, <2>9, <3>1, <3>2
      DEF CarInv, StatesReached, Purposeful, StoppedAtTarget, LittleLeftOver, Travelling, AtStop
  <2> QED
    BY <2>8, <2>9
<1> QED
  BY <1>3, <1>4

\* TASK_PREPARE falls through into TASK_MOVING in the same step.
LEMMA PrepareIsSound ==
  ASSUME NEW c, CarInv(c), c.task_state = "PREPARE", NEW due \in FloorDue(c)
  PROVE  CarInv(StepPrepare(c, due))
<1> DEFINE d == [c EXCEPT !.direction  = Sign(c.target_floor - c.current_floor),
                          !.task_state = "MOVING"]
<1>1. /\ c \in ElevatorStruct /\ c.target_floor \in Requests(c)
      /\ c.target_floor # c.current_floor
  BY DEF CarInv, Purposeful, Travelling
<1>2. StepPrepare(c, due) = StepMoving(d, due)
  BY <1>1 DEF StepPrepare
<1>3. Sign(c.target_floor - c.current_floor) \in {DIR_NONE, DIR_UP, DIR_DOWN}
  BY DEF Sign
<1>4. d \in ElevatorStruct
  BY <1>1, <1>3 DEF ElevatorStruct, TaskState
<1>5. CarInv(d)
  BY <1>1, <1>4 DEF CarInv, StatesReached, Purposeful, StoppedAtTarget, LittleLeftOver,
                    Travelling, AtStop, ElevatorStruct, Requests
<1>6. FloorDue(d) = FloorDue(c) /\ d.task_state = "MOVING"
  BY <1>1 DEF FloorDue, ElevatorStruct
<1> HIDE DEF d
<1> QED
  BY <1>2, <1>5, <1>6, MovingIsSound

\* TASK_ARRIVED: the door starts to open at the target.
LEMMA ArrivedIsSound ==
  ASSUME NEW c, CarInv(c), c.task_state = "ARRIVED"
  PROVE  CarInv(StepArrived(c))
<1>1. c \in ElevatorStruct /\ DoorTicks \in 0 .. DoorTicks
  BY ConstantsAssumption DEF CarInv
<1>2. [c EXCEPT !.task_state = "DOOR_OPENING", !.door_timer = DoorTicks] \in ElevatorStruct
  BY <1>1 DEF ElevatorStruct, TaskState
<1>3. StepArrived(c) \in ElevatorStruct
  BY <1>2, ServeInsideKeepsType DEF StepArrived
<1> QED
  BY <1>3 DEF StepArrived, ServeInside, CarInv, StatesReached, Purposeful, StoppedAtTarget,
              LittleLeftOver, Travelling, AtStop, ElevatorStruct

\* TASK_IDLE and default: the car sets out soundly or stays.
LEMMA IdleIsSound ==
  ASSUME NEW c, CarInv(c), c.task_state = "IDLE"
  PROVE  CarInv(StepIdle(c))
<1>1. c \in ElevatorStruct /\ c.accum <= 1
  BY DEF CarInv, LittleLeftOver, Travelling
<1>2. CASE Targets(c) # {}
  BY <1>1, <1>2, DepartsSoundly DEF StepIdle
<1>3. CASE Targets(c) = {}
  <2>1. StepIdle(c) = c
    BY <1>1, <1>3 DEF StepIdle, ElevatorStruct
  <2> QED
    BY <2>1
<1> QED
  BY <1>2, <1>3

\* A step of the car keeps it sound, whichever state it is in.
LEMMA StepIsSound ==
  ASSUME NEW c, CarInv(c), NEW due \in FloorDue(c)
  PROVE  CarInv(Elevator_step(c, due))
<1>1. c.task_state \in {"IDLE", "PREPARE", "MOVING", "ARRIVED", "DOOR_OPENING", "DOOR_OPEN"}
  BY DEF CarInv, ElevatorStruct, TaskState, StatesReached
<1> QED
  BY <1>1, DoorOpeningIsSound, DoorOpenIsSound, PrepareIsSound, MovingIsSound,
     ArrivedIsSound, IdleIsSound
  DEF Elevator_step

-----------------------------------------------------------------------------
(* The car parks only when nobody waits elsewhere *)

\* A nonempty set of floors has a lowest one: what an upward scan stops at.
LEMMA LowestExists ==
  ASSUME NEW S \in SUBSET Nat, S # {}
  PROVE  Lowest(S) # {}
<1>1. PICK x \in S : \A y \in S : ~(<<y, x>> \in OpToRel(<, Nat))
  BY NatLessThanWellFounded, WFMin
<1>2. \A y \in S : ~(y < x)
  BY <1>1 DEF OpToRel
<1>3. \A y \in S : x <= y
  BY <1>2
<1> QED
  BY <1>3 DEF Lowest

\* A nonempty set of floors has a highest one: what a downward scan stops at.
LEMMA HighestExists ==
  ASSUME NEW S \in SUBSET Floors, S # {}
  PROVE  Highest(S) # {}
<1> DEFINE T == {NumFloors - f : f \in S}
<1>1. T \in SUBSET Nat /\ T # {}
  <2>1. \A f \in S : NumFloors - f \in Nat
    BY ConstantsAssumption DEF Floors
  <2>2. \A t \in T : t \in Nat
    BY <2>1
  <2> QED
    BY <2>2
<1>2. PICK t \in T : \A u \in T : t <= u
  BY <1>1, LowestExists DEF Lowest
<1>3. PICK x \in S : t = NumFloors - x
  BY <1>2
<1>4. \A y \in S : NumFloors - x <= NumFloors - y
  BY <1>2, <1>3
<1>5. \A y \in S : y <= x
  BY <1>4, ConstantsAssumption DEF Floors
<1> QED
  BY <1>5 DEF Highest

\* The pick finds a target whenever anybody waits on another floor: the search
\* ahead, the turn and the search from a standstill together look everywhere.
LEMMA PickLooksEverywhere ==
  ASSUME NEW c \in ElevatorStruct, Targets(c) = {}
  PROVE  Requests(c) \subseteq {c.current_floor}
<1>1. /\ Requests(c) \in SUBSET Floors /\ c.current_floor \in Floors
      /\ Floors \subseteq Nat
  BY ConstantsAssumption DEF Requests, ElevatorStruct, Floors
<1>2. Above(c) \in SUBSET Floors /\ Below(c) \in SUBSET Floors
  BY <1>1 DEF Above, Below
<1>3. /\ Above(c) # {} => \E f \in Above(c) : f \in Lowest(Above(c))
      /\ Below(c) # {} => \E g \in Below(c) : g \in Highest(Below(c))
  BY <1>1, <1>2, LowestExists, HighestExists DEF Lowest, Highest
<1>4. Above(c) = {} /\ Below(c) = {}
  <2>1. CASE c.direction # DIR_UP /\ c.direction # DIR_DOWN
    <3>1. Closest(c) = {}
      BY <2>1 DEF Targets
    <3>2. SUFFICES ASSUME Above(c) # {} \/ Below(c) # {} PROVE FALSE
      OBVIOUS
    <3>3. CASE Below(c) = {}
      BY <1>3, <3>1, <3>2, <3>3 DEF Closest
    <3>4. CASE Above(c) = {}
      BY <1>3, <3>1, <3>2, <3>4 DEF Closest
    <3>5. CASE Above(c) # {} /\ Below(c) # {}
      <4>1. PICK f \in Above(c) : f \in Lowest(Above(c))
        BY <1>3, <3>5
      <4>2. PICK g \in Below(c) : g \in Highest(Below(c))
        BY <1>3, <3>5
      <4>3. \A h \in Above(c) : f <= h
        BY <4>1 DEF Lowest
      <4>4. \A h \in Below(c) : h <= g
        BY <4>2 DEF Highest
      <4>5. Above(c) \subseteq Nat /\ Below(c) \subseteq Nat /\ c.current_floor \in Nat
        BY <1>1, <1>2
      <4>6. CASE f - c.current_floor <= c.current_floor - g
        <5>1. \A h \in Below(c) : f - c.current_floor <= c.current_floor - h
          BY <4>4, <4>5, <4>6
        <5> QED
          BY <3>1, <4>1, <5>1 DEF Closest
      <4>7. CASE ~(f - c.current_floor <= c.current_floor - g)
        <5>1. \A h \in Above(c) : c.current_floor - g < h - c.current_floor
          BY <4>3, <4>5, <4>7
        <5> QED
          BY <3>1, <4>2, <5>1 DEF Closest
      <4> QED
        BY <4>6, <4>7
    <3> QED
      BY <3>2, <3>3, <3>4, <3>5
  <2>2. CASE c.direction = DIR_UP
    BY <1>3, <2>2 DEF Targets
  <2>3. CASE c.direction = DIR_DOWN
    BY <1>3, <2>3 DEF Targets, DIR_UP, DIR_DOWN
  <2> QED
    BY <2>1, <2>2, <2>3
<1>5. ASSUME NEW f \in Requests(c) PROVE f = c.current_floor
  <2>1. f \in Nat /\ c.current_floor \in Nat
    BY <1>1
  <2>2. ~(f > c.current_floor) /\ ~(f < c.current_floor)
    BY <1>4 DEF Above, Below
  <2> QED
    BY <2>1, <2>2
<1> QED
  BY <1>5

\* Only the closing door parks a car, and only after a pick that found nothing.
LEMMA ParkingStep ==
  ASSUME NEW c, CarInv(c), c.task_state # "IDLE", NEW due \in FloorDue(c),
         NEW d, d = Elevator_step(c, due), d.task_state = "IDLE"
  PROVE  Requests(d) \subseteq {d.current_floor}
<1>1. /\ c \in ElevatorStruct
      /\ c.task_state \in {"PREPARE", "MOVING", "ARRIVED", "DOOR_OPENING", "DOOR_OPEN"}
  BY DEF CarInv, ElevatorStruct, TaskState, StatesReached
<1>2. CASE c.task_state = "DOOR_OPEN" /\ ~(c.door_timer > 1)
  <2> DEFINE b == ServeInside([c EXCEPT !.door_timer = 0])
  <2>1. d = DepartOrPark(b)
    BY <1>2 DEF Elevator_step, StepDoorOpen
  <2>2. b \in ElevatorStruct
    <3>1. [c EXCEPT !.door_timer = 0] \in ElevatorStruct
      BY <1>1, ConstantsAssumption DEF ElevatorStruct
    <3> QED
      BY <3>1, ServeInsideKeepsType
  <2> HIDE DEF b
  <2>3. CASE Targets(b) = {}
    BY <2>1, <2>2, <2>3, PickLooksEverywhere
    DEF DepartOrPark, ParkAlways, Requests, ElevatorStruct
  <2>4. CASE Targets(b) # {}
    <3>1. d.task_state = "PREPARE"
      BY <2>1, <2>2, <2>4 DEF DepartOrPark, PrepareFor, ElevatorStruct
    <3> QED
      BY <3>1
  <2> QED
    BY <2>3, <2>4
<1>3. CASE c.task_state = "DOOR_OPEN" /\ c.door_timer > 1
  BY <1>1, <1>3 DEF Elevator_step, StepDoorOpen, ElevatorStruct
<1>4. CASE c.task_state \in {"ARRIVED", "DOOR_OPENING"}
  BY <1>1, <1>4 DEF Elevator_step, StepArrived, StepDoorOpening, ServeInside, ElevatorStruct
<1>5. CASE c.task_state = "MOVING"
  BY <1>1, <1>5 DEF Elevator_step, StepMoving, Accumulate, MoveOneFloor, ElevatorStruct
<1>6. CASE c.task_state = "PREPARE"
  <2>1. c.target_floor # c.current_floor
    BY <1>6 DEF CarInv, Purposeful, Travelling
  <2> QED
    BY <1>1, <1>6, <2>1
    DEF Elevator_step, StepPrepare, StepMoving, Accumulate, MoveOneFloor, ElevatorStruct
<1> QED
  BY <1>1, <1>2, <1>3, <1>4, <1>5, <1>6

-----------------------------------------------------------------------------
(* What a step shows of the car to its passengers *)

\* What the promise sees of a car is left alone by choosing a trip or parking.
LEMMA DepartOrParkKeeps ==
  ASSUME NEW c \in ElevatorStruct, NEW d, d \in {DepartOrPark(c), StepIdle(c)}
  PROVE  /\ d.current_floor = c.current_floor /\ d.inside = c.inside
         /\ d.call_up = c.call_up /\ d.call_down = c.call_down
         /\ ~DoorOpen(d)
  BY DEF DepartOrPark, StepIdle, PrepareFor, ParkAlways, DoorOpen, ElevatorStruct

\* What ElevatorService calls standing still, climbing and descending.
Stays(c, d) ==
  /\ d.current_floor = c.current_floor
  /\ d.call_up = c.call_up /\ d.call_down = c.call_down
Climbs(c, d) ==
  /\ c.target_floor > c.current_floor
  /\ d.current_floor = c.current_floor + 1
  /\ d.call_up = c.call_up \ {c.current_floor} /\ d.call_down = c.call_down
Descends(c, d) ==
  /\ c.target_floor < c.current_floor
  /\ d.current_floor = c.current_floor - 1
  /\ d.call_down = c.call_down \ {c.current_floor} /\ d.call_up = c.call_up

\* A tick of travel is invisible, or one floor towards the target.
LEMMA MovingMovesOneFloor ==
  ASSUME NEW c, CarInv(c), c.task_state = "MOVING", NEW due \in BOOLEAN,
         NEW d, d = StepMoving(c, due)
  PROVE  /\ ~DoorOpen(d) /\ d.inside = c.inside
         /\ d.task_state \in {"MOVING", "ARRIVED"} /\ d.target_floor = c.target_floor
         /\ Stays(c, d) \/ Climbs(c, d) \/ Descends(c, d)
<1>1. c \in ElevatorStruct /\ c.current_floor \in Int /\ c.target_floor \in Int
  BY ConstantsAssumption DEF CarInv, ElevatorStruct, Floors
<1>2. CASE ~due
  BY <1>1, <1>2 DEF StepMoving, Accumulate, Stays, DoorOpen, ElevatorStruct
<1>3. CASE due
  <2> DEFINE s == Sign(c.target_floor - c.current_floor)
             a == Accumulate(c, due)
             m == MoveOneFloor(a)
  <2>1. a = [c EXCEPT !.accum = @ + 1 - FloorTicks]
    BY <1>3 DEF Accumulate
  <2>2. /\ m.current_floor = c.current_floor + s
        /\ m.call_up   = IF s = DIR_UP   THEN c.call_up   \ {c.current_floor} ELSE c.call_up
        /\ m.call_down = IF s = DIR_DOWN THEN c.call_down \ {c.current_floor} ELSE c.call_down
        /\ m.inside = c.inside /\ m.task_state = "MOVING" /\ m.target_floor = c.target_floor
        /\ m = [c EXCEPT !.accum = m.accum, !.current_floor = m.current_floor,
                         !.call_up = m.call_up, !.call_down = m.call_down]
    BY <1>1, <2>1 DEF MoveOneFloor, ElevatorStruct
  <2>3. d = IF m.current_floor = m.target_floor
            THEN [m EXCEPT !.task_state = "ARRIVED"] ELSE m
    BY <1>3 DEF StepMoving
  <2> HIDE DEF m
  <2>4. /\ d.current_floor = m.current_floor /\ d.inside = m.inside
        /\ d.call_up = m.call_up /\ d.call_down = m.call_down
        /\ d.task_state \in {"MOVING", "ARRIVED"} /\ d.target_floor = m.target_floor
    BY <1>1, <2>2, <2>3 DEF ElevatorStruct
  <2>5. /\ ~DoorOpen(d) /\ d.inside = c.inside
        /\ d.task_state \in {"MOVING", "ARRIVED"} /\ d.target_floor = c.target_floor
    BY <2>2, <2>4 DEF DoorOpen
  <2>6. CASE c.target_floor > c.current_floor
    <3>1. s = 1
      BY <1>1, <2>6 DEF Sign, DIR_UP
    <3>2. Climbs(c, d)
      BY <2>2, <2>4, <2>6, <3>1 DEF Climbs, DIR_UP, DIR_DOWN
    <3> QED
      BY <2>5, <3>2
  <2>7. CASE c.target_floor < c.current_floor
    <3>1. s = -1
      BY <1>1, <2>7 DEF Sign, DIR_DOWN
    <3>2. Descends(c, d)
      BY <1>1, <2>2, <2>4, <2>7, <3>1 DEF Descends, DIR_UP, DIR_DOWN
    <3> QED
      BY <2>5, <3>2
  <2>8. c.target_floor # c.current_floor
    BY DEF CarInv, Purposeful, Travelling
  <2> QED
    BY <1>1, <2>6, <2>7, <2>8
<1> QED
  BY <1>2, <1>3

\* The same from PREPARE, which falls through into MOVING.
LEMMA TravelMovesOneFloor ==
  ASSUME NEW c, CarInv(c), Travelling(c), NEW due \in FloorDue(c),
         NEW d, d = Elevator_step(c, due)
  PROVE  /\ ~DoorOpen(d) /\ d.inside = c.inside
         /\ d.task_state \in {"MOVING", "ARRIVED"} /\ d.target_floor = c.target_floor
         /\ Stays(c, d) \/ Climbs(c, d) \/ Descends(c, d)
<1> DEFINE m == IF c.task_state = "MOVING" THEN c
                ELSE [c EXCEPT !.direction  = Sign(c.target_floor - c.current_floor),
                               !.task_state = "MOVING"]
<1>1. c \in ElevatorStruct /\ c.target_floor # c.current_floor
  BY DEF CarInv, Purposeful
<1>2. d = StepMoving(m, due)
  BY <1>1 DEF Travelling, Elevator_step, StepPrepare
<1>3. /\ m.task_state = "MOVING" /\ m.current_floor = c.current_floor
      /\ m.target_floor = c.target_floor /\ m.inside = c.inside
      /\ m.call_up = c.call_up /\ m.call_down = c.call_down
  BY <1>1 DEF Travelling, ElevatorStruct
<1>4. CarInv(m)
  <2>1. Sign(c.target_floor - c.current_floor) \in {DIR_NONE, DIR_UP, DIR_DOWN}
    BY DEF Sign
  <2>2. m \in ElevatorStruct
    BY <1>1, <2>1 DEF ElevatorStruct, TaskState
  <2> QED
    BY <1>1, <2>2 DEF CarInv, StatesReached, Purposeful, StoppedAtTarget, LittleLeftOver,
                      Travelling, AtStop, ElevatorStruct, Requests
<1> HIDE DEF m
<1>5. due \in BOOLEAN
  BY DEF FloorDue
<1>6. /\ ~DoorOpen(d) /\ d.inside = m.inside
      /\ d.task_state \in {"MOVING", "ARRIVED"} /\ d.target_floor = m.target_floor
      /\ Stays(m, d) \/ Climbs(m, d) \/ Descends(m, d)
  BY <1>2, <1>3, <1>4, <1>5, MovingMovesOneFloor
<1> QED
  BY <1>3, <1>6 DEF Stays, Climbs, Descends
=============================================================================
