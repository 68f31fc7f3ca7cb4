---------------------------- MODULE ElevatorProofs ----------------------------
(***************************************************************************)
(* The theorems about one car: its invariants, when it parks, and that it  *)
(* implements ElevatorService.                                             *)
(***************************************************************************)
EXTENDS Elevator, ElevatorStateProofs

-----------------------------------------------------------------------------
(* The invariants of one car *)

\* The car is sound initially, and every step of the core loop and every
\* request keeps it so.
THEOREM CarStaysSound == Spec => []CarInv(e)
<1>1. Init => CarInv(e)
  BY ConstantsAssumption
  DEF Init, Elevator_init, CarInv, StatesReached, Purposeful, StoppedAtTarget, LittleLeftOver,
      Travelling, AtStop, ElevatorStruct, TaskState, Floors
<1>2. CarInv(e) /\ [Next]_e => CarInv(e)'
  <2> SUFFICES ASSUME CarInv(e), [Next]_e
               PROVE  CarInv(e')
    OBVIOUS
  <2>1. ASSUME NEW floor \in -1 .. NumFloors, NEW type \in RequestType, Press(floor, type)
        PROVE  CarInv(e')
    BY <2>1, PressIsSound DEF Press
  <2>2. CASE Tick
    BY <2>2, StepIsSound DEF Tick
  <2>3. CASE UNCHANGED e
    BY <2>3
  <2> QED
    BY <2>1, <2>2, <2>3 DEF Next
<1> QED
  BY <1>1, <1>2, PTL DEF Spec

\* Every field keeps to its range.
THEOREM TypeCorrect == Spec => []TypeOK
<1>1. CarInv(e) => TypeOK
  BY DEF CarInv, TypeOK
<1> QED
  BY <1>1, CarStaysSound, PTL

\* A trip always has somebody waiting at its end.
THEOREM TripsHavePurpose == Spec => []TripHasPurpose
<1>1. CarInv(e) => TripHasPurpose
  BY DEF CarInv, TripHasPurpose
<1> QED
  BY <1>1, CarStaysSound, PTL

\* The door works at the target only.
THEOREM StopsAreAtTarget == Spec => []StopsAtTarget
<1>1. CarInv(e) => StopsAtTarget
  BY DEF CarInv, StopsAtTarget
<1> QED
  BY <1>1, CarStaysSound, PTL

\* Travel time is not carried over by more than a tick.
THEOREM LittleTimeIsLeftOver == Spec => []LittleTimeLeftOver
<1>1. CarInv(e) => LittleTimeLeftOver
  BY DEF CarInv, LittleTimeLeftOver
<1> QED
  BY <1>1, CarStaysSound, PTL

-----------------------------------------------------------------------------
(* The car keeps the promise of ElevatorService *)

\* Pressing a button is asking, or nothing for a floor that is not there.
LEMMA PressIsAsk ==
  ASSUME CarInv(e), NEW floor, NEW type \in RequestType, Press(floor, type)
  PROVE  [Service!Next]_(Service!vars)
<1>1. e \in ElevatorStruct
  BY DEF CarInv
<1>2. CASE floor \notin Floors
  BY <1>2 DEF Press, elevator_add_request_flag, Service!vars
<1>3. CASE floor \in Floors
  <2>1. e' = [e EXCEPT !.call_up   = IF type = "CALL_UP"   THEN @ \cup {floor} ELSE @,
                       !.call_down = IF type = "CALL_DOWN" THEN @ \cup {floor} ELSE @,
                       !.inside    = IF type = "INSIDE"    THEN @ \cup {floor} ELSE @]
    BY <1>3 DEF Press, elevator_add_request_flag, AddRequestUnchecked
  <2>2. /\ e'.current_floor = e.current_floor /\ e'.task_state = e.task_state
        /\ e'.call_up   = IF type = "CALL_UP"   THEN e.call_up   \cup {floor} ELSE e.call_up
        /\ e'.call_down = IF type = "CALL_DOWN" THEN e.call_down \cup {floor} ELSE e.call_down
        /\ e'.inside    = IF type = "INSIDE"    THEN e.inside    \cup {floor} ELSE e.inside
    BY <1>1, <2>1 DEF ElevatorStruct
  <2>3. DoorOpen(e)' <=> DoorOpen(e)
    BY <2>2 DEF DoorOpen
  <2>4. Service!Ask(floor)
    BY <2>2, <2>3 DEF Service!Ask, RequestType, DoorOpen
  <2>5. floor \in Service!Floors
    BY <1>3 DEF Floors, Service!Floors
  <2> QED
    BY <2>4, <2>5 DEF Service!Next
<1> QED
  BY <1>2, <1>3

\* MOVING, or PREPARE falling through into it.
LEMMA TravelIsServed ==
  ASSUME CarInv(e), NEW due \in FloorDue(e), Travelling(e), e' = Elevator_step(e, due)
  PROVE  [Service!Next]_(Service!vars)
<1>1. /\ e \in ElevatorStruct /\ e.target_floor # e.current_floor
      /\ e.target_floor \in Requests(e)
      /\ e.current_floor \in Int /\ e.target_floor \in Int
  BY ConstantsAssumption DEF CarInv, Purposeful, ElevatorStruct, Floors
<1>2. /\ ~DoorOpen(e') /\ e'.inside = e.inside
      /\ Stays(e, e') \/ Climbs(e, e') \/ Descends(e, e')
  BY TravelMovesOneFloor
<1>3. ~DoorOpen(e) /\ DoorOpen(e)' = DoorOpen(e)
  BY <1>2 DEF DoorOpen, Travelling
<1>4. CASE Stays(e, e')
  BY <1>2, <1>3, <1>4 DEF Stays, Service!vars
<1>5. CASE Climbs(e, e')
  <2>1. /\ e.target_floor > e.current_floor
        /\ e'.current_floor = e.current_floor + 1
        /\ e'.call_up = e.call_up \ {e.current_floor} /\ e'.call_down = e.call_down
    BY <1>5 DEF Climbs
  <2>2. Service!Climb
    BY <1>1, <1>2, <1>3, <2>1 DEF Service!Climb, Service!Waiting, Requests
  <2> QED
    BY <2>2 DEF Service!Next
<1>6. CASE Descends(e, e')
  <2>1. /\ e.target_floor < e.current_floor
        /\ e'.current_floor = e.current_floor - 1
        /\ e'.call_down = e.call_down \ {e.current_floor} /\ e'.call_up = e.call_up
    BY <1>6 DEF Descends
  <2>2. Service!Descend
    BY <1>1, <1>2, <1>3, <2>1 DEF Service!Descend, Service!Waiting, Requests
  <2> QED
    BY <2>2 DEF Service!Next
<1> QED
  BY <1>2, <1>4, <1>5, <1>6

\* The states in which the car stands.
LEMMA StandingIsServed ==
  ASSUME CarInv(e), NEW due \in FloorDue(e), ~Travelling(e), e' = Elevator_step(e, due)
  PROVE  [Service!Next]_(Service!vars)
<1>1. e \in ElevatorStruct /\ e.task_state \in {"IDLE", "ARRIVED", "DOOR_OPENING", "DOOR_OPEN"}
  BY DEF CarInv, ElevatorStruct, TaskState, StatesReached, Travelling
<1>2. CASE e.task_state = "IDLE"
  <2>1. e' = StepIdle(e) /\ ~DoorOpen(e)
    BY <1>2 DEF Elevator_step, DoorOpen
  <2>2. /\ e'.current_floor = e.current_floor /\ e'.inside = e.inside
        /\ e'.call_up = e.call_up /\ e'.call_down = e.call_down /\ ~DoorOpen(e')
    BY <1>1, <2>1, DepartOrParkKeeps
  <2>3. DoorOpen(e)' = DoorOpen(e)
    BY <2>1, <2>2 DEF DoorOpen
  <2> QED
    BY <2>2, <2>3 DEF Service!vars
<1>3. CASE e.task_state = "ARRIVED"
  <2>1. /\ e'.current_floor = e.current_floor /\ e'.inside = e.inside \ {e.current_floor}
        /\ e'.call_up = e.call_up /\ e'.call_down = e.call_down
        /\ ~DoorOpen(e) /\ DoorOpen(e)'
    BY <1>1, <1>3 DEF Elevator_step, StepArrived, ServeInside, DoorOpen, ElevatorStruct
  <2>2. e.current_floor \in Requests(e) /\ DoorOpen(e)' = TRUE
    BY <1>3, <2>1 DEF CarInv, StoppedAtTarget, DoorOpen
  <2>3. Service!Open
    BY <2>1, <2>2 DEF Service!Open, Service!Waiting, Requests
  <2> QED
    BY <2>3 DEF Service!Next
<1>4. CASE e.task_state = "DOOR_OPENING"
  <2>1. /\ e'.current_floor = e.current_floor /\ e'.inside = e.inside
        /\ e'.call_up = e.call_up /\ e'.call_down = e.call_down
        /\ e'.task_state = "DOOR_OPEN"
    BY <1>1, <1>4 DEF Elevator_step, StepDoorOpening, ElevatorStruct
  <2>2. DoorOpen(e)' = DoorOpen(e)
    BY <1>4, <2>1 DEF DoorOpen
  <2> QED
    BY <2>1, <2>2 DEF Service!vars
<1>5. CASE e.task_state = "DOOR_OPEN" /\ e.door_timer > 1
  <2>1. e' = [e EXCEPT !.door_timer = @ - 1]
    BY <1>5 DEF Elevator_step, StepDoorOpen
  <2>2. /\ e'.current_floor = e.current_floor /\ e'.inside = e.inside
        /\ e'.call_up = e.call_up /\ e'.call_down = e.call_down
        /\ e'.task_state = e.task_state
    BY <1>1, <2>1 DEF ElevatorStruct
  <2>3. DoorOpen(e)' = DoorOpen(e)
    BY <2>2 DEF DoorOpen
  <2> QED
    BY <2>2, <2>3 DEF Service!vars
<1>6. CASE e.task_state = "DOOR_OPEN" /\ ~(e.door_timer > 1)
  <2> DEFINE c == ServeInside([e EXCEPT !.door_timer = 0])
  <2>1. e' = DepartOrPark(c)
    BY <1>6 DEF Elevator_step, StepDoorOpen
  <2>2. c \in ElevatorStruct
    <3>1. [e EXCEPT !.door_timer = 0] \in ElevatorStruct
      BY <1>1, ConstantsAssumption DEF ElevatorStruct
    <3> QED
      BY <3>1, ServeInsideKeepsType
  <2>3. /\ c.current_floor = e.current_floor /\ c.inside = e.inside \ {e.current_floor}
        /\ c.call_up = e.call_up /\ c.call_down = e.call_down
    BY <1>1 DEF ServeInside, ElevatorStruct
  <2> HIDE DEF c
  <2>4. /\ e'.current_floor = c.current_floor /\ e'.inside = c.inside
        /\ e'.call_up = c.call_up /\ e'.call_down = c.call_down /\ ~DoorOpen(e')
    BY <2>1, <2>2, DepartOrParkKeeps
  <2>5. DoorOpen(e) /\ DoorOpen(e)' = FALSE
    BY <1>6, <2>4 DEF DoorOpen
  <2>6. Service!Close
    BY <2>3, <2>4, <2>5 DEF Service!Close
  <2> QED
    BY <2>6 DEF Service!Next
<1> QED
  BY <1>1, <1>2, <1>3, <1>4, <1>5, <1>6

\* Elevator implements ElevatorService under the mapping of Elevator!Service.
THEOREM CarKeepsService == Spec => ServiceSpec
<1>1. Init => Service!Init
  <2> SUFFICES ASSUME Init PROVE Service!Init
    OBVIOUS
  <2>1. /\ e.current_floor = 1 /\ e.task_state = "IDLE"
        /\ e.call_up = {} /\ e.call_down = {} /\ e.inside = {}
    BY DEF Init, Elevator_init
  <2>2. DoorOpen(e) = FALSE
    BY <2>1 DEF DoorOpen
  <2>3. 1 \in Service!Floors
    BY ConstantsAssumption DEF Service!Floors
  <2> QED
    BY <2>1, <2>2, <2>3 DEF Service!Init
<1>2. CarInv(e) /\ [Next]_e => [Service!Next]_(Service!vars)
  <2> SUFFICES ASSUME CarInv(e), [Next]_e
               PROVE  [Service!Next]_(Service!vars)
    OBVIOUS
  <2>1. ASSUME NEW floor \in -1 .. NumFloors, NEW type \in RequestType, Press(floor, type)
        PROVE  [Service!Next]_(Service!vars)
    BY <2>1, PressIsAsk
  <2>2. CASE Tick
    BY <2>2, TravelIsServed, StandingIsServed DEF Tick
  <2>3. CASE UNCHANGED e
    BY <2>3 DEF Service!vars, DoorOpen
  <2> QED
    BY <2>1, <2>2, <2>3 DEF Next
<1> QED
  BY <1>1, <1>2, CarStaysSound, PTL DEF Spec, ServiceSpec, Service!Spec

-----------------------------------------------------------------------------
(* Parking *)

\* The car goes idle only when nobody waits on another floor: a pick that found
\* nothing looked both ways.
THEOREM ParksWhenDone == Spec => ParksOnlyWhenDone
<1> DEFINE A == e.task_state # "IDLE" /\ e'.task_state = "IDLE"
                  => Requests(e') \subseteq {e'.current_floor}
<1>1. CarInv(e) /\ [Next]_e => [A]_e
  <2> SUFFICES ASSUME CarInv(e), Next, e.task_state # "IDLE", e'.task_state = "IDLE"
               PROVE  Requests(e') \subseteq {e'.current_floor}
    OBVIOUS
  <2>1. ASSUME NEW floor \in -1 .. NumFloors, NEW type \in RequestType, Press(floor, type)
        PROVE  FALSE
    BY <2>1 DEF Press, elevator_add_request_flag, AddRequestUnchecked, CarInv, ElevatorStruct
  <2>2. CASE Tick
    BY <2>2, ParkingStep DEF Tick
  <2> QED
    BY <2>1, <2>2 DEF Next
<1> QED
  BY <1>1, CarStaysSound, PTL DEF Spec, ParksOnlyWhenDone
=============================================================================
