---------------------------- MODULE ElevatorState ----------------------------
(***************************************************************************)
(* The Elevator struct of src/core/elevator.h and the functions of         *)
(* src/core/elevator.c as operators from one value of the struct to the    *)
(* next.  Elevator.tla runs them for one car, Dispatch.tla for all cars.   *)
(*                                                                         *)
(* Time is counted in core-loop ticks (TICK_DT_SECONDS = 0.1 s).  A car    *)
(* carries its own entry of g_accum_time as the field "accum".             *)
(*                                                                         *)
(* AddRequestUnchecked and ParkAlways are steps of the definitions that    *)
(* follow them; the others that nothing uses here (ServeNothing,           *)
(* TargetsNeverTurning, TargetsOwnFloorToo, MoveOneFloorForgetful,         *)
(* MoveOneFloorClearsAhead, AccumulateNoSubtract) are faulty variants of   *)
(* the definition after them that PROJECT.json names as mutants.           *)
(***************************************************************************)
EXTENDS Integers, FiniteSets

CONSTANTS
  NumFloors,   \* MAX_FLOORS (100 in the build)
  FloorTicks,  \* time_per_floor / dt (10 in the build)
  DoorTicks    \* steps one DEFAULT_DOOR_OPEN_S lasts (11 in the build: ten
               \* subtractions of 0.1 from 1.0 leave 1.4e-16 > 0)

\* Elevator_init starts every car on floor 1, so there are at least two floors;
\* a tick (0.1 s) is shorter than a floor (1 s), so no step moves two floors.
ASSUME ConstantsAssumption ==
  /\ NumFloors \in Nat /\ NumFloors >= 2
  /\ FloorTicks \in Nat /\ FloorTicks >= 2
  /\ DoorTicks \in Nat /\ DoorTicks >= 1

Floors == 0 .. NumFloors - 1

DIR_NONE == 0
DIR_UP   == 1
DIR_DOWN == -1

TaskState == {"IDLE", "PREPARE", "MOVING", "ARRIVED",
              "DOOR_OPENING", "DOOR_OPEN", "DOOR_CLOSING", "ERROR"}
RequestType == {"CALL_UP", "CALL_DOWN", "INSIDE"}

\* The bool arrays call_up, call_down and inside are sets of floors.
ElevatorStruct ==
  [current_floor : Floors,
   target_floor  : Floors \cup {-1},
   task_state    : TaskState,
   door_timer    : 0 .. DoorTicks,
   direction     : {DIR_NONE, DIR_UP, DIR_DOWN},
   call_up       : SUBSET Floors,
   call_down     : SUBSET Floors,
   inside        : SUBSET Floors,
   accum         : 0 .. FloorTicks]

Elevator_init(start) ==
  [current_floor |-> start, target_floor |-> -1, task_state |-> "IDLE",
   door_timer |-> 0, direction |-> DIR_NONE,
   call_up |-> {}, call_down |-> {}, inside |-> {}, accum |-> 0]

Sign(x) == IF x > 0 THEN DIR_UP ELSE IF x < 0 THEN DIR_DOWN ELSE DIR_NONE

-----------------------------------------------------------------------------
(* Requests *)

\* has_request_on_floor(e, f) is f \in Requests(e).
Requests(e) == e.inside \cup e.call_up \cup e.call_down

AddRequestUnchecked(e, floor, type) ==
  [e EXCEPT !.call_up   = IF type = "CALL_UP"   THEN @ \cup {floor} ELSE @,
            !.call_down = IF type = "CALL_DOWN" THEN @ \cup {floor} ELSE @,
            !.inside    = IF type = "INSIDE"    THEN @ \cup {floor} ELSE @]

\* The car after elevator_add_request_flag; a floor outside the shaft is refused
\* (ELEV_ERR_INVALID) and a flag already set is left alone (ELEV_DUPLICATE).
elevator_add_request_flag(e, floor, type) ==
  IF floor \in Floors THEN AddRequestUnchecked(e, floor, type) ELSE e

ServeNothing(e) == e

\* remove_served_flags_on_arrival: only the car passengers' request goes.
ServeInside(e) == [e EXCEPT !.inside = @ \ {e.current_floor}]

-----------------------------------------------------------------------------
(* The choice of the next target *)

Above(e) == {f \in Requests(e) : f > e.current_floor}
Below(e) == {f \in Requests(e) : f < e.current_floor}
Lowest(S)  == {f \in S : \A g \in S : f <= g}
Highest(S) == {f \in S : \A g \in S : g <= f}

\* From DIR_NONE the search widens one floor at a time and looks up first.
Closest(e) ==
  {f \in Lowest(Above(e)) :
     \A g \in Below(e) : f - e.current_floor <= e.current_floor - g}
  \cup
  {f \in Highest(Below(e)) :
     \A g \in Above(e) : e.current_floor - f < g - e.current_floor}

TargetsNeverTurning(e) ==
  IF e.direction = DIR_UP THEN Lowest(Above(e))
  ELSE IF e.direction = DIR_DOWN THEN Highest(Below(e))
  ELSE Closest(e)

TargetsOwnFloorToo(e) == Requests(e)

\* The floor pick_next_target_flag picks, as a set: empty is PICK_NONE.  Ahead
\* first, behind when nothing is ahead, and never the car's own floor.
Targets(e) ==
  IF e.direction = DIR_UP
  THEN IF Above(e) # {} THEN Lowest(Above(e)) ELSE Highest(Below(e))
  ELSE IF e.direction = DIR_DOWN
  THEN IF Below(e) # {} THEN Highest(Below(e)) ELSE Lowest(Above(e))
  ELSE Closest(e)

NextTarget(e) == CHOOSE f \in Targets(e) : TRUE

PrepareFor(e, f) ==
  [e EXCEPT !.target_floor = f,
            !.direction    = Sign(f - e.current_floor),
            !.task_state   = "PREPARE"]

ParkAlways(e) == [e EXCEPT !.task_state = "IDLE", !.direction = DIR_NONE]

\* What follows a closed door: the next trip, or parking.
DepartOrPark(e) ==
  IF Targets(e) # {} THEN PrepareFor(e, NextTarget(e)) ELSE ParkAlways(e)

-----------------------------------------------------------------------------
(* The cases of Elevator_step *)

StepDoorOpening(e) ==
  [e EXCEPT !.task_state = "DOOR_OPEN", !.door_timer = DoorTicks]

StepDoorOpen(e) ==
  IF e.door_timer > 1
  THEN [e EXCEPT !.door_timer = @ - 1]
  ELSE DepartOrPark(ServeInside([e EXCEPT !.door_timer = 0]))

StepDoorClosing(e) == DepartOrPark(ServeInside(e))

\* One pass of the while loop of TASK_MOVING: a floor towards the target, and
\* the hall call of the floor left behind, in the direction of travel, is over.
MoveOneFloorForgetful(e) ==
  LET d == Sign(e.target_floor - e.current_floor)
  IN  [e EXCEPT !.current_floor = @ + d,
                !.call_up       = IF d = DIR_UP   THEN {} ELSE @,
                !.call_down     = IF d = DIR_DOWN THEN {} ELSE @]

MoveOneFloorClearsAhead(e) ==
  LET d == Sign(e.target_floor - e.current_floor)
  IN  [e EXCEPT !.current_floor = @ + d,
                !.call_up   = IF d = DIR_UP   THEN @ \ {e.current_floor + d} ELSE @,
                !.call_down = IF d = DIR_DOWN THEN @ \ {e.current_floor + d} ELSE @]

MoveOneFloor(e) ==
  LET d == Sign(e.target_floor - e.current_floor)
  IN  [e EXCEPT !.current_floor = @ + d,
                !.call_up   = IF d = DIR_UP   THEN @ \ {e.current_floor} ELSE @,
                !.call_down = IF d = DIR_DOWN THEN @ \ {e.current_floor} ELSE @]

AccumulateNoSubtract(e, due) == [e EXCEPT !.accum = IF @ < FloorTicks THEN @ + 1 ELSE @]

\* g_accum_time after a tick; a floor's worth of it is spent when a floor is due.
Accumulate(e, due) ==
  [e EXCEPT !.accum = IF due THEN @ + 1 - FloorTicks ELSE @ + 1]

StepMoving(e, due) ==
  LET m == IF due THEN MoveOneFloor(Accumulate(e, due)) ELSE Accumulate(e, due)
  IN  IF m.current_floor = m.target_floor
      THEN [m EXCEPT !.task_state = "ARRIVED"]
      ELSE m

StepPrepare(e, due) ==
  IF e.target_floor = e.current_floor
  THEN ServeInside([e EXCEPT !.task_state = "DOOR_OPENING"])
  ELSE StepMoving([e EXCEPT !.direction  = Sign(e.target_floor - e.current_floor),
                            !.task_state = "MOVING"], due)

StepArrived(e) ==
  ServeInside([e EXCEPT !.task_state = "DOOR_OPENING", !.door_timer = DoorTicks])

\* TASK_IDLE and default.
StepIdle(e) ==
  IF Targets(e) # {}
  THEN PrepareFor(e, NextTarget(e))
  ELSE [e EXCEPT !.task_state = "IDLE"]

\* Whether g_accum_time >= time_per_floor after this tick.  The doubles are
\* sums of 0.1, so a sum that is exactly one floor compares either way.
FloorDue(e) ==
  {due \in BOOLEAN : /\ due  => e.accum + 1 >= FloorTicks
                     /\ ~due => e.accum + 1 <= FloorTicks}

\* Elevator_step for one outcome of the comparison.
Elevator_step(e, due) ==
  CASE e.task_state = "DOOR_OPENING" -> StepDoorOpening(e)
    [] e.task_state = "DOOR_OPEN"    -> StepDoorOpen(e)
    [] e.task_state = "DOOR_CLOSING" -> StepDoorClosing(e)
    [] e.task_state = "PREPARE"      -> StepPrepare(e, due)
    [] e.task_state = "MOVING"       -> StepMoving(e, due)
    [] e.task_state = "ARRIVED"      -> StepArrived(e)
    [] OTHER                         -> StepIdle(e)

-----------------------------------------------------------------------------
(* What every car keeps to, whoever steps it and whoever presses its buttons *)

Travelling(e) == e.task_state \in {"PREPARE", "MOVING"}
AtStop(e)     == e.task_state \in {"ARRIVED", "DOOR_OPENING", "DOOR_OPEN"}
DoorOpen(e)   == e.task_state \in {"DOOR_OPENING", "DOOR_OPEN", "DOOR_CLOSING"}

\* A trip is towards another floor, where somebody is waiting.
Purposeful(e) ==
  Travelling(e) =>
    /\ e.target_floor \in Requests(e)
    /\ e.target_floor # e.current_floor
    /\ e.direction = Sign(e.target_floor - e.current_floor)

\* A stop is at the target of a trip, reached with its request still registered.
StoppedAtTarget(e) ==
  /\ AtStop(e) => e.current_floor = e.target_floor
  /\ e.task_state = "ARRIVED" => e.current_floor \in Requests(e)

\* No step is in these states: nothing assigns them.
StatesReached(e) == e.task_state \notin {"DOOR_CLOSING", "ERROR"}

\* A trip leaves at most one tick of its time to the next one.
LittleLeftOver(e) == ~Travelling(e) => e.accum <= 1

\* The parts together are inductive.
CarInv(e) ==
  /\ e \in ElevatorStruct
  /\ StatesReached(e)
  /\ Purposeful(e)
  /\ StoppedAtTarget(e)
  /\ LittleLeftOver(e)
=============================================================================
