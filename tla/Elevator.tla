------------------------------- MODULE Elevator -------------------------------
(***************************************************************************)
(* One car: the core loop steps it every tick, and between two steps the   *)
(* event handler and the scheduler of the same thread set request flags.   *)
(***************************************************************************)
EXTENDS ElevatorState

VARIABLE e   \* one entry of g_elevators

\* server_core_init puts every car on floor 1.
Init == e = Elevator_init(1)

\* A request reaches the car: from Elevator_push_inside_request (any number the
\* network sent), from the scheduler or from a guard command.
Press(floor, type) == e' = elevator_add_request_flag(e, floor, type)

\* The core loop's Elevator_step(e, dt).
Tick == \E due \in FloorDue(e) : e' = Elevator_step(e, due)

Next ==
  \/ \E floor \in -1 .. NumFloors, type \in RequestType : Press(floor, type)
  \/ Tick

Spec == Init /\ [][Next]_e

\* The core thread runs its loop for as long as the server runs; passengers may
\* stop pressing buttons.
FairSpec == Spec /\ WF_e(Tick)

-----------------------------------------------------------------------------
(* Properties *)

\* Every field of the struct keeps to its range: no step leaves the shaft or
\* writes outside the flag arrays.
TypeOK == e \in ElevatorStruct

\* A car on its way always has somebody waiting at its target, which is not the
\* floor it is on, and it is headed there: no flag the code clears on the way
\* (call_up, call_down of the floors it leaves) is the one the trip is for.
TripHasPurpose == Purposeful(e)

\* The door only works at the floor the trip was for, and it is reached with
\* the request that caused the trip still registered (ARRIVED is decided from
\* the floor count alone).
StopsAtTarget == StoppedAtTarget(e)

\* g_accum_time is never reset between trips, so what a trip leaves over starts
\* the next one: at most one tick, so no floor is passed early by more than that.
LittleTimeLeftOver == LittleLeftOver(e)

\* The car stops working only when nobody is waiting anywhere but on its own
\* floor: a pick that finds nothing has looked both ways.
ParksOnlyWhenDone ==
  [][e.task_state # "IDLE" /\ e'.task_state = "IDLE"
       => Requests(e') \subseteq {e'.current_floor}]_e

\* The car keeps the promise of ElevatorService.
Service ==
  INSTANCE ElevatorService WITH
    floor  <- e.current_floor,
    open   <- DoorOpen(e),
    up     <- e.call_up,
    down   <- e.call_down,
    inside <- e.inside

ServiceSpec == Service!Spec

Parked(f) == e.task_state = "IDLE" /\ e.current_floor = f

\* A floor a passenger of the car asked for is reached and its request cleared,
\* whatever calls keep coming, unless the car is parked on that very floor.
InsideServed ==
  \A f \in Floors : f \in e.inside ~> (f \notin e.inside \/ Parked(f))

\* A hall call is answered by an open door at its floor, or cleared, unless the
\* car is parked there: a stream of other calls cannot starve it.
HallAnswered ==
  \A f \in Floors :
    f \in e.call_up \cup e.call_down
      ~> \/ f \notin e.call_up \cup e.call_down
         \/ DoorOpen(e) /\ e.current_floor = f
         \/ Parked(f)

\* The comment of TASK_PREPARE that a request for the very floor the car is on
\* opens the door at once: a car parked where somebody calls opens its door.
SameFloorCallOpensDoor ==
  \A f \in Floors : Parked(f) /\ f \in Requests(e) ~> DoorOpen(e) /\ e.current_floor = f
=============================================================================
