------------------------------- MODULE Dispatch -------------------------------
(***************************************************************************)
(* The core loop of src/core/server_core.c with the scheduler of           *)
(* src/core/scheduler.c over all cars: events from the network thread,     *)
(* the pending queue, the assignment of hall calls and the steps of the    *)
(* cars.  One iteration of the loop is a run of Handle... actions, a run   *)
(* of Assign and one StepCars; the network thread pushes between any two.  *)
(***************************************************************************)
EXTENDS ElevatorState, Sequences, Functions

CONSTANTS
  NumElevators,         \* g_elevator_count (2 in the build)
  MAX_REQUESTS,         \* of the pending queue and of a busy car (256)
  MAX_ASSIGN_PER_TICK,  \* 8 in the build
  Events,               \* the events the network thread may push
  MaxEvents             \* bound on how many it pushes in all

Cars == 0 .. NumElevators - 1

ASSUME DispatchAssumption ==
  /\ NumElevators \in Nat \ {0}
  /\ MAX_REQUESTS \in Nat \ {0}
  /\ MAX_ASSIGN_PER_TICK \in Nat \ {0}
  /\ MaxEvents \in Nat

\* The network thread refuses a hall call for a floor outside the shaft or without a
\* direction (CALL_BAD) before it queues the event; of the other events it does not.
ASSUME EventsAssumption ==
  \A ev \in Events :
    ev.type = "OUTSIDE_CALL" => ev.floor \in Floors /\ ev.direction \in {DIR_UP, DIR_DOWN}

VARIABLES
  cars,      \* g_elevators
  events,    \* the queue of server_events, oldest first
  pending,   \* g_pending_requests, oldest first
  phase,     \* where the loop is: "events", "schedule" or "step"
  assigned,  \* iterations of Scheduler_Process in this round
  pushed     \* the events pushed so far, a history the bound counts

core == <<cars, pending, phase, assigned>>
vars == <<cars, events, pending, phase, assigned, pushed>>

PendingRequest == [floor : Floors, type : {"CALL_UP", "CALL_DOWN"}]

Queue ==
  INSTANCE BoundedQueue WITH
    Request <- PendingRequest, queue <- pending, answer <- "ok"

rq_push(q, preq) == Queue!Pushed(q, preq)

Init ==
  /\ cars = [i \in Cars |-> Elevator_init(1)]
  /\ events = <<>> /\ pending = <<>>
  /\ phase = "events" /\ assigned = 0
  /\ pushed = [ev \in Events |-> 0]

-----------------------------------------------------------------------------
(* The network thread *)

\* server_events_push_outside, _inside or _guard: the client is told OK as soon
\* as the event is queued.
PushEvent(ev) ==
  /\ FoldFunction(+, 0, pushed) < MaxEvents
  /\ events' = Append(events, ev)
  /\ pushed' = [pushed EXCEPT ![ev] = @ + 1]
  /\ UNCHANGED core

-----------------------------------------------------------------------------
(* process_incoming_events_once *)

TakeEvent(type) ==
  /\ phase = "events" /\ events # <<>> /\ Head(events).type = type
  /\ events' = Tail(events)
  /\ UNCHANGED <<phase, assigned, pushed>>

CallOf(ev) ==
  [floor |-> ev.floor, type |-> IF ev.direction = DIR_UP THEN "CALL_UP" ELSE "CALL_DOWN"]

\* EVT_OUTSIDE_CALL; what rq_push returns is not looked at.
HandleOutsideCall ==
  /\ TakeEvent("OUTSIDE_CALL")
  /\ pending' = rq_push(pending, CallOf(Head(events)))
  /\ UNCHANGED cars

WithRequest(i, floor, type) ==
  IF i \in Cars
  THEN [cars EXCEPT ![i] = elevator_add_request_flag(@, floor, type)]
  ELSE cars

HandleInsideCallInFirstCar ==
  /\ TakeEvent("INSIDE_CALL")
  /\ LET ev == Head(events)
     IN  cars' = WithRequest(0, ev.dest_floor, "INSIDE")
  /\ UNCHANGED pending

\* EVT_INSIDE_CALL; an elevator or a floor that does not exist is dropped.
HandleInsideCall ==
  /\ TakeEvent("INSIDE_CALL")
  /\ LET ev == Head(events)
     IN  cars' = WithRequest(ev.elevator_id, ev.dest_floor, "INSIDE")
  /\ UNCHANGED pending

\* EVT_GUARD_COMMAND: only a forced one does something, always an up call.
HandleGuardCommand ==
  /\ TakeEvent("GUARD_COMMAND")
  /\ LET ev == Head(events)
     IN  cars' = IF ev.force THEN WithRequest(ev.elevator_id, ev.floor, "CALL_UP") ELSE cars
  /\ UNCHANGED pending

EventsDone ==
  /\ phase = "events" /\ events = <<>>
  /\ phase' = "schedule"
  /\ UNCHANGED <<cars, events, pending, assigned, pushed>>

-----------------------------------------------------------------------------
(* Scheduler_Process *)

Distance(e, floor) == IF e.current_floor > floor THEN e.current_floor - floor
                                                 ELSE floor - e.current_floor

\* Flags set in a car, counted per button and per floor.
count_requests(e) == Cardinality(e.inside) + Cardinality(e.call_up) + Cardinality(e.call_down)
FloorLoad(e) == Cardinality(Requests(e))

Idle == {i \in Cars : cars[i].task_state = "IDLE"}

\* Closest, then the one with fewer floors to visit, then the lower number.
NearestIdle(floor) ==
  {i \in Idle : \A j \in Idle \ {i} :
     LET di == Distance(cars[i], floor)
         dj == Distance(cars[j], floor)
     IN  \/ di < dj
         \/ di = dj /\ FloorLoad(cars[i]) < FloorLoad(cars[j])
         \/ di = dj /\ FloorLoad(cars[i]) = FloorLoad(cars[j]) /\ i < j}

\* The terms of estimate_cost for a car that is not idle.
Ahead(e, floor) == e.direction # DIR_NONE /\ Sign(floor - e.current_floor) = e.direction
AtDoor(e) == e.direction # DIR_NONE /\ e.task_state \in {"DOOR_OPEN", "DOOR_OPENING"}
Terms(e, floor) == <<Distance(e, floor), Ahead(e, floor), AtDoor(e), count_requests(e)>>

\* estimate_cost in units of 1 / (2 * MAX_FLOORS): distance, less 1.5 if the
\* floor is ahead, plus 2 at an open door, plus 3 per full set of floors.
estimate_cost(e, floor) ==
  LET cost == 2 * NumFloors * Distance(e, floor)
              - (IF Ahead(e, floor) THEN 3 * NumFloors ELSE 0)
              + (IF AtDoor(e) THEN 4 * NumFloors ELSE 0)
              + 6 * count_requests(e)
  IN  IF cost < 0 THEN 0 ELSE cost

HasRoom == {i \in Cars : count_requests(cars[i]) < MAX_REQUESTS}

\* A car of least cost.  Equal sums of different terms may differ by a rounding
\* of the doubles either way; of cars with the same terms the first is taken.
Cheapest(floor) ==
  {i \in HasRoom :
     /\ \A j \in HasRoom : estimate_cost(cars[i], floor) <= estimate_cost(cars[j], floor)
     /\ \A j \in HasRoom : j < i => Terms(cars[j], floor) # Terms(cars[i], floor)}

BestOfIdle(floor) == IF Idle # {} THEN NearestIdle(floor) ELSE {}

\* best_idx of try_assign_one; empty is -1.
Best(floor) == IF Idle # {} THEN NearestIdle(floor) ELSE Cheapest(floor)

Scheduling == phase = "schedule" /\ assigned < MAX_ASSIGN_PER_TICK

\* try_assign_one with a car found.
Assign ==
  /\ Scheduling /\ pending # <<>>
  /\ LET preq == Head(pending)
     IN  \E i \in Best(preq.floor) : cars' = WithRequest(i, preq.floor, preq.type)
  /\ pending' = Tail(pending)
  /\ assigned' = assigned + 1
  /\ UNCHANGED <<events, phase, pushed>>

PutBackForgetting ==
  /\ Scheduling /\ pending # <<>>
  /\ Best(Head(pending).floor) = {}
  /\ pending' = Tail(pending)
  /\ phase' = "step"
  /\ UNCHANGED <<cars, events, assigned, pushed>>

\* try_assign_one with none: the call goes to the back and the round is over.
PutBack ==
  /\ Scheduling /\ pending # <<>>
  /\ Best(Head(pending).floor) = {}
  /\ pending' = rq_push(Tail(pending), Head(pending))
  /\ phase' = "step"
  /\ UNCHANGED <<cars, events, assigned, pushed>>

ScheduleDone ==
  /\ phase = "schedule"
  /\ pending = <<>> \/ assigned = MAX_ASSIGN_PER_TICK
  /\ phase' = "step"
  /\ UNCHANGED <<cars, events, pending, assigned, pushed>>

-----------------------------------------------------------------------------
(* The steps of the cars; the loop then sleeps until the next round. *)

StepCars ==
  /\ phase = "step"
  /\ \E due \in [Cars -> BOOLEAN] :
       /\ \A i \in Cars : due[i] \in FloorDue(cars[i])
       /\ cars' = [i \in Cars |-> Elevator_step(cars[i], due[i])]
  /\ phase' = "events" /\ assigned' = 0
  /\ UNCHANGED <<events, pending, pushed>>

core_thread_fn ==
  \/ HandleOutsideCall \/ HandleInsideCall \/ HandleGuardCommand \/ EventsDone
  \/ Assign \/ PutBack \/ ScheduleDone
  \/ StepCars

Next == (\E ev \in Events : PushEvent(ev)) \/ core_thread_fn

Spec == Init /\ [][Next]_vars

\* The core thread keeps running its loop.
FairSpec == Spec /\ WF_vars(core_thread_fn)

-----------------------------------------------------------------------------
(* Properties *)

TypeOK ==
  /\ cars \in [Cars -> ElevatorStruct]
  /\ events \in Seq(Events)
  /\ pending \in Seq(PendingRequest) /\ Len(pending) <= MAX_REQUESTS
  /\ phase \in {"events", "schedule", "step"}
  /\ assigned \in 0 .. MAX_ASSIGN_PER_TICK
  /\ pushed \in [Events -> Nat]

\* What Elevator keeps for one car holds for every car, with the requests the
\* scheduler and the event handler set between two steps.
EveryCarSound == \A i \in Cars : CarInv(cars[i])

Pushed == {ev \in Events : pushed[ev] > 0}

\* Every button lit in a car was pressed, for that floor, that direction and,
\* inside, for that car.
NoPhantomRequests ==
  \A i \in Cars :
    /\ \A f \in cars[i].inside :
         \E ev \in Pushed : /\ ev.type = "INSIDE_CALL"
                            /\ ev.elevator_id = i /\ ev.dest_floor = f
    /\ \A f \in cars[i].call_up :
         \/ \E ev \in Pushed : /\ ev.type = "OUTSIDE_CALL"
                               /\ ev.floor = f /\ ev.direction = DIR_UP
         \/ \E ev \in Pushed : /\ ev.type = "GUARD_COMMAND" /\ ev.force
                               /\ ev.elevator_id = i /\ ev.floor = f
    /\ \A f \in cars[i].call_down :
         \E ev \in Pushed : /\ ev.type = "OUTSIDE_CALL"
                            /\ ev.floor = f /\ ev.direction = DIR_DOWN

\* A hall call is on its way while an event, a queued request or a car has it.
Flagged(e, call) == call.floor \in IF call.type = "CALL_UP" THEN e.call_up ELSE e.call_down
OnItsWay(call) ==
  \/ \E k \in DOMAIN events : events[k].type = "OUTSIDE_CALL" /\ CallOf(events[k]) = call
  \/ \E k \in DOMAIN pending : pending[k] = call
  \/ \E i \in Cars : Flagged(cars[i], call)

\* A call ends only when a car that has it leaves its floor; between the three
\* places that hold it it is lost only to a full pending queue.
CallsEndInACar ==
  [][\A call \in PendingRequest :
       OnItsWay(call) /\ ~OnItsWay(call)' =>
         \/ \E i \in Cars : /\ Flagged(cars[i], call)
                            /\ cars[i].current_floor = call.floor
                            /\ cars'[i].current_floor # call.floor
         \/ Len(pending) = MAX_REQUESTS /\ phase = "events"]_vars

\* The server tells a client CALL_REJECT queue_full when a call cannot be queued,
\* so a call it answered with CALL_OK is not lost to a full queue.
AcceptedCallsKept ==
  [][\A call \in PendingRequest :
       OnItsWay(call) /\ ~OnItsWay(call)' =>
         \E i \in Cars : Flagged(cars[i], call) /\ cars'[i] # cars[i]]_vars

\* When a round of scheduling leaves calls waiting, it assigned as many as it
\* may, or every car is busy and has no room.
CallsWaitOnlyWhenFull ==
  phase = "step" /\ pending # <<>> =>
    \/ assigned = MAX_ASSIGN_PER_TICK
    \/ Idle = {} /\ HasRoom = {}

\* A call in the pending queue gets a car, however busy the cars are.
PendingCallsAssigned ==
  \A call \in PendingRequest :
    (\E k \in DOMAIN pending : pending[k] = call)
      ~> \E i \in Cars : Flagged(cars[i], call)

\* A hall call the server accepted is reached in the end: a car opens its door
\* at the floor, leaves the floor having cleared the call, or is parked there;
\* or the call was lost to a full queue.
AcceptedCallsReached ==
  \A call \in PendingRequest :
    OnItsWay(call)
      ~> \/ ~OnItsWay(call)
         \/ \E i \in Cars : /\ cars[i].current_floor = call.floor
                            /\ DoorOpen(cars[i]) \/ cars[i].task_state = "IDLE"

\* The comment of TASK_ARRIVED that a car at its target opens the door and removes
\* the request: a floor a car arrives at again and again is, in between, a floor
\* nobody waits on in that car's flags.
ArrivalRemovesRequests ==
  \A i \in Cars, f \in Floors :
    []<>(cars[i].task_state = "ARRIVED" /\ cars[i].current_floor = f)
      => []<>(f \notin Requests(cars[i]))
=============================================================================
