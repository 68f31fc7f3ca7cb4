---------------------------- MODULE DispatchProofs ----------------------------
(***************************************************************************)
(* What the core loop and the scheduler keep of every car, for every       *)
(* number of cars, floors and pending requests and whatever is pushed.     *)
(***************************************************************************)
EXTENDS Dispatch, ElevatorStateProofs, FiniteSetTheorems

CarsInv == cars \in [Cars -> ElevatorStruct] /\ EveryCarSound

\* A request set by the event handler or by the scheduler.
LEMMA WithRequestIsSound ==
  ASSUME CarsInv, NEW i, NEW floor, NEW type, cars' = WithRequest(i, floor, type)
  PROVE  CarsInv'
<1>1. CASE i \in Cars
  <2> DEFINE c == elevator_add_request_flag(cars[i], floor, type)
  <2>1. CarInv(c)
    BY <1>1, PressIsSound DEF CarsInv, EveryCarSound
  <2>2. c \in ElevatorStruct
    BY <2>1 DEF CarInv
  <2>3. cars' = [cars EXCEPT ![i] = c]
    BY <1>1 DEF WithRequest
  <2> HIDE DEF c
  <2> QED
    BY <1>1, <2>1, <2>2, <2>3 DEF CarsInv, EveryCarSound
<1>2. CASE i \notin Cars
  BY <1>2 DEF WithRequest, CarsInv, EveryCarSound
<1> QED
  BY <1>1, <1>2

\* The cars start sound.
LEMMA CarsStartSound == Init => CarsInv
<1>1. CarInv(Elevator_init(1))
  BY ConstantsAssumption
  DEF Elevator_init, CarInv, StatesReached, Purposeful, StoppedAtTarget, LittleLeftOver,
      Travelling, AtStop, ElevatorStruct, TaskState, Floors
<1> QED
  BY <1>1 DEF Init, CarsInv, EveryCarSound, CarInv

\* Every action leaves the cars sound.
LEMMA CarsStaySound ==
  ASSUME CarsInv, [Next]_vars
  PROVE  CarsInv'
<1>1. CASE UNCHANGED cars
  BY <1>1 DEF CarsInv, EveryCarSound
<1>2. CASE HandleInsideCall
  BY <1>2, WithRequestIsSound DEF HandleInsideCall
<1>3. CASE HandleGuardCommand
  BY <1>1, <1>3, WithRequestIsSound DEF HandleGuardCommand
<1>4. CASE Assign
  BY <1>4, WithRequestIsSound DEF Assign
<1>5. CASE StepCars
  <2>1. PICK due \in [Cars -> BOOLEAN] :
          /\ \A i \in Cars : due[i] \in FloorDue(cars[i])
          /\ cars' = [i \in Cars |-> Elevator_step(cars[i], due[i])]
    BY <1>5 DEF StepCars
  <2>2. ASSUME NEW i \in Cars
        PROVE  CarInv(cars'[i]) /\ cars'[i] = Elevator_step(cars[i], due[i])
    BY <2>1, StepIsSound DEF CarsInv, EveryCarSound
  <2>3. cars' \in [Cars -> ElevatorStruct]
    BY <2>1, <2>2 DEF CarInv
  <2> QED
    BY <2>2, <2>3 DEF CarsInv, EveryCarSound
<1> QED
  BY <1>1, <1>2, <1>3, <1>4, <1>5
  DEF Next, core_thread_fn, vars, core, PushEvent, HandleOutsideCall, EventsDone,
      PutBack, ScheduleDone

\* Every car keeps the invariant of Elevator whatever the network thread, the
\* event handler and the scheduler do between two of its steps.
THEOREM EveryCarStaysSound == Spec => []EveryCarSound
<1>1. CarsInv /\ [Next]_vars => CarsInv'
  BY CarsStaySound
<1>2. CarsInv => EveryCarSound
  BY DEF CarsInv
<1> QED
  BY <1>1, <1>2, CarsStartSound, PTL DEF Spec

-----------------------------------------------------------------------------
(* Types *)

DispatchInv == CarsInv /\ TypeOK

\* A push onto the pending queue, full or not.
LEMMA PushKeepsPending ==
  ASSUME NEW q \in Seq(PendingRequest), Len(q) <= MAX_REQUESTS, NEW r \in PendingRequest
  PROVE  rq_push(q, r) \in Seq(PendingRequest) /\ Len(rq_push(q, r)) <= MAX_REQUESTS
  BY DispatchAssumption DEF rq_push, Queue!Pushed

\* The event handled is an event; a hall call's floor was checked before it was queued.
LEMMA HandledEvent ==
  ASSUME TypeOK, NEW type, TakeEvent(type)
  PROVE  /\ Head(events) \in Events /\ Head(events).type = type
         /\ type = "OUTSIDE_CALL" => CallOf(Head(events)) \in PendingRequest
         /\ events' \in Seq(Events)
<1>1. Head(events) \in Events /\ Head(events).type = type /\ events' \in Seq(Events)
  BY DEF TypeOK, TakeEvent
<1> QED
  BY <1>1, EventsAssumption DEF CallOf, PendingRequest

\* The call at the head of the pending queue, and the queue without it.
LEMMA PoppedCall ==
  ASSUME TypeOK, pending # <<>>
  PROVE  /\ Head(pending) \in PendingRequest
         /\ Tail(pending) \in Seq(PendingRequest) /\ Len(Tail(pending)) <= MAX_REQUESTS
  BY DispatchAssumption DEF TypeOK

\* The types of the queues, the phase and the counters after any action.
LEMMA TypesStayCorrect ==
  ASSUME DispatchInv, [Next]_vars
  PROVE  DispatchInv'
<1> USE DEF DispatchInv
<1>1. CarsInv'
  BY CarsStaySound
<1> SUFFICES TypeOK'
  BY <1>1
<1>2. cars' \in [Cars -> ElevatorStruct]
  BY <1>1 DEF CarsInv
<1>3. ASSUME NEW ev \in Events, PushEvent(ev)
      PROVE  TypeOK'
  <2>1. /\ events' = Append(events, ev) /\ pushed' = [pushed EXCEPT ![ev] = @ + 1]
        /\ UNCHANGED core
    BY <1>3, Zenon DEF PushEvent
  <2> QED
    BY <1>2, <2>1 DEF TypeOK, core
<1>4. CASE HandleOutsideCall
  BY <1>2, <1>4, HandledEvent, PushKeepsPending DEF TypeOK, HandleOutsideCall, TakeEvent
<1>5. CASE HandleInsideCall
  BY <1>2, <1>5, HandledEvent DEF TypeOK, HandleInsideCall, TakeEvent
<1>6. CASE HandleGuardCommand
  BY <1>2, <1>6, HandledEvent DEF TypeOK, HandleGuardCommand, TakeEvent
<1>7. CASE EventsDone
  BY <1>2, <1>7 DEF TypeOK, EventsDone
<1>8. CASE Assign
  BY <1>2, <1>8, PoppedCall, DispatchAssumption DEF TypeOK, Assign, Scheduling
<1>9. CASE PutBack
  BY <1>2, <1>9, PoppedCall, PushKeepsPending DEF TypeOK, PutBack
<1>10. CASE ScheduleDone
  BY <1>2, <1>10 DEF TypeOK, ScheduleDone
<1>11. CASE StepCars
  BY <1>2, <1>11, DispatchAssumption DEF TypeOK, StepCars
<1>12. CASE UNCHANGED vars
  BY <1>2, <1>12 DEF TypeOK, vars
<1> QED
  BY <1>3, <1>4, <1>5, <1>6, <1>7, <1>8, <1>9, <1>10, <1>11, <1>12 DEF Next, core_thread_fn

\* The initial state of every component has its type.
LEMMA TypesStartCorrect == Init => DispatchInv
<1> SUFFICES ASSUME Init
             PROVE  DispatchInv
  OBVIOUS
<1>1. CarsInv
  BY CarsStartSound
<1> QED
  BY <1>1, DispatchAssumption DEF Init, DispatchInv, CarsInv, TypeOK

\* Every component has its type in every state, whatever the dispatcher does with it.
THEOREM DispatchInvHolds == Spec => []DispatchInv
<1>1. DispatchInv /\ [Next]_vars => DispatchInv'
  BY TypesStayCorrect
<1> QED
  BY <1>1, TypesStartCorrect, PTL DEF Spec

\* The pending queue never outgrows its array and holds only calls for floors of
\* the shaft, however the event list and the scheduler's push-back fill it.
THEOREM DispatchTypeCorrect == Spec => []TypeOK
<1>1. DispatchInv => TypeOK
  BY DEF DispatchInv
<1> QED
  BY <1>1, DispatchInvHolds, PTL
-----------------------------------------------------------------------------
(* The choice of a car finds one whenever there is one to be had. *)

\* A function into the naturals has a least value: what a scan for the best car
\* that starts with a cost beyond all costs ends with.
LEMMA LeastExists ==
  ASSUME NEW S, S # {}, NEW f \in [S -> Nat]
  PROVE  \E x \in S : \A y \in S : f[x] <= f[y]
<1> DEFINE V == {f[x] : x \in S}
<1>1. V \in SUBSET Nat /\ V # {}
  OBVIOUS
<1>2. PICK v \in V : \A w \in V : v <= w
  BY <1>1, LowestExists DEF Lowest
<1>3. PICK x \in S : v = f[x]
  BY <1>2
<1> QED
  BY <1>2, <1>3

\* What the scans compare is a natural number.
LEMMA MeasuresAreNatural ==
  ASSUME NEW e \in ElevatorStruct, NEW floor \in Floors
  PROVE  /\ Distance(e, floor) \in Nat
         /\ FloorLoad(e) \in Nat
         /\ count_requests(e) \in Nat
         /\ estimate_cost(e, floor) \in Nat
<1>1. IsFiniteSet(Floors)
  BY FS_Interval, ConstantsAssumption DEF Floors
<1>2. /\ e.inside \in SUBSET Floors /\ e.call_up \in SUBSET Floors
      /\ e.call_down \in SUBSET Floors /\ Requests(e) \in SUBSET Floors
  BY DEF ElevatorStruct, Requests
<1>3. FloorLoad(e) \in Nat
  BY <1>1, <1>2, FS_Subset, FS_CardinalityType DEF FloorLoad
<1>4. count_requests(e) \in Nat
  <2>1. /\ Cardinality(e.inside) \in Nat /\ Cardinality(e.call_up) \in Nat
        /\ Cardinality(e.call_down) \in Nat
    BY <1>1, <1>2, FS_Subset, FS_CardinalityType
  <2> QED
    BY <2>1 DEF count_requests
<1>5. Distance(e, floor) \in Nat
  BY ConstantsAssumption DEF Distance, ElevatorStruct, Floors
<1>6. estimate_cost(e, floor) \in Nat
  <2> DEFINE d == Distance(e, floor)
             n == count_requests(e)
  <2>1. 2 * NumFloors * d \in Int
    BY <1>5, ConstantsAssumption
  <2> DEFINE a == 2 * NumFloors * d
             b == IF Ahead(e, floor) THEN 3 * NumFloors ELSE 0
             c == IF AtDoor(e) THEN 4 * NumFloors ELSE 0
  <2>2. b \in Int /\ c \in Int
    BY ConstantsAssumption
  <2>3. estimate_cost(e, floor) = IF a - b + c + 6 * n < 0 THEN 0 ELSE a - b + c + 6 * n
    BY DEF estimate_cost
  <2>4. a \in Int /\ n \in Nat
    BY <1>4, <2>1
  <2> HIDE DEF a, b, c, n
  <2> QED
    BY <2>2, <2>3, <2>4
<1> QED
  BY <1>3, <1>4, <1>5, <1>6

\* An idle car is found: the closest, least loaded, first one.
LEMMA IdleCarFound ==
  ASSUME CarsInv, Idle # {}, NEW floor \in Floors
  PROVE  NearestIdle(floor) # {}
<1> DEFINE D == [i \in Idle |-> Distance(cars[i], floor)]
           L == [i \in Idle |-> FloorLoad(cars[i])]
<1>1. /\ Idle \in SUBSET Cars /\ Cars \in SUBSET Nat
      /\ \A i \in Idle : D[i] \in Nat /\ L[i] \in Nat
  <2>1. \A i \in Idle : i \in Cars /\ cars[i] \in ElevatorStruct
    BY DEF Idle, CarsInv
  <2> QED
    BY <2>1, MeasuresAreNatural, DispatchAssumption DEF Cars
<1> DEFINE N == {i \in Idle : \A j \in Idle : D[i] <= D[j]}
           M == {i \in N : \A j \in N : L[i] <= L[j]}
<1> HIDE DEF D, L
<1>2. N # {}
  <2>1. D \in [Idle -> Nat]
    BY <1>1 DEF D
  <2> QED
    BY <2>1, LeastExists
<1>3. M # {}
  <2> DEFINE LN == [i \in N |-> L[i]]
  <2>1. LN \in [N -> Nat]
    BY <1>1
  <2>2. PICK x \in N : \A y \in N : LN[x] <= LN[y]
    BY <1>2, <2>1, LeastExists
  <2> QED
    BY <2>2
<1>4. PICK i \in M : \A j \in M : i <= j
  <2>1. M \in SUBSET Nat
    BY <1>1
  <2> QED
    BY <1>3, <2>1, LowestExists DEF Lowest
<1>5. ASSUME NEW j \in Idle \ {i}
      PROVE  \/ D[i] < D[j]
             \/ D[i] = D[j] /\ L[i] < L[j]
             \/ D[i] = D[j] /\ L[i] = L[j] /\ i < j
  <2>1. i \in Idle /\ i \in Nat /\ j \in Nat /\ D[i] <= D[j]
    BY <1>1, <1>4
  <2>2. CASE D[i] < D[j]
    BY <2>2
  <2>3. CASE D[i] = D[j]
    <3>1. j \in N
      BY <1>4, <2>3
    <3>2. L[i] <= L[j] /\ (L[i] = L[j] => j \in M)
      BY <1>4, <3>1
    <3> QED
      BY <1>1, <1>4, <2>1, <2>3, <3>2
  <2> QED
    BY <1>1, <2>1, <2>2, <2>3
<1>6. i \in Idle
  BY <1>4
<1>7. i \in NearestIdle(floor)
  BY <1>5, <1>6 DEF NearestIdle, D, L
<1> QED
  BY <1>7

\* With no car idle, one with room is found: of least cost, and of those the first.
LEMMA RoomyCarFound ==
  ASSUME CarsInv, HasRoom # {}, NEW floor \in Floors
  PROVE  Cheapest(floor) # {}
<1> DEFINE C == [i \in HasRoom |-> estimate_cost(cars[i], floor)]
<1>1. /\ HasRoom \in SUBSET Nat /\ C \in [HasRoom -> Nat]
  <2>1. \A i \in HasRoom : i \in Nat /\ cars[i] \in ElevatorStruct
    BY DispatchAssumption DEF HasRoom, CarsInv, Cars
  <2> QED
    BY <2>1, MeasuresAreNatural
<1> DEFINE N == {i \in HasRoom : \A j \in HasRoom : C[i] <= C[j]}
<1>2. N # {} /\ N \in SUBSET Nat
  BY <1>1, LeastExists
<1>3. PICK i \in N : \A j \in N : i <= j
  BY <1>2, LowestExists DEF Lowest
<1>4. \A j \in HasRoom : estimate_cost(cars[i], floor) <= estimate_cost(cars[j], floor)
  BY <1>3
<1>5. ASSUME NEW j \in HasRoom, j < i
      PROVE  Terms(cars[j], floor) # Terms(cars[i], floor)
  <2>1. SUFFICES ASSUME Terms(cars[j], floor) = Terms(cars[i], floor)
                 PROVE  FALSE
    OBVIOUS
  <2>2. estimate_cost(cars[j], floor) = estimate_cost(cars[i], floor)
    BY <2>1 DEF Terms, estimate_cost
  <2>3. j \in N
    BY <1>3, <2>2
  <2> QED
    BY <1>1, <1>3, <1>5, <2>3
<1>6. i \in Cheapest(floor)
  BY <1>3, <1>4, <1>5 DEF Cheapest
<1> QED
  BY <1>6

WaitInv == DispatchInv /\ CallsWaitOnlyWhenFull

\* A round of scheduling ends with calls left over only at its limit, or when every
\* car is busy and full: the search gives up for no other reason.
THEOREM CallsWaitOnlyForRoom == Spec => []CallsWaitOnlyWhenFull
<1>1. Init => WaitInv
  BY TypesStartCorrect DEF Init, WaitInv, CallsWaitOnlyWhenFull
<1>2. WaitInv /\ [Next]_vars => WaitInv'
  <2> SUFFICES ASSUME WaitInv, [Next]_vars
               PROVE  WaitInv'
    OBVIOUS
  <2>1. DispatchInv'
    BY TypesStayCorrect DEF WaitInv
  <2> SUFFICES CallsWaitOnlyWhenFull'
    BY <2>1 DEF WaitInv
  <2>2. CASE UNCHANGED <<cars, pending, phase, assigned>>
    BY <2>2 DEF WaitInv, CallsWaitOnlyWhenFull, Idle, HasRoom
  <2>3. CASE HandleOutsideCall \/ HandleInsideCall \/ HandleGuardCommand
    <3>1. phase' = "events"
      BY <2>3 DEF HandleOutsideCall, HandleInsideCall, HandleGuardCommand, TakeEvent
    <3> QED
      BY <3>1 DEF CallsWaitOnlyWhenFull
  <2>4. CASE EventsDone \/ Assign \/ StepCars
    <3>1. phase' # "step"
      BY <2>4 DEF EventsDone, Assign, Scheduling, StepCars
    <3> QED
      BY <3>1 DEF CallsWaitOnlyWhenFull
  <2>5. CASE PutBack
    <3>1. Best(Head(pending).floor) = {} /\ UNCHANGED cars /\ pending # <<>>
      BY <2>5 DEF PutBack
    <3>2. Head(pending).floor \in Floors
      BY <3>1, PoppedCall DEF WaitInv, DispatchInv, PendingRequest
    <3>3. Idle = {} /\ HasRoom = {}
      BY <3>1, <3>2, IdleCarFound, RoomyCarFound DEF Best, WaitInv, DispatchInv
    <3> QED
      BY <3>1, <3>3 DEF CallsWaitOnlyWhenFull, Idle, HasRoom
  <2>6. CASE ScheduleDone
    BY <2>6 DEF ScheduleDone, CallsWaitOnlyWhenFull
  <2> QED
    BY <2>2, <2>3, <2>4, <2>5, <2>6, Zenon DEF Next, core_thread_fn, vars, core, PushEvent
<1>3. WaitInv => CallsWaitOnlyWhenFull
  BY DEF WaitInv
<1> QED
  BY <1>1, <1>2, <1>3, PTL DEF Spec
-----------------------------------------------------------------------------
(* No request from nowhere *)

FewerRequests(c, d) ==
  d.inside \subseteq c.inside /\ d.call_up \subseteq c.call_up /\ d.call_down \subseteq c.call_down

\* A step of a car lights no button.
LEMMA StepAddsNoRequest ==
  ASSUME NEW c, CarInv(c), NEW due \in FloorDue(c)
  PROVE  FewerRequests(c, Elevator_step(c, due))
<1> DEFINE d == Elevator_step(c, due)
<1> USE DEF FewerRequests
<1>1. /\ c \in ElevatorStruct /\ due \in BOOLEAN
      /\ c.task_state \in {"IDLE", "PREPARE", "MOVING", "ARRIVED", "DOOR_OPENING", "DOOR_OPEN"}
  BY DEF CarInv, ElevatorStruct, TaskState, StatesReached, FloorDue
<1>2. CASE Travelling(c)
  BY <1>2, TravelMovesOneFloor DEF Stays, Climbs, Descends
<1>3. CASE c.task_state = "IDLE"
  BY <1>1, <1>3, DepartOrParkKeeps DEF Elevator_step
<1>4. CASE c.task_state \in {"ARRIVED", "DOOR_OPENING"}
  BY <1>1, <1>4 DEF Elevator_step, StepArrived, StepDoorOpening, ServeInside, ElevatorStruct
<1>5. CASE c.task_state = "DOOR_OPEN"
  <2>1. CASE c.door_timer > 1
    BY <1>1, <1>5, <2>1 DEF Elevator_step, StepDoorOpen, ElevatorStruct
  <2>2. CASE ~(c.door_timer > 1)
    <3> DEFINE a == [c EXCEPT !.door_timer = 0]
               b == ServeInside(a)
    <3>1. d = DepartOrPark(b)
      BY <1>5, <2>2 DEF Elevator_step, StepDoorOpen
    <3>2. a \in ElevatorStruct
      BY <1>1, ConstantsAssumption DEF ElevatorStruct
    <3>3. b \in ElevatorStruct
      BY <3>2, ServeInsideKeepsType
    <3>4. b.inside \subseteq c.inside /\ b.call_up = c.call_up /\ b.call_down = c.call_down
      BY <1>1 DEF ServeInside, ElevatorStruct
    <3> HIDE DEF b
    <3> QED
      BY <3>1, <3>3, <3>4, DepartOrParkKeeps
  <2> QED
    BY <2>1, <2>2
<1> QED
  BY <1>1, <1>2, <1>3, <1>4, <1>5 DEF Travelling

\* The clauses of NoPhantomRequests, and all three for car i, were its state c.
InsidePressed(i, f) ==
  \E ev \in Pushed : ev.type = "INSIDE_CALL" /\ ev.elevator_id = i /\ ev.dest_floor = f
HallPressed(f, direction) ==
  \E ev \in Pushed : ev.type = "OUTSIDE_CALL" /\ ev.floor = f /\ ev.direction = direction
GuardForced(i, f) ==
  \E ev \in Pushed : ev.type = "GUARD_COMMAND" /\ ev.force /\ ev.elevator_id = i /\ ev.floor = f

Genuine(i, c) ==
  /\ \A f \in c.inside    : InsidePressed(i, f)
  /\ \A f \in c.call_up   : HallPressed(f, DIR_UP) \/ GuardForced(i, f)
  /\ \A f \in c.call_down : HallPressed(f, DIR_DOWN)

\* What is on its way to a car was pressed, too.
GenuineCall(call) ==
  HallPressed(call.floor, IF call.type = "CALL_UP" THEN DIR_UP ELSE DIR_DOWN)

GenuineInv ==
  /\ DispatchInv
  /\ \A k \in DOMAIN events : events[k] \in Pushed
  /\ \A k \in DOMAIN pending : GenuineCall(pending[k])
  /\ \A i \in Cars : Genuine(i, cars[i])

\* A genuine request keeps a car genuine.
LEMMA PressIsGenuine ==
  ASSUME CarsInv, \A i \in Cars : Genuine(i, cars[i]),
         NEW i, NEW floor, NEW type, cars' = WithRequest(i, floor, type),
         type = "INSIDE" => InsidePressed(i, floor),
         type = "CALL_UP" => HallPressed(floor, DIR_UP) \/ GuardForced(i, floor),
         type = "CALL_DOWN" => HallPressed(floor, DIR_DOWN)
  PROVE  \A j \in Cars : Genuine(j, cars'[j])
<1> SUFFICES ASSUME NEW j \in Cars
             PROVE  Genuine(j, cars'[j])
  OBVIOUS
<1>1. cars \in [Cars -> ElevatorStruct] /\ Genuine(j, cars[j])
  BY DEF CarsInv
<1>2. CASE i = j
  <2>1. cars'[j] = elevator_add_request_flag(cars[j], floor, type)
    BY <1>1, <1>2 DEF WithRequest
  <2>2. \/ cars'[j] = cars[j]
        \/ /\ cars'[j].inside = IF type = "INSIDE" THEN cars[j].inside \cup {floor}
                                                  ELSE cars[j].inside
           /\ cars'[j].call_up = IF type = "CALL_UP" THEN cars[j].call_up \cup {floor}
                                                    ELSE cars[j].call_up
           /\ cars'[j].call_down = IF type = "CALL_DOWN" THEN cars[j].call_down \cup {floor}
                                                        ELSE cars[j].call_down
    BY <1>1, <2>1 DEF elevator_add_request_flag, AddRequestUnchecked, ElevatorStruct
  <2> QED
    BY <1>1, <1>2, <2>2 DEF Genuine
<1>3. CASE i # j
  <2>1. cars'[j] = cars[j]
    BY <1>1, <1>3 DEF WithRequest
  <2> QED
    BY <1>1, <2>1
<1> QED
  BY <1>2, <1>3

\* The event handled was pushed, and so were those left.
LEMMA HandledWasPushed ==
  ASSUME GenuineInv, NEW type, TakeEvent(type)
  PROVE  /\ Head(events) \in Pushed /\ Head(events).type = type
         /\ Pushed' = Pushed
         /\ \A k \in DOMAIN events' : events'[k] \in Pushed
<1>1. events \in Seq(Events) /\ events # <<>> /\ events' = Tail(events) /\ pushed' = pushed
  BY DEF GenuineInv, DispatchInv, TypeOK, TakeEvent
<1>2. \A k \in DOMAIN events : events[k] \in Pushed
  BY DEF GenuineInv
<1> QED
  BY <1>1, <1>2 DEF TakeEvent, Pushed

\* A queued hall call was pressed in its direction.
LEMMA HandledCallIsGenuine ==
  ASSUME GenuineInv, TakeEvent("OUTSIDE_CALL")
  PROVE  GenuineCall(CallOf(Head(events)))
<1>1. Head(events) \in Pushed /\ Head(events).type = "OUTSIDE_CALL" /\ Head(events) \in Events
  BY HandledWasPushed DEF Pushed
<1>2. Head(events).direction \in {DIR_UP, DIR_DOWN}
  BY <1>1, EventsAssumption
<1> QED
  BY <1>1, <1>2 DEF GenuineCall, HallPressed, CallOf, DIR_UP, DIR_DOWN

\* Pushes only add to what was pressed.
LEMMA PressesAccumulate ==
  ASSUME GenuineInv, NEW ev \in Events, PushEvent(ev)
  PROVE  GenuineInv'
<1>1. /\ events' = Append(events, ev) /\ pushed' = [pushed EXCEPT ![ev] = @ + 1]
      /\ UNCHANGED core
  BY Zenon DEF PushEvent
<1>2. pushed \in [Events -> Nat] /\ events \in Seq(Events) /\ cars' = cars /\ pending' = pending
  BY <1>1 DEF GenuineInv, DispatchInv, TypeOK, core
<1>3. Pushed \subseteq Pushed' /\ ev \in Pushed'
  BY <1>1, <1>2 DEF Pushed
<1>4. /\ \A i, f : InsidePressed(i, f) => InsidePressed(i, f)'
      /\ \A f, d : HallPressed(f, d) => HallPressed(f, d)'
      /\ \A i, f : GuardForced(i, f) => GuardForced(i, f)'
  BY <1>3 DEF InsidePressed, HallPressed, GuardForced
<1>5. \A i \in Cars : Genuine(i, cars[i])'
  BY <1>2, <1>4 DEF GenuineInv, Genuine
<1>6. \A k \in DOMAIN pending' : GenuineCall(pending[k])'
  BY <1>2, <1>4 DEF GenuineInv, GenuineCall
<1>7. \A k \in DOMAIN events' : events'[k] \in Pushed'
  BY <1>1, <1>2, <1>3 DEF GenuineInv
<1>8. DispatchInv'
  <2>1. [Next]_vars
    BY DEF Next
  <2> QED
    BY <2>1, TypesStayCorrect DEF GenuineInv
<1> QED
  BY <1>5, <1>6, <1>7, <1>8 DEF GenuineInv

\* While nothing is pushed, what was pressed is the same before and after a step.
LEMMA NothingPushed ==
  ASSUME DispatchInv', pushed' = pushed,
         \A k \in DOMAIN events' : events'[k] \in Pushed,
         \A k \in DOMAIN pending' : GenuineCall(pending'[k]),
         \A i \in Cars : Genuine(i, cars'[i])
  PROVE  GenuineInv'
<1>1. Pushed' = Pushed
  BY DEF Pushed
<1>2. \A k \in DOMAIN pending' : GenuineCall(pending[k])'
  BY <1>1 DEF GenuineCall, HallPressed
<1>3. \A i \in Cars : Genuine(i, cars[i])'
  BY <1>1 DEF Genuine, InsidePressed, HallPressed, GuardForced
<1> QED
  BY <1>1, <1>2, <1>3 DEF GenuineInv

\* A push onto the pending queue of a genuine call.
LEMMA PushKeepsGenuine ==
  ASSUME NEW q \in Seq(PendingRequest), \A k \in DOMAIN q : GenuineCall(q[k]),
         NEW r \in PendingRequest, GenuineCall(r)
  PROVE  \A k \in DOMAIN rq_push(q, r) : GenuineCall(rq_push(q, r)[k])
<1>1. CASE Len(q) < MAX_REQUESTS
  <2>1. rq_push(q, r) = Append(q, r)
    BY <1>1 DEF rq_push, Queue!Pushed
  <2>2. \A k \in DOMAIN Append(q, r) : Append(q, r)[k] = r \/ (k \in DOMAIN q /\ Append(q, r)[k] = q[k])
    OBVIOUS
  <2> QED
    BY <2>1, <2>2
<1>2. CASE ~(Len(q) < MAX_REQUESTS)
  BY <1>2 DEF rq_push, Queue!Pushed
<1> QED
  BY <1>1, <1>2

\* The call taken from the pending queue is genuine, and so are those left.
LEMMA PoppedIsGenuine ==
  ASSUME GenuineInv, pending # <<>>
  PROVE  /\ GenuineCall(Head(pending))
         /\ \A k \in DOMAIN Tail(pending) : GenuineCall(Tail(pending)[k])
<1>1. pending \in Seq(PendingRequest) /\ \A k \in DOMAIN pending : GenuineCall(pending[k])
  BY DEF GenuineInv, DispatchInv, TypeOK
<1>2. Head(pending) = pending[1] /\ 1 \in DOMAIN pending
  BY <1>1
<1>3. \A k \in DOMAIN Tail(pending) : k + 1 \in DOMAIN pending /\ Tail(pending)[k] = pending[k + 1]
  BY <1>1
<1> QED
  BY <1>1, <1>2, <1>3

\* Every action of the core loop passes on only what was pressed.
LEMMA CoreStaysGenuine ==
  ASSUME GenuineInv, core_thread_fn
  PROVE  GenuineInv'
<1>1. /\ CarsInv /\ TypeOK
      /\ \A k \in DOMAIN events : events[k] \in Pushed
      /\ \A k \in DOMAIN pending : GenuineCall(pending[k])
      /\ \A i \in Cars : Genuine(i, cars[i])
  BY DEF GenuineInv, DispatchInv
<1>2. DispatchInv'
  <2>1. [Next]_vars
    BY DEF Next
  <2> QED
    BY <2>1, TypesStayCorrect DEF GenuineInv
<1>3. CASE HandleOutsideCall
  <2>1. /\ TakeEvent("OUTSIDE_CALL") /\ cars' = cars
        /\ pending' = rq_push(pending, CallOf(Head(events)))
    BY <1>3 DEF HandleOutsideCall
  <2>2. pushed' = pushed /\ \A k \in DOMAIN events' : events'[k] \in Pushed
    BY <2>1, HandledWasPushed DEF TakeEvent
  <2>3. \A k \in DOMAIN pending' : GenuineCall(pending'[k])
    BY <1>1, <2>1, HandledEvent, HandledCallIsGenuine, PushKeepsGenuine DEF TypeOK
  <2> QED
    BY <1>1, <1>2, <2>1, <2>2, <2>3, NothingPushed
<1>4. CASE HandleInsideCall
  <2> DEFINE ev == Head(events)
  <2>1. /\ TakeEvent("INSIDE_CALL") /\ pending' = pending
        /\ cars' = WithRequest(ev.elevator_id, ev.dest_floor, "INSIDE")
    BY <1>4 DEF HandleInsideCall
  <2>2. pushed' = pushed /\ \A k \in DOMAIN events' : events'[k] \in Pushed
    BY <2>1, HandledWasPushed DEF TakeEvent
  <2>3. InsidePressed(ev.elevator_id, ev.dest_floor)
    BY <2>1, HandledWasPushed DEF InsidePressed
  <2>4. \A i \in Cars : Genuine(i, cars'[i])
    BY <1>1, <2>1, <2>3, PressIsGenuine
  <2> QED
    BY <1>1, <1>2, <2>1, <2>2, <2>4, NothingPushed
<1>5. CASE HandleGuardCommand
  <2> DEFINE ev == Head(events)
  <2>1. /\ TakeEvent("GUARD_COMMAND") /\ pending' = pending
        /\ cars' = IF ev.force THEN WithRequest(ev.elevator_id, ev.floor, "CALL_UP") ELSE cars
    BY <1>5 DEF HandleGuardCommand
  <2>2. pushed' = pushed /\ \A k \in DOMAIN events' : events'[k] \in Pushed
    BY <2>1, HandledWasPushed DEF TakeEvent
  <2>3. CASE ev.force
    <3>1. GuardForced(ev.elevator_id, ev.floor)
      BY <2>1, <2>3, HandledWasPushed DEF GuardForced
    <3>2. \A i \in Cars : Genuine(i, cars'[i])
      BY <1>1, <2>1, <2>3, <3>1, PressIsGenuine
    <3> QED
      BY <1>1, <1>2, <2>1, <2>2, <3>2, NothingPushed
  <2>4. CASE ~ev.force
    BY <1>1, <1>2, <2>1, <2>2, <2>4, NothingPushed
  <2> QED
    BY <2>3, <2>4
<1>6. CASE EventsDone \/ ScheduleDone
  <2>1. UNCHANGED <<cars, events, pending, pushed>>
    BY <1>6 DEF EventsDone, ScheduleDone
  <2> QED
    BY <1>1, <1>2, <2>1, NothingPushed
<1>7. CASE Assign
  <2> DEFINE preq == Head(pending)
  <2>1. PICK i \in Best(preq.floor) : cars' = WithRequest(i, preq.floor, preq.type)
    BY <1>7 DEF Assign
  <2>2. /\ pending # <<>> /\ pending' = Tail(pending) /\ events' = events /\ pushed' = pushed
    BY <1>7 DEF Assign
  <2>3. preq \in PendingRequest /\ GenuineCall(preq)
    BY <1>1, <2>2, PoppedCall, PoppedIsGenuine
  <2>4. /\ preq.type \in {"CALL_UP", "CALL_DOWN"}
        /\ preq.type = "CALL_UP" => HallPressed(preq.floor, DIR_UP)
        /\ preq.type = "CALL_DOWN" => HallPressed(preq.floor, DIR_DOWN)
    BY <2>3 DEF GenuineCall, PendingRequest
  <2>5. \A j \in Cars : Genuine(j, cars'[j])
    BY <1>1, <2>1, <2>4, PressIsGenuine
  <2>6. \A k \in DOMAIN pending' : GenuineCall(pending'[k])
    BY <2>2, PoppedIsGenuine
  <2> QED
    BY <1>1, <1>2, <2>2, <2>5, <2>6, NothingPushed
<1>8. CASE PutBack
  <2>1. /\ pending # <<>> /\ pending' = rq_push(Tail(pending), Head(pending))
        /\ UNCHANGED <<cars, events, pushed>>
    BY <1>8 DEF PutBack
  <2>2. \A k \in DOMAIN pending' : GenuineCall(pending'[k])
    BY <1>1, <2>1, PoppedCall, PoppedIsGenuine, PushKeepsGenuine
  <2> QED
    BY <1>1, <1>2, <2>1, <2>2, NothingPushed
<1>9. CASE StepCars
  <2>1. PICK due \in [Cars -> BOOLEAN] :
          /\ \A i \in Cars : due[i] \in FloorDue(cars[i])
          /\ cars' = [i \in Cars |-> Elevator_step(cars[i], due[i])]
    BY <1>9 DEF StepCars
  <2>2. UNCHANGED <<events, pending, pushed>>
    BY <1>9 DEF StepCars
  <2>3. ASSUME NEW i \in Cars
        PROVE  Genuine(i, cars'[i])
    <3>1. FewerRequests(cars[i], cars'[i])
      BY <1>1, <2>1, StepAddsNoRequest DEF CarsInv, EveryCarSound
    <3> QED
      BY <1>1, <3>1 DEF FewerRequests, Genuine
  <2> QED
    BY <1>1, <1>2, <2>2, <2>3, NothingPushed
<1> QED
  BY <1>3, <1>4, <1>5, <1>6, <1>7, <1>8, <1>9 DEF core_thread_fn

\* No car has a request nobody made: neither the event handler nor the scheduler
\* gives one to another car, floor or direction than it was made for.
THEOREM NoPhantomsEver == Spec => []NoPhantomRequests
<1>1. Init => GenuineInv
  <2> SUFFICES ASSUME Init
               PROVE  GenuineInv
    OBVIOUS
  <2>1. DispatchInv
    BY TypesStartCorrect
  <2>2. events = <<>> /\ pending = <<>> /\ \A i \in Cars : cars[i] = Elevator_init(1)
    BY DEF Init
  <2>3. \A i \in Cars : Genuine(i, cars[i])
    BY <2>2 DEF Genuine, Elevator_init
  <2> QED
    BY <2>1, <2>2, <2>3 DEF GenuineInv
<1>2. GenuineInv /\ [Next]_vars => GenuineInv'
  <2> SUFFICES ASSUME GenuineInv, [Next]_vars
               PROVE  GenuineInv'
    OBVIOUS
  <2>1. CASE Next
    BY <2>1, PressesAccumulate, CoreStaysGenuine DEF Next
  <2>2. CASE UNCHANGED vars
    <3>1. UNCHANGED <<cars, events, pending, pushed>> /\ DispatchInv'
      BY <2>2, TypesStayCorrect DEF vars, GenuineInv
    <3> QED
      BY <3>1, NothingPushed DEF GenuineInv
  <2> QED
    BY <2>1, <2>2
<1>3. GenuineInv => NoPhantomRequests
  BY DEF GenuineInv, Genuine, NoPhantomRequests, InsidePressed, HallPressed, GuardForced
<1> QED
  BY <1>1, <1>2, <1>3, PTL DEF Spec

-----------------------------------------------------------------------------
(* No call lost on its way *)

\* A step of a car takes back a hall call only by driving off from its floor.
LEMMA StepKeepsHallCalls ==
  ASSUME NEW c, CarInv(c), NEW due \in FloorDue(c), NEW call \in PendingRequest,
         Flagged(c, call), ~Flagged(Elevator_step(c, due), call)
  PROVE  /\ c.current_floor = call.floor
         /\ Elevator_step(c, due).current_floor # call.floor
<1> DEFINE d == Elevator_step(c, due)
<1>1. /\ c \in ElevatorStruct /\ c.current_floor \in Int
      /\ c.task_state \in {"IDLE", "PREPARE", "MOVING", "ARRIVED", "DOOR_OPENING", "DOOR_OPEN"}
  BY ConstantsAssumption DEF CarInv, ElevatorStruct, TaskState, StatesReached, Floors
<1>2. ~(d.call_up = c.call_up /\ d.call_down = c.call_down)
  BY DEF Flagged
<1>3. CASE Travelling(c)
  <2>1. Climbs(c, d) \/ Descends(c, d)
    BY <1>2, <1>3, TravelMovesOneFloor DEF Stays
  <2> HIDE DEF d
  <2>2. /\ d.current_floor \in {c.current_floor + 1, c.current_floor - 1}
        /\ c.call_up \subseteq d.call_up \cup {c.current_floor}
        /\ c.call_down \subseteq d.call_down \cup {c.current_floor}
    BY <2>1 DEF Climbs, Descends
  <2>3. call.floor = c.current_floor
    BY <2>2 DEF Flagged, d
  <2> QED
    BY <1>1, <2>2, <2>3 DEF d
<1>4. CASE c.task_state = "IDLE"
  BY <1>1, <1>2, <1>4, DepartOrParkKeeps DEF Elevator_step
<1>5. CASE c.task_state \in {"ARRIVED", "DOOR_OPENING"}
  BY <1>1, <1>2, <1>5 DEF Elevator_step, StepArrived, StepDoorOpening, ServeInside, ElevatorStruct
<1>6. CASE c.task_state = "DOOR_OPEN"
  <2>1. CASE c.door_timer > 1
    BY <1>1, <1>2, <1>6, <2>1 DEF Elevator_step, StepDoorOpen, ElevatorStruct
  <2>2. CASE ~(c.door_timer > 1)
    <3> DEFINE a == [c EXCEPT !.door_timer = 0]
               b == ServeInside(a)
    <3>1. d = DepartOrPark(b)
      BY <1>6, <2>2 DEF Elevator_step, StepDoorOpen
    <3>2. a \in ElevatorStruct
      BY <1>1, ConstantsAssumption DEF ElevatorStruct
    <3>3. b \in ElevatorStruct
      BY <3>2, ServeInsideKeepsType
    <3>4. b.call_up = c.call_up /\ b.call_down = c.call_down
      BY <1>1 DEF ServeInside, ElevatorStruct
    <3> HIDE DEF b
    <3> QED
      BY <1>2, <3>1, <3>3, <3>4, DepartOrParkKeeps
  <2> QED
    BY <2>1, <2>2
<1> QED
  BY <1>1, <1>3, <1>4, <1>5, <1>6 DEF Travelling

\* A request set in one car takes no hall call from any.
LEMMA PressKeepsHallCalls ==
  ASSUME CarsInv, NEW i, NEW floor, NEW type, cars' = WithRequest(i, floor, type),
         NEW j \in Cars, NEW call \in PendingRequest, Flagged(cars[j], call)
  PROVE  Flagged(cars'[j], call)
<1>1. cars[j] \in ElevatorStruct
  BY DEF CarsInv
<1>2. cars'[j] \in {cars[j], elevator_add_request_flag(cars[j], floor, type)}
  BY DEF WithRequest, CarsInv
<1>3. /\ cars[j].call_up \subseteq cars'[j].call_up
      /\ cars[j].call_down \subseteq cars'[j].call_down
  <2> DEFINE c == cars[j]
             d == AddRequestUnchecked(c, floor, type)
  <2>1. d.call_up \in {c.call_up, c.call_up \cup {floor}}
    BY <1>1 DEF AddRequestUnchecked, ElevatorStruct
  <2>2. d.call_down \in {c.call_down, c.call_down \cup {floor}}
    BY <1>1 DEF AddRequestUnchecked, ElevatorStruct
  <2>3. cars'[j] \in {c, d}
    BY <1>2 DEF elevator_add_request_flag
  <2> HIDE DEF d
  <2> QED
    BY <2>1, <2>2, <2>3
<1> QED
  BY <1>3 DEF Flagged

\* A hall call given to a car is set there.
LEMMA AssignedIsFlagged ==
  ASSUME CarsInv, NEW call \in PendingRequest, NEW i \in Cars,
         cars' = WithRequest(i, call.floor, call.type)
  PROVE  Flagged(cars'[i], call)
<1>1. cars[i] \in ElevatorStruct /\ call.floor \in Floors
  BY DEF CarsInv, PendingRequest
<1>2. cars'[i] = AddRequestUnchecked(cars[i], call.floor, call.type)
  BY <1>1 DEF WithRequest, CarsInv, elevator_add_request_flag
<1> QED
  BY <1>1, <1>2 DEF AddRequestUnchecked, Flagged, ElevatorStruct, PendingRequest

\* What is in a queue is in it after a push, and what is pushed with room is in it.
LEMMA PushKeeps ==
  ASSUME NEW q \in Seq(PendingRequest), NEW r \in PendingRequest, NEW call,
         \/ \E k \in DOMAIN q : q[k] = call
         \/ call = r /\ Len(q) < MAX_REQUESTS
  PROVE  \E k \in DOMAIN rq_push(q, r) : rq_push(q, r)[k] = call
<1>1. CASE Len(q) < MAX_REQUESTS
  <2>1. rq_push(q, r) = Append(q, r)
    BY <1>1 DEF rq_push, Queue!Pushed
  <2>2. /\ Append(q, r)[Len(q) + 1] = r /\ Len(q) + 1 \in DOMAIN Append(q, r)
        /\ \A k \in DOMAIN q : k \in DOMAIN Append(q, r) /\ Append(q, r)[k] = q[k]
    OBVIOUS
  <2> QED
    BY <2>1, <2>2
<1>2. CASE ~(Len(q) < MAX_REQUESTS)
  BY <1>2 DEF rq_push, Queue!Pushed
<1> QED
  BY <1>1, <1>2

\* What is in a queue is at its head or behind it.
LEMMA HeadOrTail ==
  ASSUME NEW S, NEW q \in Seq(S), NEW k \in DOMAIN q
  PROVE  \/ q[k] = Head(q)
         \/ \E m \in DOMAIN Tail(q) : Tail(q)[m] = q[k]
<1>1. CASE k = 1
  BY <1>1
<1>2. CASE k # 1
  <2>1. k - 1 \in DOMAIN Tail(q) /\ Tail(q)[k - 1] = q[k]
    BY <1>2
  <2> QED
    BY <2>1
<1> QED
  BY <1>1, <1>2

\* One step: a call that was on its way and is not any more.
Lost(call) == OnItsWay(call) /\ ~OnItsWay(call)'
LeftByCar(call) ==
  \E i \in Cars : /\ Flagged(cars[i], call)
                  /\ cars[i].current_floor = call.floor
                  /\ cars'[i].current_floor # call.floor
LostToFullQueue == Len(pending) = MAX_REQUESTS /\ phase = "events"

\* The three places after a step, where a call may be found again.
Queued(call)  == \E k \in DOMAIN events : events[k].type = "OUTSIDE_CALL" /\ CallOf(events[k]) = call
Waiting(call) == \E k \in DOMAIN pending : pending[k] = call
InACar(call)  == \E i \in Cars : Flagged(cars[i], call)

\* Taking an event leaves the others queued.
LEMMA OthersStayQueued ==
  ASSUME TypeOK, NEW type, TakeEvent(type), NEW call, Queued(call),
         type = "OUTSIDE_CALL" => CallOf(Head(events)) # call
  PROVE  Queued(call)'
<1>1. events \in Seq(Events) /\ events' = Tail(events) /\ Head(events).type = type
  BY DEF TypeOK, TakeEvent
<1>2. PICK k \in DOMAIN events : events[k].type = "OUTSIDE_CALL" /\ CallOf(events[k]) = call
  BY DEF Queued
<1>3. events[k] # Head(events)
  BY <1>1, <1>2
<1>4. PICK m \in DOMAIN Tail(events) : Tail(events)[m] = events[k]
  BY <1>1, <1>3, HeadOrTail
<1> QED
  BY <1>1, <1>2, <1>4 DEF Queued, CallOf

\* A request set by the event handler leaves every call where it is.
LEMMA PressLosesNothing ==
  ASSUME DispatchInv, NEW type, TakeEvent(type), type # "OUTSIDE_CALL",
         NEW i, NEW floor, NEW button,
         cars' = WithRequest(i, floor, button) \/ cars' = cars, pending' = pending,
         NEW call \in PendingRequest, OnItsWay(call)
  PROVE  OnItsWay(call)'
<1>1. CASE Queued(call)
  <2>1. Queued(call)'
    BY <1>1, OthersStayQueued DEF DispatchInv
  <2> QED
    BY <2>1 DEF Queued, OnItsWay
<1>2. CASE Waiting(call)
  BY <1>2 DEF Waiting, OnItsWay
<1>3. CASE InACar(call)
  <2>1. PICK j \in Cars : Flagged(cars[j], call)
    BY <1>3 DEF InACar
  <2>2. Flagged(cars'[j], call)
    BY <2>1, PressKeepsHallCalls DEF DispatchInv
  <2> QED
    BY <2>2 DEF OnItsWay, Flagged
<1> QED
  BY <1>1, <1>2, <1>3 DEF OnItsWay, Queued, Waiting, InACar

\* Every action keeps a call on its way, but for those the property names.
LEMMA CallsAreOnlyLeftOrDropped ==
  ASSUME DispatchInv, Next, NEW call \in PendingRequest, Lost(call)
  PROVE  LeftByCar(call) \/ LostToFullQueue
<1>1. /\ CarsInv /\ TypeOK
      /\ events \in Seq(Events) /\ pending \in Seq(PendingRequest) /\ Len(pending) <= MAX_REQUESTS
      /\ Queued(call) \/ Waiting(call) \/ InACar(call)
      /\ ~Queued(call)' /\ ~Waiting(call)' /\ ~InACar(call)'
  BY DEF DispatchInv, TypeOK, Lost, OnItsWay, Queued, Waiting, InACar
<1>2. cars' = cars => ~InACar(call)
  BY <1>1 DEF InACar
<1>3. pending' = pending => ~Waiting(call)
  BY <1>1 DEF Waiting
<1>4. events' = events => ~Queued(call)
  BY <1>1 DEF Queued, CallOf
<1>5. ASSUME NEW ev \in Events, PushEvent(ev)
      PROVE  FALSE
  <2>1. events' = Append(events, ev) /\ UNCHANGED core
    BY <1>5, Zenon DEF PushEvent
  <2>2. \A k \in DOMAIN events : k \in DOMAIN events' /\ events'[k] = events[k]
    BY <1>1, <2>1
  <2>3. Queued(call) => Queued(call)'
    BY <2>2 DEF Queued, CallOf
  <2> QED
    BY <1>1, <1>2, <1>3, <2>1, <2>3 DEF core
<1>6. CASE HandleOutsideCall
  <2> DEFINE r == CallOf(Head(events))
  <2>1. /\ TakeEvent("OUTSIDE_CALL") /\ cars' = cars /\ pending' = rq_push(pending, r)
        /\ r \in PendingRequest
    BY <1>1, <1>6, HandledEvent DEF HandleOutsideCall
  <2>2. ~Waiting(call)
    <3>1. Waiting(call) => \E k \in DOMAIN rq_push(pending, r) : rq_push(pending, r)[k] = call
      BY <1>1, <2>1, PushKeeps DEF Waiting
    <3> QED
      BY <1>1, <2>1, <3>1 DEF Waiting
  <2>3. r = call
    BY <1>1, <1>2, <2>1, <2>2, OthersStayQueued
  <2>4. ~(Len(pending) < MAX_REQUESTS)
    <3>1. Len(pending) < MAX_REQUESTS
            => \E k \in DOMAIN rq_push(pending, r) : rq_push(pending, r)[k] = call
      BY <1>1, <2>1, <2>3, PushKeeps
    <3> QED
      BY <1>1, <2>1, <3>1 DEF Waiting
  <2>5. Len(pending) = MAX_REQUESTS
    BY <1>1, <2>4, DispatchAssumption
  <2> QED
    BY <2>1, <2>5 DEF LostToFullQueue, TakeEvent
<1>7. CASE HandleInsideCall
  <2>1. /\ TakeEvent("INSIDE_CALL") /\ pending' = pending
        /\ cars' = WithRequest(Head(events).elevator_id, Head(events).dest_floor, "INSIDE")
    BY <1>7 DEF HandleInsideCall
  <2> QED
    BY <2>1, PressLosesNothing DEF Lost
<1>8. CASE HandleGuardCommand
  <2>1. /\ TakeEvent("GUARD_COMMAND") /\ pending' = pending
        /\ \/ cars' = WithRequest(Head(events).elevator_id, Head(events).floor, "CALL_UP")
           \/ cars' = cars
    BY <1>8 DEF HandleGuardCommand
  <2> QED
    BY <2>1, PressLosesNothing DEF Lost
<1>9. CASE EventsDone \/ ScheduleDone
  <2>1. UNCHANGED <<cars, events, pending>>
    BY <1>9 DEF EventsDone, ScheduleDone
  <2> QED
    BY <1>1, <1>2, <1>3, <1>4, <2>1
<1>10. CASE Assign
  <2> DEFINE preq == Head(pending)
  <2>1. PICK i \in Best(preq.floor) : cars' = WithRequest(i, preq.floor, preq.type)
    BY <1>10 DEF Assign
  <2>2. /\ pending # <<>> /\ pending' = Tail(pending) /\ events' = events
        /\ i \in Cars /\ preq \in PendingRequest
    BY <1>1, <1>10, PoppedCall DEF Assign, Best, NearestIdle, Cheapest, Idle, HasRoom
  <2>3. ~InACar(call)
    <3>1. ASSUME NEW j \in Cars, Flagged(cars[j], call)
          PROVE  Flagged(cars'[j], call)
      BY <1>1, <2>1, <3>1, PressKeepsHallCalls
    <3> QED
      BY <1>1, <3>1 DEF InACar, Flagged
  <2>4. PICK k \in DOMAIN pending : pending[k] = call
    BY <1>1, <1>4, <2>2, <2>3 DEF Waiting
  <2>5. preq = call
    <3>1. ~\E m \in DOMAIN Tail(pending) : Tail(pending)[m] = call
      BY <1>1, <2>2 DEF Waiting
    <3> QED
      BY <1>1, <2>4, <3>1, HeadOrTail
  <2>6. Flagged(cars'[i], call)
    BY <1>1, <2>1, <2>2, <2>5, AssignedIsFlagged
  <2> QED
    BY <1>1, <2>2, <2>6 DEF InACar, Flagged
<1>11. CASE PutBack
  <2>1. /\ pending # <<>> /\ pending' = rq_push(Tail(pending), Head(pending))
        /\ UNCHANGED <<cars, events>>
    BY <1>11 DEF PutBack
  <2>2. PICK k \in DOMAIN pending : pending[k] = call
    BY <1>1, <1>2, <1>4, <2>1 DEF Waiting
  <2>3. /\ call = Head(pending) \/ \E m \in DOMAIN Tail(pending) : Tail(pending)[m] = call
        /\ Tail(pending) \in Seq(PendingRequest) /\ Head(pending) \in PendingRequest
        /\ Len(Tail(pending)) < MAX_REQUESTS
    BY <1>1, <2>1, <2>2, HeadOrTail, DispatchAssumption
  <2>4. \E m \in DOMAIN pending' : pending'[m] = call
    BY <2>1, <2>3, PushKeeps
  <2> QED
    BY <1>1, <2>4 DEF Waiting
<1>12. CASE StepCars
  <2>1. PICK due \in [Cars -> BOOLEAN] :
          /\ \A i \in Cars : due[i] \in FloorDue(cars[i])
          /\ cars' = [i \in Cars |-> Elevator_step(cars[i], due[i])]
    BY <1>12 DEF StepCars
  <2>2. UNCHANGED <<events, pending>>
    BY <1>12 DEF StepCars
  <2>3. PICK i \in Cars : Flagged(cars[i], call)
    BY <1>1, <1>3, <1>4, <2>2 DEF InACar
  <2>4. ~Flagged(cars'[i], call)
    BY <1>1 DEF InACar, Flagged
  <2>5. cars[i].current_floor = call.floor /\ cars'[i].current_floor # call.floor
    BY <1>1, <2>1, <2>3, <2>4, StepKeepsHallCalls DEF CarsInv, EveryCarSound
  <2> QED
    BY <2>3, <2>5 DEF LeftByCar
<1> QED
  BY <1>5, <1>6, <1>7, <1>8, <1>9, <1>10, <1>11, <1>12 DEF Next, core_thread_fn

\* A hall call is handed from the event list to the pending queue and from there to
\* a car without a gap: it ends when a car that has it leaves its floor, or because
\* the pending queue was full when its event was handled.
THEOREM CallsOnlyEndInACar == Spec => CallsEndInACar
<1> DEFINE A == \A call \in PendingRequest :
                  OnItsWay(call) /\ ~OnItsWay(call)' =>
                    \/ \E i \in Cars : /\ Flagged(cars[i], call)
                                       /\ cars[i].current_floor = call.floor
                                       /\ cars'[i].current_floor # call.floor
                    \/ Len(pending) = MAX_REQUESTS /\ phase = "events"
<1>1. DispatchInv /\ [Next]_vars => [A]_vars
  BY CallsAreOnlyLeftOrDropped DEF Lost, LeftByCar, LostToFullQueue
<1> QED
  BY <1>1, DispatchInvHolds, PTL DEF Spec, CallsEndInACar

=============================================================================
