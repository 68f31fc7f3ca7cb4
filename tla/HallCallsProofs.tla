---------------------------- MODULE HallCallsProofs ----------------------------
(***************************************************************************)
(* A hall call the car knew of when it set out keeps its flag until a door *)
(* opened at its floor: for any shaft, whatever is pressed meanwhile, and  *)
(* whichever calls are watched.                                            *)
(***************************************************************************)
EXTENDS HallCalls, ElevatorStateProofs

\* What a car may still drive off from on its trip: the floors from where it is up
\* to, or down to, but not including its target.
OnTheWay(c, f) ==
  \/ c.current_floor <= f /\ f < c.target_floor
  \/ c.target_floor < f /\ f <= c.current_floor

\* No known call is on the way: the target was the nearest request in its direction,
\* and the calls of the floor the car left are not among those known.
NothingKnownOnTheWay == Travelling(e) => \A c \in known : ~OnTheWay(e, c[1])

KnownInv ==
  /\ CarInv(e)
  /\ unanswered \subseteq HallCall /\ known \subseteq HallCall
  /\ KnownCallsKept
  /\ NothingKnownOnTheWay

-----------------------------------------------------------------------------
(* The pick *)

\* The target is a nearest request in its direction.
LEMMA TargetIsNearest ==
  ASSUME NEW c \in ElevatorStruct, Targets(c) # {}, NEW f \in Requests(c),
         f # c.current_floor
  PROVE  ~OnTheWay(PrepareFor(c, NextTarget(c)), f)
<1> DEFINE t == NextTarget(c)
<1>1. t \in Lowest(Above(c)) \/ t \in Highest(Below(c))
  BY DEF NextTarget, Targets, Closest
<1>2. /\ Requests(c) \subseteq Floors /\ f \in Int /\ c.current_floor \in Int
      /\ t \in Floors /\ t \in Int
  BY NextTargetIsRequest, ConstantsAssumption DEF Requests, ElevatorStruct, Floors
<1>3. /\ PrepareFor(c, t).current_floor = c.current_floor
      /\ PrepareFor(c, t).target_floor = t
  BY DEF PrepareFor, ElevatorStruct
<1> HIDE DEF t
<1>4. CASE t \in Lowest(Above(c))
  <2>1. t > c.current_floor /\ (f > c.current_floor => t <= f)
    BY <1>2, <1>4 DEF Lowest, Above
  <2> QED
    BY <1>2, <1>3, <2>1 DEF OnTheWay, t
<1>5. CASE t \in Highest(Below(c))
  <2>1. t < c.current_floor /\ (f < c.current_floor => f <= t)
    BY <1>2, <1>5 DEF Highest, Below
  <2> QED
    BY <1>2, <1>3, <2>1 DEF OnTheWay, t
<1> QED
  BY <1>1, <1>4, <1>5

\* A step into PREPARE leaves the hall calls alone and none but those of the
\* present floor on the way.
LEMMA SettingOut ==
  ASSUME NEW c, CarInv(c), ~Travelling(c), NEW due \in FloorDue(c),
         NEW d, d = Elevator_step(c, due)
  PROVE  /\ d.call_up = c.call_up /\ d.call_down = c.call_down
         /\ d.task_state # "MOVING"
         /\ d.task_state = "PREPARE" =>
              \A f \in c.call_up \cup c.call_down :
                f # c.current_floor => ~OnTheWay(d, f)
<1>1. /\ c \in ElevatorStruct
      /\ c.task_state \in {"IDLE", "ARRIVED", "DOOR_OPENING", "DOOR_OPEN"}
  BY DEF CarInv, ElevatorStruct, TaskState, StatesReached, Travelling
<1>2. ASSUME NEW b \in ElevatorStruct,
             b.current_floor = c.current_floor,
             b.call_up = c.call_up, b.call_down = c.call_down,
             d \in {DepartOrPark(b), StepIdle(b)}
      PROVE  /\ d.call_up = c.call_up /\ d.call_down = c.call_down
             /\ d.task_state # "MOVING"
             /\ d.task_state = "PREPARE" =>
                  \A f \in c.call_up \cup c.call_down :
                    f # c.current_floor => ~OnTheWay(d, f)
  <2>1. d.call_up = c.call_up /\ d.call_down = c.call_down
    BY <1>2, DepartOrParkKeeps
  <2>2. CASE Targets(b) = {}
    <3>1. d.task_state = "IDLE"
      BY <1>2, <2>2 DEF DepartOrPark, ParkAlways, StepIdle, ElevatorStruct
    <3> QED
      BY <2>1, <3>1
  <2>3. CASE Targets(b) # {}
    <3>1. d = PrepareFor(b, NextTarget(b))
      BY <1>2, <2>3 DEF DepartOrPark, StepIdle
    <3>2. d.task_state = "PREPARE"
      BY <3>1 DEF PrepareFor, ElevatorStruct
    <3>3. ASSUME NEW f \in c.call_up \cup c.call_down, f # c.current_floor
          PROVE  ~OnTheWay(d, f)
      <4>1. f \in Requests(b)
        BY <1>2 DEF Requests
      <4> QED
        BY <1>2, <2>3, <3>1, <3>3, <4>1, TargetIsNearest
    <3> QED
      BY <2>1, <3>2, <3>3
  <2> QED
    BY <2>2, <2>3
<1>3. CASE c.task_state = "IDLE"
  BY <1>1, <1>2, <1>3 DEF Elevator_step
<1>4. CASE c.task_state = "ARRIVED"
  BY <1>1, <1>4 DEF Elevator_step, StepArrived, ServeInside, ElevatorStruct
<1>5. CASE c.task_state = "DOOR_OPENING"
  BY <1>1, <1>5 DEF Elevator_step, StepDoorOpening, ElevatorStruct
<1>6. CASE c.task_state = "DOOR_OPEN" /\ c.door_timer > 1
  BY <1>1, <1>6 DEF Elevator_step, StepDoorOpen, ElevatorStruct
<1>7. CASE c.task_state = "DOOR_OPEN" /\ ~(c.door_timer > 1)
  <2> DEFINE b == ServeInside([c EXCEPT !.door_timer = 0])
  <2>1. [c EXCEPT !.door_timer = 0] \in ElevatorStruct
    BY <1>1, ConstantsAssumption DEF ElevatorStruct
  <2>2. b \in ElevatorStruct
    BY <2>1, ServeInsideKeepsType
  <2>3. /\ b.current_floor = c.current_floor
        /\ b.call_up = c.call_up /\ b.call_down = c.call_down
    BY <1>1 DEF ServeInside, ElevatorStruct
  <2>4. d = DepartOrPark(b)
    BY <1>7 DEF Elevator_step, StepDoorOpen
  <2> HIDE DEF b
  <2> QED
    BY <1>2, <2>2, <2>3, <2>4
<1> QED
  BY <1>1, <1>3, <1>4, <1>5, <1>6, <1>7

-----------------------------------------------------------------------------
(* The invariant *)

LEMMA CallTypes ==
  ASSUME KnownInv, NEW c \in HallCall
  PROVE  /\ c[1] \in Floors /\ c[1] \in Int /\ c[2] \in HallCallTypes
         /\ e \in ElevatorStruct /\ e.current_floor \in Int /\ e.target_floor \in Int
BY ConstantsAssumption DEF KnownInv, CarInv, HallCall, ElevatorStruct, Floors

\* A request adds flags and moves nothing.
LEMMA HPressKeepsKnown ==
  ASSUME KnownInv, NEW floor, NEW type, HPress(floor, type)
  PROVE  KnownInv'
<1>1. e' = elevator_add_request_flag(e, floor, type) /\ known' = known
  BY DEF HPress, Press
<1>2. CarInv(e')
  BY <1>1, PressIsSound DEF KnownInv
<1>3. /\ e'.task_state = e.task_state /\ e'.target_floor = e.target_floor
      /\ e'.current_floor = e.current_floor
      /\ e.call_up \subseteq e'.call_up /\ e.call_down \subseteq e'.call_down
  BY <1>1 DEF KnownInv, CarInv, elevator_add_request_flag, AddRequestUnchecked, ElevatorStruct
<1>4. unanswered' \subseteq HallCall
  BY WatchedAssumption DEF HPress, StillUnanswered, KnownInv
<1>5. KnownCallsKept'
  BY <1>1, <1>3 DEF KnownInv, KnownCallsKept, Registered
<1>6. NothingKnownOnTheWay'
  BY <1>1, <1>3 DEF KnownInv, NothingKnownOnTheWay, OnTheWay, Travelling
<1> QED
  BY <1>1, <1>2, <1>4, <1>5, <1>6 DEF KnownInv

LEMMA HTickKeepsKnown ==
  ASSUME KnownInv, HTick
  PROVE  KnownInv'
<1>1. PICK due \in FloorDue(e) : e' = Elevator_step(e, due)
  BY DEF HTick, Tick
<1>2. CarInv(e')
  BY <1>1, StepIsSound DEF KnownInv
<1>3. /\ unanswered' \subseteq unanswered
      /\ known' = IF e.task_state # "PREPARE" /\ e'.task_state = "PREPARE"
                  THEN {c \in unanswered' : Registered(c) /\ c[1] # e.current_floor}
                  ELSE known \cap unanswered'
  BY DEF HTick, StillUnanswered
<1>4. unanswered' \subseteq HallCall /\ known' \subseteq HallCall
  BY <1>3 DEF KnownInv
<1>5. CASE Travelling(e)
  <2>1. /\ e'.task_state \in {"MOVING", "ARRIVED"} /\ e'.target_floor = e.target_floor
        /\ Stays(e, e') \/ Climbs(e, e') \/ Descends(e, e')
    BY <1>1, <1>5, TravelMovesOneFloor DEF KnownInv
  <2>2. known' \subseteq known
    BY <1>3, <2>1
  <2>3. ASSUME NEW c \in known'
        PROVE  Registered(c)' /\ ~OnTheWay(e', c[1])
    <3>1. c \in known /\ Registered(c) /\ ~OnTheWay(e, c[1])
      BY <1>5, <2>2 DEF KnownInv, KnownCallsKept, NothingKnownOnTheWay
    <3>2. c \in HallCall /\ c[1] \in Int /\ e.current_floor \in Int /\ e.target_floor \in Int
      BY <3>1, CallTypes DEF KnownInv
    <3>3. CASE Stays(e, e')
      BY <2>1, <3>1, <3>3 DEF Stays, Registered, OnTheWay
    <3>4. CASE Climbs(e, e')
      BY <2>1, <3>1, <3>2, <3>4 DEF Climbs, Registered, OnTheWay
    <3>5. CASE Descends(e, e')
      BY <2>1, <3>1, <3>2, <3>5 DEF Descends, Registered, OnTheWay
    <3> QED
      BY <2>1, <3>3, <3>4, <3>5
  <2> QED
    BY <1>2, <1>4, <2>3 DEF KnownInv, KnownCallsKept, NothingKnownOnTheWay
<1>6. CASE ~Travelling(e)
  <2>1. /\ e'.call_up = e.call_up /\ e'.call_down = e.call_down
        /\ e'.task_state # "MOVING"
        /\ e'.task_state = "PREPARE" =>
             \A f \in e.call_up \cup e.call_down :
               f # e.current_floor => ~OnTheWay(e', f)
    BY <1>1, <1>6, SettingOut DEF KnownInv
  <2>2. e.task_state # "PREPARE"
    BY <1>6 DEF Travelling
  <2>3. \A c \in known' : Registered(c)
    BY <1>3 DEF KnownInv, KnownCallsKept
  <2>4. KnownCallsKept'
    BY <2>1, <2>3 DEF KnownCallsKept, Registered
  <2>5. NothingKnownOnTheWay'
    <3> SUFFICES ASSUME e'.task_state = "PREPARE", NEW c \in known'
                 PROVE  ~OnTheWay(e', c[1])
      BY <2>1 DEF NothingKnownOnTheWay, Travelling
    <3>1. c[1] # e.current_floor
      BY <1>3, <2>2
    <3>2. c[1] \in e.call_up \cup e.call_down
      BY <2>3 DEF Registered
    <3> QED
      BY <2>1, <3>1, <3>2
  <2> QED
    BY <1>2, <1>4, <2>4, <2>5 DEF KnownInv
<1> QED
  BY <1>5, <1>6

\* The strengthening holds throughout.
THEOREM KnownInvHolds == HSpec => []KnownInv
<1>1. HInit => KnownInv
  <2> SUFFICES ASSUME HInit
               PROVE  KnownInv
    OBVIOUS
  <2>1. CarInv(e)
    BY ConstantsAssumption
    DEF HInit, Init, Elevator_init, CarInv, StatesReached, Purposeful, StoppedAtTarget,
        LittleLeftOver, Travelling, AtStop, ElevatorStruct, TaskState, Floors
  <2> QED
    BY <2>1 DEF HInit, KnownInv, KnownCallsKept, NothingKnownOnTheWay
<1>2. KnownInv /\ [HNext]_hvars => KnownInv'
  <2> SUFFICES ASSUME KnownInv, [HNext]_hvars
               PROVE  KnownInv'
    OBVIOUS
  <2>1. CASE UNCHANGED hvars
    BY <2>1 DEF hvars, KnownInv, KnownCallsKept, NothingKnownOnTheWay, Registered
  <2> QED
    BY <2>1, HPressKeepsKnown, HTickKeepsKnown DEF HNext
<1> QED
  BY <1>1, <1>2, PTL DEF HSpec

\* Driving off erases no call the car knew of when it set out.
THEOREM KnownCallsAreKept == HSpec => []KnownCallsKept
<1>1. KnownInv => KnownCallsKept
  BY DEF KnownInv
<1> QED
  BY <1>1, KnownInvHolds, PTL
=============================================================================
