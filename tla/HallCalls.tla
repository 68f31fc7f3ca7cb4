------------------------------ MODULE HallCalls ------------------------------
(***************************************************************************)
(* Elevator with history variables that tell a hall call that was answered *)
(* by an open door from one whose flag was merely cleared.                 *)
(***************************************************************************)
EXTENDS Elevator

CONSTANT Watched   \* the hall calls the history follows, as <<floor, type>>

VARIABLES
  unanswered,  \* watched calls accepted since the door was last open at their floor
  known        \* those of them still registered when the car chose its present
               \* trip, except for those on the floor it then left

hvars == <<e, unanswered, known>>

HallCallTypes == {"CALL_UP", "CALL_DOWN"}
HallCall == Floors \X HallCallTypes

ASSUME WatchedAssumption == Watched \subseteq HallCall

Registered(c) == IF c[2] = "CALL_UP" THEN c[1] \in e.call_up ELSE c[1] \in e.call_down

HInit == Init /\ unanswered = {} /\ known = {}

\* What is left of S after the step: a door open at a floor answers its calls.
StillUnanswered(S) ==
  IF DoorOpen(e') THEN {c \in S : c[1] # e'.current_floor} ELSE S

HPress(floor, type) ==
  /\ Press(floor, type)
  /\ unanswered' = StillUnanswered(unanswered \cup ({<<floor, type>>} \cap Watched))
  /\ UNCHANGED known

HTick ==
  /\ Tick
  /\ unanswered' = StillUnanswered(unanswered)
  /\ known' = IF e.task_state # "PREPARE" /\ e'.task_state = "PREPARE"
              THEN {c \in unanswered' : Registered(c) /\ c[1] # e.current_floor}
              ELSE known \cap unanswered'

HNext ==
  \/ \E floor \in -1 .. NumFloors, type \in RequestType : HPress(floor, type)
  \/ HTick

HSpec == HInit /\ [][HNext]_hvars

\* Fairness of the core loop, as in Elevator.
HFairSpec == HSpec /\ WF_e(Tick)

-----------------------------------------------------------------------------
(* Properties *)

\* A hall call the car knew of when it set out keeps its flag until the door
\* has opened at its floor: whatever is on the way of a trip, behind it or
\* beyond it, the flags cleared while driving are not among those known.
KnownCallsKept == \A c \in known : Registered(c)

\* The reading of the comment in Elevator_step that leaving a floor upwards is
\* having served its upward passengers: no flag goes before a door has opened.
OnlyServedCallsCleared == \A c \in unanswered : Registered(c)

\* A call the car knew of when it set out is answered by an open door at its
\* floor in the end, whatever else is pressed meanwhile.
KnownCallsAnswered == \A c \in Watched : c \in known ~> c \notin unanswered
=============================================================================
