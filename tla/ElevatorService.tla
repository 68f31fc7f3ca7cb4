--------------------------- MODULE ElevatorService ---------------------------
(***************************************************************************)
(* What one car promises its passengers, without the timers, the task      *)
(* states and the target: it never moves with an open door, it only moves  *)
(* towards a floor somebody is waiting for, and it forgets a request only  *)
(* in the place where the request could be honoured.                       *)
(***************************************************************************)
EXTENDS Integers

CONSTANT NumFloors

Floors == 0 .. NumFloors - 1

VARIABLES
  floor,     \* where the car is
  open,      \* whether its door is open
  up, down,  \* floors with a hall call upwards, downwards
  inside     \* floors the passengers of the car asked for

vars == <<floor, open, up, down, inside>>

Waiting == up \cup down \cup inside

Init ==
  /\ floor \in Floors
  /\ open = FALSE
  /\ up = {} /\ down = {} /\ inside = {}

\* Somebody asks for floor f.
Ask(f) ==
  /\ \/ up' = up \cup {f} /\ UNCHANGED <<down, inside>>
     \/ down' = down \cup {f} /\ UNCHANGED <<up, inside>>
     \/ inside' = inside \cup {f} /\ UNCHANGED <<up, down>>
  /\ UNCHANGED <<floor, open>>

\* One floor up, towards someone; the up call of the floor left is over.
Climb ==
  /\ ~open
  /\ \E f \in Waiting : f > floor
  /\ floor' = floor + 1
  /\ up' = up \ {floor}
  /\ UNCHANGED <<open, down, inside>>

\* One floor down, towards someone.
Descend ==
  /\ ~open
  /\ \E f \in Waiting : f < floor
  /\ floor' = floor - 1
  /\ down' = down \ {floor}
  /\ UNCHANGED <<open, up, inside>>

\* The door opens where somebody is waiting; car passengers for this floor leave.
Open ==
  /\ ~open
  /\ floor \in Waiting
  /\ open' = TRUE
  /\ inside' = inside \ {floor}
  /\ UNCHANGED <<floor, up, down>>

\* The door closes; who asked for this floor while it was open has left too.
Close ==
  /\ open
  /\ open' = FALSE
  /\ inside' = inside \ {floor}
  /\ UNCHANGED <<floor, up, down>>

Next == (\E f \in Floors : Ask(f)) \/ Climb \/ Descend \/ Open \/ Close

Spec == Init /\ [][Next]_vars
=============================================================================
