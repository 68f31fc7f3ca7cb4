------------------------------ MODULE MCDispatch ------------------------------
(* Dispatch on a shaft of three floors.                                    *)
EXTENDS Dispatch

Hall(floor, direction) ==
  [type |-> "OUTSIDE_CALL", floor |-> floor, direction |-> direction]
Inside(car, floor) ==
  [type |-> "INSIDE_CALL", elevator_id |-> car, dest_floor |-> floor]
Guard(car, floor, force) ==
  [type |-> "GUARD_COMMAND", elevator_id |-> car, floor |-> floor, force |-> force]

\* Calls between the ends, calls from the landing both cars start on, buttons in
\* both cars, and numbers no car or floor has.
AllKinds ==
  {Hall(0, DIR_UP), Hall(1, DIR_UP), Hall(1, DIR_DOWN), Hall(2, DIR_DOWN),
   Inside(0, 2), Inside(1, 0), Inside(1, NumFloors), Inside(NumElevators, 0),
   Guard(0, 2, TRUE), Guard(1, 0, FALSE)}

\* Enough for one car to be full with a call left over.
OneCar == {Hall(0, DIR_UP), Hall(1, DIR_DOWN), Hall(2, DIR_UP), Inside(0, 0)}

\* Two ordinary hall calls, and a passenger who keeps the other car away.
OrdinaryTraffic == {Hall(1, DIR_DOWN), Hall(2, DIR_UP), Inside(1, 3)}

TwoCalls == {Hall(0, DIR_UP), Hall(2, DIR_DOWN)}
=============================================================================
