----------------------------- MODULE BoundedQueue -----------------------------
(***************************************************************************)
(* What the pending queue promises: first in, first out, at most           *)
(* MAX_REQUESTS requests, and a call that cannot be honoured says so and   *)
(* changes nothing.                                                        *)
(***************************************************************************)
EXTENDS Integers, Sequences

CONSTANTS MAX_REQUESTS, Request

VARIABLES
  queue,   \* the requests, oldest first
  answer   \* what the last call told its caller

vars == <<queue, answer>>

\* The queue after a push: a full queue is left as it was.
Pushed(q, r) == IF Len(q) < MAX_REQUESTS THEN Append(q, r) ELSE q

Init == queue = <<>> /\ answer = "ok"

Push(r) ==
  /\ queue' = Pushed(queue, r)
  /\ answer' = IF Len(queue) < MAX_REQUESTS THEN "ok" ELSE "error"

Pop ==
  \/ queue # <<>> /\ queue' = Tail(queue) /\ answer' = Head(queue)
  \/ queue = <<>> /\ answer' = "error" /\ UNCHANGED queue

Peek ==
  /\ answer' = IF queue # <<>> THEN Head(queue) ELSE "error"
  /\ UNCHANGED queue

Clear == queue' = <<>> /\ answer' = "ok"

Next == (\E r \in Request : Push(r)) \/ Pop \/ Peek \/ Clear

Spec == Init /\ [][Next]_vars
=============================================================================
