------------------------------ MODULE EventQueue ------------------------------
(***************************************************************************)
(* What server_events promises: events come out once each and in the order *)
(* they were accepted; after closing nothing is accepted but closing       *)
(* notices; a caller is told OK exactly when its event is in the queue.    *)
(***************************************************************************)
EXTENDS Sequences

CONSTANTS
  Event,   \* what may be pushed
  Notice   \* the notice that the queue was closed

VARIABLES
  queue,   \* accepted events, oldest first
  closed,
  answer   \* what the last push told its caller

vars == <<queue, closed, answer>>

Init == queue = <<>> /\ closed = FALSE /\ answer = "ok"

Accept(ev) ==
  /\ ~closed
  /\ queue' = Append(queue, ev) /\ answer' = "ok"
  /\ UNCHANGED closed

Refuse == answer' = "error" /\ UNCHANGED <<queue, closed>>

Take == queue # <<>> /\ queue' = Tail(queue) /\ UNCHANGED <<closed, answer>>

\* The notice is missing when there is no memory for it.
Close ==
  /\ closed' = TRUE
  /\ queue' = Append(queue, Notice) \/ queue' = queue
  /\ UNCHANGED answer

Next == (\E ev \in Event : Accept(ev)) \/ Refuse \/ Take \/ Close

Spec == Init /\ [][Next]_vars
=============================================================================
