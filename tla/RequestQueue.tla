----------------------------- MODULE RequestQueue -----------------------------
(***************************************************************************)
(* src/core/request_queue.c: the ring buffer of pending requests.          *)
(***************************************************************************)
EXTENDS Integers, Sequences

CONSTANTS
  MAX_REQUESTS,  \* slots of the ring (256 in the build)
  Request,       \* the requests pushed
  Zero           \* what a slot of the static queue holds before its first use

ASSUME QueueAssumption ==
  /\ MAX_REQUESTS \in Nat \ {0}
  /\ Zero \notin Request
  /\ {"ok", "error"} \cap (Request \cup {Zero}) = {}

VARIABLES
  items, head, tail, count,   \* the fields of RequestQueue
  answer                      \* the last call's result: "ok", "error" (-1), or
                              \* the request it stored in *out

vars == <<items, head, tail, count, answer>>

Slots == 0 .. MAX_REQUESTS - 1

rq_init == items = [i \in Slots |-> Zero] /\ head = 0 /\ tail = 0 /\ count = 0 /\ answer = "ok"

PushOneTooMany(r) ==
  \/ /\ count > MAX_REQUESTS
     /\ answer' = "error"
     /\ UNCHANGED <<items, head, tail, count>>
  \/ /\ count <= MAX_REQUESTS
     /\ items' = [items EXCEPT ![tail] = r]
     /\ tail' = (tail + 1) % MAX_REQUESTS
     /\ count' = count + 1
     /\ answer' = "ok"
     /\ UNCHANGED head

rq_push(r) ==
  \/ /\ count >= MAX_REQUESTS
     /\ answer' = "error"
     /\ UNCHANGED <<items, head, tail, count>>
  \/ /\ count < MAX_REQUESTS
     /\ items' = [items EXCEPT ![tail] = r]
     /\ tail' = (tail + 1) % MAX_REQUESTS
     /\ count' = count + 1
     /\ answer' = "ok"
     /\ UNCHANGED head

rq_pop ==
  \/ /\ count = 0
     /\ answer' = "error"
     /\ UNCHANGED <<items, head, tail, count>>
  \/ /\ count > 0
     /\ answer' = items[head]
     /\ head' = (head + 1) % MAX_REQUESTS
     /\ count' = count - 1
     /\ UNCHANGED <<items, tail>>

rq_peek ==
  /\ answer' = IF count = 0 THEN "error" ELSE items[head]
  /\ UNCHANGED <<items, head, tail, count>>

ClearForgettingTail ==
  /\ head' = 0 /\ count' = 0
  /\ answer' = "ok"
  /\ UNCHANGED <<items, tail>>

\* The slots keep what they held.
rq_clear ==
  /\ head' = 0 /\ tail' = 0 /\ count' = 0
  /\ answer' = "ok"
  /\ UNCHANGED items

Next == (\E r \in Request : rq_push(r)) \/ rq_pop \/ rq_peek \/ rq_clear

Spec == rq_init /\ [][Next]_vars

-----------------------------------------------------------------------------
(* Properties *)

\* The three cursors agree: tail is count slots after head, and every slot in
\* between holds a request that was pushed, never the slot's initial content
\* and never beyond the array.
CursorsAgree ==
  /\ head \in Slots /\ tail \in Slots /\ count \in 0 .. MAX_REQUESTS
  /\ tail = (head + count) % MAX_REQUESTS
  /\ \A i \in Slots : i < count => items[(head + i) % MAX_REQUESTS] \in Request

\* The ring is a first-in first-out queue that refuses a push when it is full
\* and tells the caller so.
Queue ==
  INSTANCE BoundedQueue WITH
    queue <- [i \in 1 .. count |-> items[(head + i - 1) % MAX_REQUESTS]]

QueueSpec == Queue!Spec
=============================================================================
