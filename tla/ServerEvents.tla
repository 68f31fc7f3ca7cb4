----------------------------- MODULE ServerEvents -----------------------------
(***************************************************************************)
(* src/core/server_events.c: the linked list of events between the network *)
(* thread and the threads that take events, node by node.  Every function  *)
(* holds g_mutex from its first look at the list to its last, so each is   *)
(* one action; waiting for g_cond gives the mutex up in between.           *)
(*                                                                         *)
(* AddHead, PushUnsignalled, PushWhenever, RefuseLeaking,                  *)
(* ShutdownSignalling, TakeHeadKeepingTail and TakeHeadUncounted are       *)
(* faulty variants of the definitions after them that PROJECT.json names   *)
(* as mutants.                                                             *)
(***************************************************************************)
EXTENDS Integers, FiniteSets

CONSTANTS
  Nodes,        \* the memory calloc hands out
  NULL,
  Event,        \* the events pushed (EVT_OUTSIDE_CALL, EVT_INSIDE_CALL, ...)
  EVT_SHUTDOWN,
  Consumers     \* threads that take events: the core thread with try_pop; the
                \* blocking pop is offered to others, of which there are none yet

ASSUME EventsAssumption ==
  /\ IsFiniteSet(Nodes) /\ NULL \notin Nodes
  /\ IsFiniteSet(Consumers)
  /\ EVT_SHUTDOWN \notin Event \cup {NULL}

VARIABLES
  type, next,        \* fields of the nodes (the payload stands in the type)
  allocated,         \* nodes not freed
  g_head, g_tail, g_count, g_shutdown,
  thread,            \* a consumer is "running", "waiting" for g_cond, or "woken"
                     \* and about to get the mutex back
  ev,                \* the event a consumer took and has not freed yet
  answer             \* what the last push returned: "ok" (0) or "error" (-1)

list == <<type, next, g_head, g_tail, g_count>>
vars == <<type, next, allocated, g_head, g_tail, g_count, g_shutdown, thread, ev, answer>>

\* server_events_init
Init ==
  /\ type = [n \in Nodes |-> NULL] /\ next = [n \in Nodes |-> NULL]
  /\ allocated = {}
  /\ g_head = NULL /\ g_tail = NULL /\ g_count = 0 /\ g_shutdown = FALSE
  /\ thread = [c \in Consumers |-> "running"]
  /\ ev = [c \in Consumers |-> NULL]
  /\ answer = "ok"

Waiting == {c \in Consumers : thread[c] = "waiting"}
Woken   == {c \in Consumers : thread[c] = "woken"}

-----------------------------------------------------------------------------
(* Pushing *)

AddHead(n, t) ==
  /\ allocated' = allocated \cup {n}
  /\ type' = [type EXCEPT ![n] = t]
  /\ next' = [next EXCEPT ![n] = g_head]
  /\ g_head' = n
  /\ g_tail' = IF g_tail # NULL THEN g_tail ELSE n
  /\ g_count' = g_count + 1

\* A new node n of type t at the end of the list.
AddTail(n, t) ==
  /\ allocated' = allocated \cup {n}
  /\ type' = [type EXCEPT ![n] = t]
  /\ next' = IF g_tail # NULL THEN [next EXCEPT ![g_tail] = n, ![n] = NULL]
                              ELSE [next EXCEPT ![n] = NULL]
  /\ g_head' = IF g_tail # NULL THEN g_head ELSE n
  /\ g_tail' = n
  /\ g_count' = g_count + 1

\* pthread_cond_signal wakes one of the threads waiting, if there is one.
Signal ==
  IF Waiting = {} THEN UNCHANGED thread
  ELSE \E c \in Waiting : thread' = [thread EXCEPT ![c] = "woken"]

Broadcast == thread' = [c \in Consumers |-> IF c \in Waiting THEN "woken" ELSE thread[c]]

\* server_events_push_outside, _inside, _guard and push_event.
PushUnsignalled(t) ==
  /\ ~g_shutdown
  /\ \E n \in Nodes \ allocated : AddTail(n, t)
  /\ answer' = "ok"
  /\ UNCHANGED <<g_shutdown, thread, ev>>

PushWhenever(t) ==
  /\ \E n \in Nodes \ allocated : AddTail(n, t)
  /\ Signal
  /\ answer' = "ok"
  /\ UNCHANGED <<g_shutdown, ev>>

Push(t) ==
  /\ ~g_shutdown
  /\ \E n \in Nodes \ allocated : AddTail(n, t)
  /\ Signal
  /\ answer' = "ok"
  /\ UNCHANGED <<g_shutdown, ev>>

RefuseLeaking ==
  /\ \/ \E n \in Nodes \ allocated : allocated' = allocated \cup {n}
     \/ UNCHANGED allocated
  /\ answer' = "error"
  /\ UNCHANGED <<list, g_shutdown, thread, ev>>

\* No memory, or shut down, and then the new node is freed again.
Refuse ==
  /\ answer' = "error"
  /\ UNCHANGED <<list, allocated, g_shutdown, thread, ev>>

ShutdownSignalling ==
  /\ g_shutdown' = TRUE
  /\ \/ \E n \in Nodes \ allocated : AddTail(n, EVT_SHUTDOWN)
     \/ UNCHANGED <<list, allocated>>
  /\ Signal
  /\ UNCHANGED <<ev, answer>>

\* server_events_shutdown; without memory there is no event, only the flag.
Shutdown ==
  /\ g_shutdown' = TRUE
  /\ \/ \E n \in Nodes \ allocated : AddTail(n, EVT_SHUTDOWN)
     \/ UNCHANGED <<list, allocated>>
  /\ Broadcast
  /\ UNCHANGED <<ev, answer>>

-----------------------------------------------------------------------------
(* Taking *)

TakeHeadKeepingTail(c) ==
  /\ g_count > 0 /\ g_head # NULL
  /\ ev' = [ev EXCEPT ![c] = g_head]
  /\ g_head' = next[g_head]
  /\ next' = [next EXCEPT ![g_head] = NULL]
  /\ g_count' = g_count - 1
  /\ thread' = [thread EXCEPT ![c] = "running"]
  /\ UNCHANGED <<type, allocated, g_tail, g_shutdown, answer>>

TakeHeadUncounted(c) ==
  /\ g_count > 0 /\ g_head # NULL
  /\ ev' = [ev EXCEPT ![c] = g_head]
  /\ g_head' = next[g_head]
  /\ g_tail' = IF next[g_head] = NULL THEN NULL ELSE g_tail
  /\ next' = [next EXCEPT ![g_head] = NULL]
  /\ thread' = [thread EXCEPT ![c] = "running"]
  /\ UNCHANGED <<type, allocated, g_count, g_shutdown, answer>>

\* The common end of server_events_pop and server_events_try_pop.
TakeHead(c) ==
  /\ g_count > 0 /\ g_head # NULL
  /\ ev' = [ev EXCEPT ![c] = g_head]
  /\ g_head' = next[g_head]
  /\ g_tail' = IF next[g_head] = NULL THEN NULL ELSE g_tail
  /\ next' = [next EXCEPT ![g_head] = NULL]
  /\ g_count' = g_count - 1
  /\ thread' = [thread EXCEPT ![c] = "running"]
  /\ UNCHANGED <<type, allocated, g_shutdown, answer>>

\* A thread calls try_pop or pop and finds an event, after a wait or without.
Take(c) == ev[c] = NULL /\ thread[c] # "waiting" /\ TakeHead(c)

\* server_events_pop finds nothing: platform_cond_wait.
Wait(c) ==
  /\ ev[c] = NULL /\ thread[c] # "waiting"
  /\ g_count = 0 /\ ~g_shutdown
  /\ thread' = [thread EXCEPT ![c] = "waiting"]
  /\ UNCHANGED <<list, allocated, g_shutdown, ev, answer>>

\* server_events_pop finds nothing after the shutdown and returns -1.
GiveUp(c) ==
  /\ thread[c] = "woken"
  /\ g_count = 0 /\ g_shutdown
  /\ thread' = [thread EXCEPT ![c] = "running"]
  /\ UNCHANGED <<list, allocated, g_shutdown, ev, answer>>

\* pthread_cond_wait may return without a signal.
SpuriousWakeup(c) ==
  /\ thread[c] = "waiting"
  /\ thread' = [thread EXCEPT ![c] = "woken"]
  /\ UNCHANGED <<list, allocated, g_shutdown, ev, answer>>

\* server_events_free, when the event is handled.
Free(c) ==
  /\ ev[c] # NULL
  /\ allocated' = allocated \ {ev[c]}
  /\ type' = [type EXCEPT ![ev[c]] = NULL]
  /\ ev' = [ev EXCEPT ![c] = NULL]
  /\ UNCHANGED <<next, g_head, g_tail, g_count, g_shutdown, thread, answer>>

Consume(c) == Take(c) \/ Wait(c) \/ GiveUp(c) \/ SpuriousWakeup(c) \/ Free(c)

Next ==
  \/ \E t \in Event : Push(t)
  \/ Refuse
  \/ Shutdown
  \/ \E c \in Consumers : Consume(c)

Spec == Init /\ [][Next]_vars

\* A woken thread gets the mutex in the end: every holder releases it after a
\* few statements.  Nobody has to push, call or free anything.
FairSpec == Spec /\ \A c \in Consumers : WF_vars(thread[c] = "woken" /\ Consume(c))

-----------------------------------------------------------------------------
(* Properties *)

TypeOK ==
  /\ type \in [Nodes -> Event \cup {EVT_SHUTDOWN, NULL}]
  /\ next \in [Nodes -> Nodes \cup {NULL}]
  /\ allocated \subseteq Nodes
  /\ {g_head, g_tail} \subseteq Nodes \cup {NULL}
  /\ g_count \in 0 .. Cardinality(Nodes) /\ g_shutdown \in BOOLEAN
  /\ thread \in [Consumers -> {"running", "waiting", "woken"}]
  /\ ev \in [Consumers -> Nodes \cup {NULL}]
  /\ answer \in {"ok", "error"}

\* The nodes g_count steps from g_head.
walk[i \in 1 .. g_count] ==
  IF i = 1 THEN g_head
  ELSE IF walk[i - 1] \in Nodes THEN next[walk[i - 1]] ELSE NULL

Listed == {walk[i] : i \in 1 .. g_count}
Taken  == {ev[c] : c \in Consumers} \ {NULL}

\* Head, tail, count and links agree, through every way the list gets empty and
\* full again: the count's many steps from the head end at the tail, which is last.
ListIntact ==
  /\ g_count = 0 => g_head = NULL /\ g_tail = NULL
  /\ g_count > 0 => walk[g_count] = g_tail /\ g_tail # NULL /\ next[g_tail] = NULL

\* Every node not freed is in the list once, or taken by one thread: no event is
\* lost, handled twice, freed while somebody may reach it, or leaked.
EveryNodeHasOneOwner ==
  /\ allocated = Listed \cup Taken
  /\ Cardinality(allocated)
       = g_count + Cardinality({c \in Consumers : ev[c] # NULL})

\* Nobody sleeps on work: while a thread waits, every event in the list has a
\* woken thread on its way to it, and after the shutdown nobody waits.
NoLostWakeup == Waiting # {} => g_count <= Cardinality(Woken) /\ ~g_shutdown

\* The list is the queue of EventQueue.
Queue ==
  INSTANCE EventQueue WITH
    Notice <- EVT_SHUTDOWN,
    queue  <- [i \in 1 .. g_count |-> IF walk[i] \in Nodes THEN type[walk[i]] ELSE NULL],
    closed <- g_shutdown

QueueSpec == Queue!Spec

\* A thread blocked in server_events_pop returns once the queue is shut down.
ShutdownReleases ==
  \A c \in Consumers : g_shutdown ~> thread[c] = "running"
=============================================================================
