------------------------- MODULE ServerLifecycleProofs -------------------------
(***************************************************************************)
(* A queued stop is never lost and the core thread ends only when stopped, *)
(* for any number of nodes and consumers and any events.                   *)
(***************************************************************************)
EXTENDS ServerLifecycle, ServerEventsProofs

ThreadsOK ==
  /\ main \in {"init", "serving", "stopping", "notifying", "joining", "exited"}
  /\ core \in {"none", "created", "test", "events", "ended"}
  /\ g_running \in BOOLEAN /\ noticed \in BOOLEAN
  /\ main = "init" => core = "none"

\* An EVT_SHUTDOWN in any node was queued by somebody.
NoticesAreNoticed == \A n \in Nodes : type[n] = EVT_SHUTDOWN => noticed

\* StopIsNotLost for a thread that is still to start, too: there only the list
\* counts, for the thread will set g_running.
StopKept ==
  noticed =>
    \/ core = "ended"
    \/ \E n \in allocated : type[n] = EVT_SHUTDOWN
    \/ ~g_running /\ core \in {"test", "events"}

\* Where the core thread may find g_running cleared, somebody cleared it.
ClearedByStop ==
  core \in {"test", "events"} /\ ~g_running => noticed \/ main \in {"notifying", "joining"}

StopInv == CountInv /\ ThreadsOK /\ NoticesAreNoticed /\ StopKept /\ ClearedByStop

-----------------------------------------------------------------------------
\* Pushes of other events leave every notice where it is.
LEMMA PushKeepsStop ==
  ASSUME StopInv, AnyPush
  PROVE  StopInv'
<1> USE DEF StopInv, ThreadsOK
<1>1. UNCHANGED threads /\ CountInv'
  BY PushKeepsCount DEF AnyPush
<1>2. CASE Refuse
  BY <1>1, <1>2 DEF Refuse, list, threads, NoticesAreNoticed, StopKept, ClearedByStop
<1>3. CASE \E t \in Event : Push(t)
  <2>1. PICK t \in Event : Push(t)
    BY <1>3
  <2>2. PICK n \in Nodes \ allocated : AddTail(n, t)
    BY <2>1 DEF Push
  <2>3. /\ allocated' = allocated \cup {n} /\ t # EVT_SHUTDOWN
        /\ type' = [type EXCEPT ![n] = t]
        /\ type \in [Nodes -> Event \cup {EVT_SHUTDOWN, NULL}] /\ allocated \subseteq Nodes
    BY <2>2, EventsAssumption DEF AddTail, CountInv, TypeOK
  <2>4. NoticesAreNoticed'
    BY <1>1, <2>3 DEF NoticesAreNoticed, threads
  <2>5. StopKept'
    BY <1>1, <2>3 DEF StopKept, threads
  <2> QED
    BY <1>1, <2>4, <2>5 DEF threads, ClearedByStop
<1> QED
  BY <1>2, <1>3 DEF AnyPush

\* server_events_shutdown, whoever calls it.
LEMMA ShutdownKeepsStop ==
  ASSUME StopInv, Shutdown, noticed' = (noticed \/ allocated' # allocated),
         core' = core, g_running' = g_running
  PROVE  CountInv' /\ NoticesAreNoticed' /\ StopKept'
<1> USE DEF StopInv, ThreadsOK
<1>1. CountInv'
  BY PushKeepsCount
<1>2. CASE UNCHANGED <<list, allocated>>
  BY <1>1, <1>2 DEF list, NoticesAreNoticed, StopKept
<1>3. CASE \E n \in Nodes \ allocated : AddTail(n, EVT_SHUTDOWN)
  <2>1. PICK n \in Nodes \ allocated : AddTail(n, EVT_SHUTDOWN)
    BY <1>3
  <2>2. /\ allocated' = allocated \cup {n}
        /\ type' = [type EXCEPT ![n] = EVT_SHUTDOWN]
        /\ type \in [Nodes -> Event \cup {EVT_SHUTDOWN, NULL}]
    BY <2>1 DEF AddTail, CountInv, TypeOK
  <2>3. n \in allocated' /\ type'[n] = EVT_SHUTDOWN /\ noticed'
    BY <2>2
  <2> QED
    BY <1>1, <2>3 DEF NoticesAreNoticed, StopKept
<1> QED
  BY <1>2, <1>3 DEF Shutdown

\* The main thread, and whoever uses the fast stop.
LEMMA MainKeepsStop ==
  ASSUME StopInv, MainStep \/ server_core_shutdown
  PROVE  StopInv'
<1> USE DEF StopInv, ThreadsOK
<1>1. CASE Start \/ ServerReturns \/ ClearRunning \/ Join
  <2>1. CountInv' /\ UNCHANGED <<type, allocated, noticed>>
    BY <1>1 DEF Start, ServerReturns, ClearRunning, Join, vars, CountInv, TypeOK, Busy
  <2>2. NoticesAreNoticed' /\ ThreadsOK' /\ ClearedByStop'
    BY <1>1, <2>1 DEF Start, ServerReturns, ClearRunning, Join, NoticesAreNoticed,
                      ClearedByStop
  <2>3. StopKept'
    BY <1>1, <2>1 DEF Start, ServerReturns, ClearRunning, Join, StopKept
  <2> QED
    BY <2>1, <2>2, <2>3
<1>2. CASE NotifyCore \/ server_core_shutdown
  <2>1. CountInv' /\ NoticesAreNoticed' /\ StopKept'
    BY <1>2, ShutdownKeepsStop DEF NotifyCore, server_core_shutdown
  <2>2. ThreadsOK'
    BY <1>2 DEF NotifyCore, server_core_shutdown
  <2>3. ClearedByStop'
    BY <1>2 DEF NotifyCore, server_core_shutdown, ClearedByStop
  <2> QED
    BY <2>1, <2>2, <2>3
<1> QED
  BY <1>1, <1>2 DEF MainStep

\* The core thread takes a notice out of the list only when it clears g_running.
LEMMA CoreKeepsStop ==
  ASSUME StopInv, CoreStep
  PROVE  StopInv'
<1> USE DEF StopInv, ThreadsOK
<1>1. CASE Begin \/ TestRunning \/ FinishRound
  <2>1. CountInv' /\ UNCHANGED <<type, allocated, noticed, main>>
    BY <1>1 DEF Begin, TestRunning, FinishRound, vars, CountInv, TypeOK, Busy
  <2>2. NoticesAreNoticed' /\ ThreadsOK' /\ ClearedByStop'
    BY <1>1, <2>1 DEF Begin, TestRunning, FinishRound, NoticesAreNoticed, ClearedByStop
  <2>3. StopKept'
    BY <1>1, <2>1 DEF Begin, TestRunning, FinishRound, StopKept
  <2> QED
    BY <2>1, <2>2, <2>3
<1>2. CASE TakeEvent
  <2>1. CountInv'
    BY <1>2, TakeKeepsCount, CoreAssumption DEF TakeEvent
  <2>2. UNCHANGED <<type, allocated, threads>>
    BY <1>2 DEF TakeEvent, Take, TakeHead
  <2> QED
    BY <2>1, <2>2 DEF threads, NoticesAreNoticed, StopKept, ClearedByStop
<1>3. CASE HandleEvent
  <2> DEFINE n == ev[Core]
  <2>1. CountInv'
    BY <1>3, FreeKeepsCount, CoreAssumption DEF HandleEvent
  <2>2. /\ n \in Nodes /\ allocated' = allocated \ {n} /\ core = "events"
        /\ type' = [type EXCEPT ![n] = NULL]
        /\ type \in [Nodes -> Event \cup {EVT_SHUTDOWN, NULL}] /\ allocated \subseteq Nodes
        /\ g_running' = (g_running /\ type[n] # EVT_SHUTDOWN)
        /\ UNCHANGED <<main, core, noticed>>
    BY <1>3, CoreAssumption DEF HandleEvent, Free, CountInv, TypeOK
  <2>3. NoticesAreNoticed'
    BY <2>2, EventsAssumption DEF NoticesAreNoticed
  <2>4. StopKept'
    <3>1. CASE type[n] = EVT_SHUTDOWN
      BY <2>2, <3>1 DEF StopKept
    <3>2. CASE type[n] # EVT_SHUTDOWN
      BY <2>2, <3>2 DEF StopKept
    <3> QED
      BY <3>1, <3>2
  <2>5. ClearedByStop'
    BY <2>2 DEF NoticesAreNoticed, ClearedByStop
  <2>6. ThreadsOK'
    BY <2>2
  <2> QED
    BY <2>1, <2>3, <2>4, <2>5, <2>6
<1> QED
  BY <1>1, <1>2, <1>3 DEF CoreStep

-----------------------------------------------------------------------------
\* The strengthening, for the theorems below.
THEOREM StopInvHolds == LSpec => []StopInv
<1>1. LInit => StopInv
  <2> SUFFICES ASSUME LInit
               PROVE  StopInv
    OBVIOUS
  <2>1. CountInv
    BY CountInvInitially DEF LInit
  <2>2. ThreadsOK /\ StopKept /\ ClearedByStop
    BY DEF LInit, ThreadsOK, StopKept, ClearedByStop
  <2>3. NoticesAreNoticed
    BY EventsAssumption DEF LInit, Init, NoticesAreNoticed
  <2> QED
    BY <2>1, <2>2, <2>3 DEF StopInv
<1>2. StopInv /\ [LNext]_lvars => StopInv'
  <2> SUFFICES ASSUME StopInv, [LNext]_lvars
               PROVE  StopInv'
    OBVIOUS
  <2>1. CASE UNCHANGED lvars
    BY <2>1 DEF lvars, vars, threads, StopInv, CountInv, TypeOK, Busy, ThreadsOK,
                NoticesAreNoticed, StopKept, ClearedByStop
  <2> QED
    BY <2>1, MainKeepsStop, CoreKeepsStop, PushKeepsStop DEF LNext
<1> QED
  BY <1>1, <1>2, PTL DEF LSpec

\* Both threads and the list they share stay well formed.
THEOREM LifecycleTypeCorrect == LSpec => []LTypeOK
<1>1. StopInv => LTypeOK
  BY DEF StopInv, ThreadsOK, CountInv, LTypeOK
<1> QED
  BY <1>1, StopInvHolds, PTL

\* Once server_events_shutdown has queued its event, the core thread has ended or
\* can still see that it must, however late it starts.
THEOREM StopsAreNotLost == LSpec => []StopIsNotLost
<1>1. StopInv => StopIsNotLost
  BY DEF StopInv, StopKept, StopIsNotLost, StopSeen
<1> QED
  BY <1>1, StopInvHolds, PTL

\* The core loop never ends by itself.
THEOREM CoreEndsWhenStopped == LSpec => EndsOnlyWhenStopped
<1>1. StopInv /\ [LNext]_lvars
        => [core = "test" /\ core' = "ended"
              => noticed \/ main \in {"notifying", "joining"}]_lvars
  <2> SUFFICES ASSUME StopInv, LNext, core = "test", core' = "ended"
               PROVE  noticed \/ main \in {"notifying", "joining"}
    OBVIOUS
  <2>1. ~g_running
    BY DEF LNext, MainStep, CoreStep, Start, ServerReturns, ClearRunning, NotifyCore, Join,
           Begin, TestRunning, TakeEvent, HandleEvent, FinishRound, AnyPush,
           server_core_shutdown, threads, StopInv, ThreadsOK
  <2> QED
    BY <2>1 DEF StopInv, ClearedByStop
<1> QED
  BY <1>1, StopInvHolds, PTL DEF LSpec, EndsOnlyWhenStopped
=============================================================================
