---------------------------- MODULE ServerLifecycle ----------------------------
(***************************************************************************)
(* The life of the server: main of src/main.c starts the core thread of    *)
(* src/core/server_core.c, serves the network, and stops and joins it.     *)
(* Both threads write g_running, and the event list of ServerEvents lies   *)
(* between them.  What a round of the core loop does to the cars is        *)
(* Dispatch's subject.                                                     *)
(*                                                                         *)
(* BeginUnset and HandleIgnoringShutdown are faulty variants that          *)
(* PROJECT.json names as mutants.                                          *)
(***************************************************************************)
EXTENDS ServerEvents

CONSTANT Core   \* the core thread, as a consumer of events

ASSUME CoreAssumption == Core \in Consumers

VARIABLES
  main,       \* where the main thread is: "init", "serving", "stopping", "notifying",
              \* "joining", "exited"
  core,       \* where the core thread is: "none", "created", "test" (of g_running),
              \* "events" (process_incoming_events_once) or "ended"
  g_running,
  noticed     \* an EVT_SHUTDOWN was queued at some time, a history

threads == <<main, core, g_running, noticed>>
lvars   == <<vars, threads>>

\* server_core_init
LInit ==
  /\ Init
  /\ main = "init" /\ core = "none" /\ g_running = FALSE /\ noticed = FALSE

-----------------------------------------------------------------------------
(* The main thread *)

\* server_core_start.  When the system creates no thread the handle is not NULL
\* all the same, start succeeds, and there is nothing to join.
Start ==
  /\ main = "init" /\ main' = "serving"
  /\ core' \in {"created", "ended"}
  /\ UNCHANGED <<vars, g_running, noticed>>

\* run_remote_server returns: at once without a socket to listen on, or when
\* select fails.
ServerReturns ==
  /\ main = "serving" /\ main' = "stopping"
  /\ UNCHANGED <<vars, core, g_running, noticed>>

\* server_core_stop, its three steps.
ClearRunning ==
  /\ main = "stopping" /\ main' = "notifying"
  /\ g_running' = FALSE
  /\ UNCHANGED <<vars, core, noticed>>

NotifyCore ==
  /\ main = "notifying" /\ main' = "joining"
  /\ Shutdown
  /\ noticed' = (noticed \/ allocated' # allocated)
  /\ UNCHANGED <<core, g_running>>

\* platform_thread_join; server_core_join then finds no handle, and main returns.
Join ==
  /\ main = "joining" /\ core = "ended"
  /\ main' = "exited"
  /\ UNCHANGED <<vars, core, g_running, noticed>>

MainStep == Start \/ ServerReturns \/ ClearRunning \/ NotifyCore \/ Join

-----------------------------------------------------------------------------
(* The core thread *)

BeginUnset ==
  /\ core = "created" /\ core' = "test"
  /\ UNCHANGED <<vars, main, g_running, noticed>>

\* The thread's first statement.
Begin ==
  /\ core = "created" /\ core' = "test"
  /\ g_running' = TRUE
  /\ UNCHANGED <<vars, main, noticed>>

TestRunning ==
  /\ core = "test"
  /\ core' = IF g_running THEN "events" ELSE "ended"
  /\ UNCHANGED <<vars, main, g_running, noticed>>

TakeEvent == core = "events" /\ Take(Core) /\ UNCHANGED threads

HandleIgnoringShutdown ==
  /\ core = "events" /\ Free(Core)
  /\ UNCHANGED <<main, core, g_running, noticed>>

\* One turn of the switch and server_events_free.
HandleEvent ==
  /\ core = "events" /\ Free(Core)
  /\ g_running' = (g_running /\ type[ev[Core]] # EVT_SHUTDOWN)
  /\ UNCHANGED <<main, core, noticed>>

\* No event is left: the scheduler, the cars and the sleep, back to the test.
FinishRound ==
  /\ core = "events" /\ ev[Core] = NULL /\ g_count = 0
  /\ core' = "test"
  /\ UNCHANGED <<vars, main, g_running, noticed>>

CoreStep == Begin \/ TestRunning \/ TakeEvent \/ HandleEvent \/ FinishRound

-----------------------------------------------------------------------------
(* Everybody else *)

\* Whoever pushes; in this build the main thread while it serves.
AnyPush == ((\E t \in Event : Push(t)) \/ Refuse) /\ UNCHANGED threads

\* The fast stop the interface offers besides server_core_stop, called once at most.
server_core_shutdown ==
  /\ main # "exited" /\ ~g_shutdown
  /\ Shutdown
  /\ noticed' = (noticed \/ allocated' # allocated)
  /\ UNCHANGED <<main, core, g_running>>

LNext == MainStep \/ CoreStep \/ AnyPush \/ server_core_shutdown

LSpec == LInit /\ [][LNext]_lvars

\* Both threads keep running; only the server's return from serving may never come.
FairLSpec == LSpec /\ WF_lvars(MainStep /\ main # "serving") /\ WF_lvars(CoreStep)

-----------------------------------------------------------------------------
(* Properties *)

LTypeOK ==
  /\ TypeOK
  /\ main \in {"init", "serving", "stopping", "notifying", "joining", "exited"}
  /\ core \in {"none", "created", "test", "events", "ended"}
  /\ g_running \in BOOLEAN /\ noticed \in BOOLEAN

\* The core thread has ended, or will see in the list or in g_running that it must.
StopSeen ==
  \/ core = "ended"
  \/ \E n \in allocated : type[n] = EVT_SHUTDOWN
  \/ ~g_running /\ core # "created"

\* Once an EVT_SHUTDOWN was queued the stop cannot get lost, although a thread
\* that starts late overwrites the g_running that server_core_stop cleared.
StopIsNotLost == noticed => StopSeen

\* The core loop ends because somebody asked it to, not because it met a
\* g_running nobody had set yet.
EndsOnlyWhenStopped ==
  [][core = "test" /\ core' = "ended" => noticed \/ main \in {"notifying", "joining"}]_lvars

\* server_core_stop returns and main ends, once the core thread can see the stop.
StopReturns == main = "joining" /\ StopSeen ~> main = "exited"

\* An accepted event is taken by the core thread, unless that has ended.
EventsReachCore == \A n \in Nodes : n \in Listed ~> n \notin Listed \/ core = "ended"
=============================================================================
