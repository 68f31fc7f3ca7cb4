# A verification of the elevator server

TLA+ modules, TLC runs and TLAPS proofs about the elevator server of this
repository (C, two threads: a core loop that moves the cars and a network
thread that takes calls). Paths below are relative to the repository.
`PROJECT.json` lists the runs, the mutants each property is tried on, the source
lines of every definition, the findings, the hazards and the theorems.

## 1. The system

`main.c` initialises the core, starts its thread, and serves the network until
the server ends.

| component | state | operations | talks to |
|---|---|---|---|
| **elevator** `src/core/elevator.[ch]` | per car: floor, target, task state, door timer, direction, three flag arrays; `g_accum_time` | `Elevator_step` (a state machine, once per tick), `elevator_add_request_flag`, `pick_next_target_flag`, `Elevator_init` | called by the core loop and the scheduler |
| **request_queue** `src/core/request_queue.[ch]` | ring of 256 pending hall calls | init, push, pop, peek, clear | used by server_core (push) and scheduler (pop, push back) |
| **scheduler** `src/core/scheduler.[ch]` | none | `Scheduler_Process`: up to 8 × `try_assign_one`: an idle car by distance and load, else the cheapest by `estimate_cost` | reads the cars, sets their flags |
| **server_core** `src/core/server_core.[ch]` | the cars, the pending queue, `g_running`, the thread handle | the core loop: all events, the scheduler, a step of every car, sleep 100 ms; init, start, stop, join | server_events, scheduler, elevator |
| **server_events** `src/core/server_events.[ch]` | linked list, count, shutdown flag, mutex, condition variable | push (outside, inside, guard), try_pop, pop, shutdown | between the two threads |
| **remote_server** `src/network/` | table of clients with roles, input buffers; time of the last broadcast | the select loop: accept, receive, cut lines, handle commands, broadcast | pushes events; reads the cars for STATUS and broadcasts |
| **platform** `src/core/platform*` | – | mutex, condition variable, thread, sleep, sockets | everyone |
| **guard_client**, **interactive_client** | one socket | menu, send a command, print one `recv` | remote_server over TCP |

Also in the repository: `DEPRECATED/` (an earlier simulator and its test,
written against interfaces that no longer exist and not built) and build scripts.

**What is hard here.** (1) The car is a state machine whose request flags are
set by others between any two of its steps and cleared in two different places
(arrival, and driving off); whether a call is served or merely forgotten depends
on the tick it arrives in. (2) Starvation and parking: the choice of the next
target must look everywhere, whatever calls keep coming. (3) A hall call passes
through three containers (event list, pending queue, car) and two of them have
limits. (4) Travel time accumulates in doubles and is compared with one second.
(5) Two threads: start and stop race for `g_running`; the network thread reads
the cars without a lock. (6) The client table is compacted while it is swept,
lines are cut from TCP chunks whose borders fall anywhere, a buffer that would
overflow is emptied, and a `send` that blocks blocks everybody.

**What makes each component correct.**

- elevator: never moves with an open door, travels only towards somebody who
  waits, stops only there, forgets a request only where it could be honoured,
  starves nobody, and rests only when nobody waits elsewhere.
- request_queue: first in first out, refuses and says so when full.
- scheduler: a call waits only when every car is busy and full or the limit per
  tick is reached, and gets a car in the end.
- server_core: an accepted call is in exactly the places it was passed to until
  a car leaves its floor; only buttons that were pressed light.
- server_events: events come out once and in the order accepted, every node is
  freed once, nobody sleeps on work, and the shutdown releases everybody.
- lifecycle: a stop that was queued ends the core thread, however late that
  starts; it never ends otherwise; `main` returns; accepted events reach the core.
- remote_server: to each client it behaves as if that client were alone: one answer
  per command, in order, from its role's repertoire, however its bytes are split and
  whoever else disconnects; no accepted client drops out of the table; nobody select
  reported is passed over; no `recv` blocks; and as long as sends return, whoever select
  watches is served in the end.

## 2. Modules

| module | models | how it corresponds |
|---|---|---|
| `ElevatorState` | the `Elevator` struct and all of `elevator.c` | operators from one struct value to the next, no variables: `Elevator_step(e, due)` is one call; the flag arrays are sets of floors; the car's entry of `g_accum_time` is a field; times are counted in ticks |
| `Elevator` | one car | `Press` is any `elevator_add_request_flag`, with floors outside the shaft too; `Tick` is one step |
| `ElevatorService` | (abstract) what a car promises | five actions over floor, door and buttons |
| `HallCalls` | `Elevator` with history | `unanswered`, `known`: calls whose door has not opened yet, and those the car knew of when it set out |
| `RequestQueue` | `request_queue.c` | one action per function, with the result the caller sees |
| `BoundedQueue` | (abstract) first-in first-out queue with refusal | implemented by `RequestQueue`; its push is the one `Dispatch` uses |
| `ServerEvents` | `server_events.c` | one action per critical section of `g_mutex`; nodes with `next` links, `g_head`, `g_tail`, `g_count`; waiting and being woken on `g_cond` |
| `EventQueue` | (abstract) a queue that can be closed | implemented by `ServerEvents`; the sequence `events` of `Dispatch` |
| `Dispatch` | core loop, event handling, scheduler, all cars | one action per event type, per round of `try_assign_one`, and one for stepping the cars; `PushEvent` (network thread) may come between any two |
| `ServerLifecycle` | `main.c`; init, start, stop, join, shutdown and the skeleton of the core loop in `server_core.c`, with `platform_thread_*` | extends `ServerEvents`; a program counter per thread; every access to `g_running` is a step of its own |
| `Protocol` | `handle_client_command` | operators: the role and the watching after a command, and its possible answers |
| `RemoteServer` | `remote_server.c` and the programs at the other end | `pc` is the place in the loop; one action for select with accept, one per `recv`, per removal, per line cut, per broadcast line; per client the connection's state, the bytes under way and the lines not read; `guard_client` with its one `recv` per command |
| `ClientSession` | (abstract) what the server promises one client | implemented by `RemoteServer` for every socket at once (`SessionsKept`) |
| `MCHallCalls`, `MCDispatch`, `MCRemoteServer` | values of constants for TLC | |
| `ElevatorStateProofs`, `ElevatorProofs`, `ServerEventsProofs`, `ServerLifecycleProofs`, `DispatchProofs`, `RemoteServerProofs`, `RequestQueueProofs`, `HallCallsProofs` | theorems | section 4 |

Abstractions worth knowing:

- *Time.* One floor takes `FloorTicks` additions of dt, and the comparison
  `g_accum_time >= time_per_floor` is a free choice exactly where the exact sum
  equals a floor (`FloorDue`), because sums of 0.1 in doubles lie on either side.
  The door's `DoorTicks` is the number of subtractions until `door_timer_s <= 0`:
  11 in the build.
- *Cost.* `estimate_cost` is exact, in units of 1/(2·MAX_FLOORS). Different exact
  values are far enough apart for doubles to keep their order; equal sums of
  different terms may be ordered either way (`Cheapest`). The deduction for an
  idle car is left out since costs are only compared when no car is idle.
- *Memory.* `calloc` returns any free node, or none at any call. A freed node's
  fields are reset; `EveryNodeHasOneOwner` says that nobody reaches one.
- *Condition variable.* A signal wakes one of the threads waiting, and a thread may
  wake without one. `server_events_pop` has no caller in this build (the core loop uses
  `try_pop`); it is modelled for the threads it is offered to.
- *Request ids* (`source_id`, `client_id`, `to_floor`) decide nothing and are left out.
- *Atomicity.* Handling one event, one `try_assign_one` and the steps of all cars
  are one action each: only the core thread touches this data, except for the
  event list, whose operations hold its mutex, and the unlocked reads for STATUS
  (not modelled, they change nothing).
- *Threads.* The core thread is one of the consumers of `ServerEvents`. A round's work
  on the cars, the scheduler and the sleep is `FinishRound`; `Dispatch` is about what
  happens in it. When no thread can be created, start succeeds all the same and the
  join finds nothing to wait for (`Start` with core "ended").
- *Bytes.* A command is one character and its arguments are part of it ("CALL",
  "CALL bad"); CR and LF are characters of their own. Where recv cuts, where lines end,
  what an overflow discards and what is left for the next recv is modelled character
  by character; which line of text an answer prints is one value per kind. NUL bytes in
  a client's text, which would end it early, are left out.
- *Sockets.* A send is kept in `mail` until the client reads, all of it or its oldest
  lines; with `SNDBUF` lines unread the network thread waits in `send` (the action is
  disabled). A send to a client that has gone is lost. `accepted` is what the system keeps
  for the server: the sockets `accept` returned and `closesocket` did not close, whatever
  the table says. `accept` never fails, and select's failure is `ServerReturns`. Client ids and a button's floor decide nothing and are left out.
- *Fused steps.* Building the set, select and the one accept are one action, since
  only the network thread touches the table and a client that connects meanwhile may
  as well have done so after; what has arrived later is seen next time. `STATUS` and a
  broadcast to one client are one line "status" instead of one per car.
- *Careless clients.* A line that leaves less room in the buffer than one `recv` may
  return can be thrown away with what came with it (l. 389-393); a client that
  mixes `LF` and `CR LF` gets its lines cut by how TCP splits them (l. 398); and of two commands
  on one line the second is read as an argument of the first. Who sends nothing of the kind is
  `Careful`; `ClientSession` lets the others, and nobody else, lose commands of their own. With the
  build's 1024 and 511, lines of up to 511 bytes are always safe.
- *Guard events* have a handler but no caller of `server_events_push_guard` in
  this build; the handler is modelled and the runs push such events anyway.
- *Dead code.* `DOOR_CLOSING` and `ERROR` are never assigned (an invariant,
  `StatesReached`); the case of the former is translated all the same.

## 3. Runs

| run | instance | shows |
|---|---|---|
| `liveness` | 3 floors, floor 2 ticks, door 2 ticks, two hall calls watched, fair ticks | one car: `TypeOK`; `TripHasPurpose`; `StopsAtTarget`; `LittleTimeLeftOver`; `ParksOnlyWhenDone`; it implements `ElevatorService`; `KnownCallsKept`: no call known at departure is erased before a door opens for it; `InsideServed`, `HallAnswered`, `KnownCallsAnswered` under endless other presses |
| `request_queue` | 3 slots, 2 requests | cursors agree; the ring implements the bounded queue |
| `server_events` | 4 nodes, 2 events, 2 consumers | list and ownership, `NoLostWakeup`, implements `EventQueue`, `ShutdownReleases` |
| `dispatch` | 3 floors, 2 cars, 10 kinds of event, any 3 pushed | every car sound, only pressed buttons lit, no call lost on its way |
| `dispatch_full` | 3 floors, 1 car that can be full, 4 pushed, fair loop | calls wait only when they must, get a car, and are reached |
| `lifecycle` | 3 nodes, 2 events, fair threads | `StopIsNotLost`, `EndsOnlyWhenStopped`, `StopReturns`, `EventsReachCore`, with late starts and no memory for the notice |
| `remote_server` | 2 clients in 4 setups, buffer of 8, recv of 4, 3 lines unread, fair loop | `TableMatchesSockets`, `SweepMissesNobody`, `RecvNeverBlocks`, implements `ClientSession`, `GuardNotFarBehind`, `EveryoneServed`, `GuardAnswered` |
| `forgotten_call` | 3 floors | violated: a call is erased without a door having opened (finding 1) |
| `same_floor_call` | 3 floors, fair | violated: an idle car ignores its own floor (finding 2) |
| `dropped_call` | pending queue of 1, 2 calls | violated: an accepted call is dropped (finding 3) |
| `endless_trips` | 4 floors, 2 cars, fair | violated: a car commutes for ever between two hall calls (finding 4) |
| `guard_status` | the clients of `remote_server` | violated: the guard client's `STATUS` is not answered with a status (finding 5) |

**Bounds.** Three floors have both ends and a floor that is passed, with requests ahead
and behind it; the history of two hall calls on top is what keeps the run of one car to three,
and its safety properties are proved for any shaft. `FloorTicks = 2` is the least
that separates a tick from a floor and makes the comparison's two outcomes
differ; `DoorTicks` of 1 or 2 gives a door that closes at once or counts down. No
bound limits the number of presses in the one-car runs: their state spaces are
finite. In `Dispatch` `MaxEvents` bounds the events pushed in all; three suffice
for two calls and a passenger that sends two cars apart, four to fill a car
(`MAX_REQUESTS = 3`, smaller only in `dropped_call`) and leave a call over.
A `MAX_REQUESTS` below three would be unlike the build: the two calls of a
commuting car (finding 4) would fill it for ever, which 256 cannot be.

In `server_events` the nodes bound everything: four give a list with a head, a
tail and one between while a consumer holds another; two consumers are the least for a stolen
wake-up.

In `lifecycle` three nodes let a notice stand before, between or behind two events, or
find no memory; what a race for `g_running` needs is interleaving, not size.

In `remote_server` the buffer holds six characters and the NUL, with 4 per `recv`: two commands
with `CR LF` fill it, a cut falls inside a line and between `CR` and `LF`, and one long line
overflows it. `SNDBUF = 3` lets the two lines of a greeting and one answer wait unread, so
that sends block. Two clients are the least for a table that moves up under the sweep and
for a client that takes another's place. The setups, chosen in `Init`: two clients that
declare themselves guards and watch, or send an empty line, mixed line ends, two commands
on a line, or too long a line; one guard client beside a watcher, with room for both, with room for one (the other is
turned away and may come again), and with room for both in the table but for one in
select's set. `MaxSends` bounds the sends over one connection, not the connections.

**Deadlock** is checked in every run: neither loop stops for good in these models
while anybody can still act.

**Fairness** is weak fairness of the core loop (`Tick`, `core_thread_fn`, `CoreStep`),
of `main` outside serving, of the network loop, and in `ServerEvents` of a woken
thread's getting the mutex back. The core thread loops until `g_running` is cleared, blocks on nothing but
a mutex held for a few instructions, and sleeps 100 ms. The network thread
waits in select for a bounded time, and in `send` for as long as its reader likes. Nobody is
obliged to read: `interactive_client` reads after its user has typed a line, and may leave watch
mode while the server streams to it. So `EveryoneServed` and `GuardAnswered` do not
assume that clients read; they start from `SendsReturn`, that no client leaves the thread in
a send for ever, and say nothing of a server whose send never returns (l. 77: that is what one
client that stops reading does to all the others). The one reader with fairness is `guard_client`
in the `recv` that follows each of its commands. Passengers and clients are otherwise never
obliged to act, and `run_remote_server` may serve for ever.
Events that arrive faster than the loop empties the list would keep it in its
first phase; the bound `MaxEvents` excludes that, and so does the 100 ms round.

**Findings** (details in `PROJECT.json`).

1. `elevator.c:296-303` erases the call of a floor it drives off from, although
   the door may never have opened there; what does hold is `KnownCallsKept`.
2. `elevator.c:353`: the pick never returns the own floor, so the test of
   `TASK_PREPARE` for it (l. 260) is dead and a parked car ignores a call for where it is.
   `InsideServed` and `HallAnswered` therefore except a parked car.
3. `server_core.c:89` ignores the full queue; `CallsEndInACar` says that this is
   the only place where a call is lost.
4. `elevator.c:345`: arrival leaves hall calls; a down call below an up call
   keeps a car commuting between them.
5. `guard_client.c:121` sends `STATUS` for "Show elevator status" without having declared a
   role: the server answers "Please declare role", and "UNKNOWN_CMD" once a `CALL` has made
   the client a button. What its answers do keep is `GuardNotFarBehind` and `GuardAnswered`.

**Behaviours worth knowing** that are not findings; where a property excepts one, it says so:

- `FD_SETSIZE` is 64 on Windows unless defined otherwise, and so is `MAX_CLIENTS`; the listening
  socket takes a place, so the last client of a full table is not read until
  another leaves (`remote_server.c:354`). `EveryoneServed` is about the clients select watches.
- When `server_events_shutdown` finds no memory for its event (`server_events.c:44`) and
  the core thread sets `g_running` only after it was cleared (`server_core.c:173`), the join
  waits for ever, against `server_core.h:47` ("Stop core loop and join the thread") and
  `server_core.h:53-55` ("causes the core loop to exit gracefully"). `StopIsNotLost` (`noticed`) and
  `StopReturns` (`StopSeen`) except exactly this, and say that nothing else keeps the join waiting.
- The greeting is two lines and `guard_client` reads once per command, so what it prints may
  belong to an earlier command: `GuardNotFarBehind` says by how much.
- A client whose lines are too long, end differently or hold two commands (`careless`) may lose
  commands of its own, and `SessionsKept` lets it; it still must not cost any other client one.
- `CALL` with unusable arguments also turns an undeclared client into a button for good
  (`remote_server.c:168`).
- `INSIDE` for a car that does not exist is answered OK and ignored by the core loop.
- `interactive_client` may leave watch mode while the server goes on streaming to it; when the
  buffers on the way are full, the next broadcast holds up everybody (`SendsReturn`).

Each property of a passing run was tried on a mutant of the code it is about (`"mutants"`):
a faulty variant of a definition, kept next to it in its module, under which TLC
finds the property violated.

## 4. Proofs

Those about cars hold for any `NumFloors >= 2`, `FloorTicks >= 2`, `DoorTicks >= 1`
(`ConstantsAssumption`: every car starts on floor 1; a tick is shorter than a floor)
and, for `Dispatch`, any number of cars, queue sizes and events (see its `EventsAssumption`).

- `CarInv(e)` is the inductive invariant of a car: its type, no unreachable state,
  `Purposeful`, `StoppedAtTarget`, `LittleLeftOver`. None of the last three is
  inductive alone: a stop is at its target because the trip was purposeful, and a
  trip stays purposeful because what is cleared on the way is on floors behind the
  car while its target is ahead. `ElevatorStateProofs` has one lemma per case of
  `Elevator_step` (`StepIsSound` collects them) and one for a request set in any state.
- From it, in `ElevatorProofs`: `TypeCorrect`, `TripsHavePurpose`,
  `StopsAreAtTarget`, `LittleTimeIsLeftOver`.
- `ParksWhenDone`: the pick finds a floor whenever a request is on another one
  (`PickLooksEverywhere`, from the existence of lowest and highest floors of a
  nonempty set).
- `CarKeepsService`: `Elevator` implements `ElevatorService`; each case of a step is
  one abstract action or a stutter.
- `KnownCallsAreKept` (`HallCallsProofs`), from `KnownInv`: between a moving car and its target there is
  no known call on the side that passing clears, because the target was the nearest such request
  when the car set out, and a call made since is not known. What is known at the target itself is
  answered by the door that opens there.
- `RingCursorsAgree` and `RingIsQueue` (`RequestQueueProofs`), for a ring of any size, from `RingInv`:
  the slots from `head` on, `count` of them, are the queue, and `tail` is the slot after them. The
  remainder by the size is never computed: a cursor and an offset sum up to less than twice the
  size, so a slot is the sum or the sum less the size (`Slot`, `WrapAround`).
- `NobodySleepsOnWork` (`ServerEventsProofs`), for any finite set of consumers: a push adds an
  event and a woken thread, a taker uses up at most one of each, waiting starts only
  on an empty list.
- `ListTypeCorrect`: the list's count is bounded only because each event in it or with a
  consumer takes a node of its own (`CountInv`).
- `ListStaysIntact`, `NodesHaveOneOwner` and `ListIsQueue` (`ServerEventsProofs`), for any finite set of
  nodes, from `ListInv`: `walk`, the recursive function that follows the links from `g_head`, meets
  `g_count` different nodes and ends at `g_tail`, and every allocated node is on it or with one
  consumer (`Owned`). What the walk is after a step is not shown by induction over its steps but by a
  least counterexample (`LeastNatural`): the first place where the walk and the list it should
  be differ has a place before it where they agree, and one link between. A node added at the
  tail changes no link before it, a node taken from the head moves every place one forward, and
  fields of a node outside the list count for nothing. The queue of the refinement is the type of
  each node on the walk.
- `StopsAreNotLost`, `CoreEndsWhenStopped`, `LifecycleTypeCorrect` (`ServerLifecycleProofs`), for any
  number of nodes, from `StopInv`: an `EVT_SHUTDOWN` in any node was queued by somebody;
  for a thread that is still to start only the list counts, since it will set `g_running`
  (`StopKept`, stronger than the property); and where the core thread may find `g_running` cleared,
  main or a notice cleared it.
- `RemoteServerProofs`, for any clients, texts, table, select set, buffers and `recv` sizes:
  `RemoteTypeCorrect`, `TableIsSound`, `RecvIsReady` and `SweepIsComplete`, from `RemoteInv`. Its heart is
  `SweepSound`: whoever select reported and was not heard yet is in the table at or behind
  the sweep's index, and whoever is there and reported has something to be read. A
  removal keeps it because the table moves up by one and the index stays (`WithoutMovesUp`);
  cutting lines needs `CuttingALine`, that there is a line in the buffer of the client whose turn it is.
  `TableIsSound` compares the table with `accepted`, which knows nothing of it: a client that
  a removal dropped along with the one removed would be accepted and not in the table.
- `SessionsAreKept` (`RemoteServerProofs`): every step of the server or of a client is, for each
  socket, a step `ClientSession` allows or a stutter. `input` of the abstract session is the commands in
  what the client sent and was not cut off yet, its entry's buffer and then the wire (`Uncut`), so a
  `recv` changes nothing but where the text lies (`RecvSteps`) and cutting a line takes its
  commands from the front (`CuttingALineOff`, `CommandsJoin`). `OneSessionMoves` says that nobody else's
  session moves, wherever in the table its entry goes. It needs `TextInv`, inductive with
  `RemoteInv`: a whole line stands only in the buffer lines are being cut from, and what a careful
  client sent stays careful when a line is cut off its front; hence a buffer that overflows belongs to
  a careless client (`CarefulLeavesRoom`), and a careful client's line holds one command
  (`CarefulLineIsSingle`). That the commands of a text in two pieces are those of the pieces is shown
  by `SequenceInduction`, which is about sets of sequences instead of predicates and so within reach.
- `GuardStaysClose` (`RemoteServerProofs`): what is still to come for a guard client, the lines it has
  not read, the answers to its commands and the greeting, is at most two lines at its menu and
  three after a choice (`MenuInv`). The server's steps turn a command into one line or the greeting into
  two (`ServerKeepsMenu`, from the sessions: `SessionsServed`); a choice adds one where there are two, and the
  `recv` after it takes one at least (`ClientKeepsMenu`). Since no command of the menu declares a
  guard, no status comes unasked.
- In `DispatchProofs`: `EveryCarStaysSound`, by the step lemmas of one car, whatever the
  event handler and the scheduler do between two steps; `DispatchTypeCorrect`;
  `CallsWaitOnlyForRoom`: each of the scheduler's two scans finds a car when there is one
  (`IdleCarFound`, `RoomyCarFound`, from the existence of least values), so a round ends early only
  when there is none; and `NoPhantomsEver`, from `GenuineInv`: the events queued, the calls pending
  and the flags of every car stem from what was pushed, and no step of a car adds a flag.
  `CallsOnlyEndInACar`: each action either leaves a call where it is or puts it in the next place in
  the same step, a push fails only on a full queue (never in `PutBack`, which has just made room),
  and of a car's steps only driving off takes a hall call back (`StepKeepsHallCalls`).
  They assume of the events only what the network thread checks before it queues a
  hall call: a floor of the shaft and a direction (`EventsAssumption`).

Every safety property and every refinement that a passing run checks is proved. Only model-checked
are the liveness properties (`InsideServed`, `HallAnswered`, `KnownCallsAnswered`, `ShutdownReleases`,
`StopReturns`, `EventsReachCore`, `PendingCallsAssigned`, `AcceptedCallsReached`, `EveryoneServed`,
`GuardAnswered`), which need fairness and so ENABLED, out of the prover's reach. The five findings are counterexamples of TLC.

## 5. Not modelled

- `Elevator_status_line`, the other formatting, logging, and `publish_state_once` and
  `on_core_status` (never called or registered): text only.
- The fallback of `Elevator_step` for ids without an entry in `g_accum_time`: the core gives every car
  its index. The push-back after a refused flag (`scheduler.c:163`): floors are checked before they are queued.
- The unlocked reads of the cars by the network thread: they change nothing, and what they print
  may mix two ticks; no property of the code says otherwise.
- Opening the listening socket and Winsock, beyond that they may fail (`ServerReturns`); the
  rest of the platform layer, which wraps one library call per function.
- `interactive_client`'s timing (200 ms after a command, streaming until a key): it is one of the programs
  that send lines and may read what comes.
- `DEPRECATED/` and the scripts, which are not part of the server.
