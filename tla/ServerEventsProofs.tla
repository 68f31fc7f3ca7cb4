-------------------------- MODULE ServerEventsProofs --------------------------
(***************************************************************************)
(* Type correctness, the count included; that no consumer sleeps while     *)
(* there is work; that the links are the list they should be and every     *)
(* node has one owner; and that the list is a first-in first-out queue.    *)
(* All for any number of consumers, nodes and events.                      *)
(***************************************************************************)
EXTENDS ServerEvents, FiniteSetTheorems, SequenceTheorems, TLAPS

-----------------------------------------------------------------------------
(* Type correctness *)

\* Consumers with an event they have not freed.
Busy == {c \in Consumers : ev[c] # NULL}

\* The count stays below the number of nodes because every event in the list or
\* with a consumer takes one.
CountInv == TypeOK /\ g_count + Cardinality(Busy) <= Cardinality(allocated)

\* The sets counted are finite, before and after a step.
LEMMA CountsAreNumbers ==
  ASSUME TypeOK, allocated' \subseteq Nodes
  PROVE  /\ IsFiniteSet(Busy) /\ Cardinality(Busy) \in Nat
         /\ IsFiniteSet(Busy') /\ Cardinality(Busy') \in Nat
         /\ IsFiniteSet(allocated) /\ Cardinality(allocated) \in Nat
         /\ IsFiniteSet(allocated') /\ Cardinality(allocated') \in Nat
         /\ Cardinality(allocated') <= Cardinality(Nodes) /\ Cardinality(Nodes) \in Nat
<1>1. Busy \subseteq Consumers /\ Busy' \subseteq Consumers
  BY DEF Busy
<1>2. allocated \subseteq Nodes
  BY DEF TypeOK
<1> QED
  BY <1>1, <1>2, EventsAssumption, FS_Subset, FS_CardinalityType

\* A new node at the end of the list, whoever is signalled.
LEMMA AddingKeepsCount ==
  ASSUME CountInv, NEW n \in Nodes \ allocated, NEW t \in Event \cup {EVT_SHUTDOWN},
         AddTail(n, t), ev' = ev
  PROVE  /\ type' \in [Nodes -> Event \cup {EVT_SHUTDOWN, NULL}]
         /\ next' \in [Nodes -> Nodes \cup {NULL}]
         /\ allocated' \subseteq Nodes /\ {g_head', g_tail'} \subseteq Nodes \cup {NULL}
         /\ g_count' \in 0 .. Cardinality(Nodes)
         /\ g_count' + Cardinality(Busy') <= Cardinality(allocated')
<1> USE DEF CountInv, TypeOK
<1>1. allocated' = allocated \cup {n} /\ n \notin allocated /\ g_count' = g_count + 1
  BY DEF AddTail
<1>2. Busy' = Busy
  BY DEF Busy
<1>3. Cardinality(allocated') = Cardinality(allocated) + 1
  BY <1>1, CountsAreNumbers, FS_AddElement
<1>4. g_count \in Nat
  OBVIOUS
<1>5. g_count' + Cardinality(Busy') <= Cardinality(allocated')
  BY <1>1, <1>2, <1>3, <1>4, CountsAreNumbers
<1>6. g_count' \in 0 .. Cardinality(Nodes)
  BY <1>1, <1>2, <1>4, <1>5, CountsAreNumbers
<1>7. type' \in [Nodes -> Event \cup {EVT_SHUTDOWN, NULL}]
  BY DEF AddTail
<1>8. next' \in [Nodes -> Nodes \cup {NULL}] /\ {g_head', g_tail'} \subseteq Nodes \cup {NULL}
  BY DEF AddTail
<1> QED
  BY <1>1, <1>5, <1>6, <1>7, <1>8

\* Pushing, refusing and shutting down.
LEMMA PushKeepsCount ==
  ASSUME CountInv, (\E t \in Event : Push(t)) \/ Refuse \/ Shutdown
  PROVE  CountInv'
<1>1. CASE \E t \in Event : Push(t)
  <2>1. PICK t \in Event : Push(t)
    BY <1>1
  <2>2. PICK n \in Nodes \ allocated : AddTail(n, t)
    BY <2>1 DEF Push
  <2>3. /\ ev' = ev /\ g_shutdown' = g_shutdown /\ answer' = "ok"
        /\ thread' \in [Consumers -> {"running", "waiting", "woken"}]
    BY <2>1 DEF Push, Signal, CountInv, TypeOK
  <2> QED
    BY <2>2, <2>3, AddingKeepsCount DEF CountInv, TypeOK
<1>2. CASE Refuse
  BY <1>2 DEF Refuse, list, CountInv, TypeOK, Busy
<1>3. CASE Shutdown
  <2>1. /\ ev' = ev /\ g_shutdown' = TRUE /\ answer' = answer
        /\ thread' \in [Consumers -> {"running", "waiting", "woken"}]
    BY <1>3 DEF Shutdown, Broadcast, CountInv, TypeOK
  <2>2. CASE \E n \in Nodes \ allocated : AddTail(n, EVT_SHUTDOWN)
    BY <2>1, <2>2, AddingKeepsCount DEF CountInv, TypeOK
  <2>3. CASE UNCHANGED <<list, allocated>>
    BY <2>1, <2>3 DEF list, CountInv, TypeOK, Busy
  <2> QED
    BY <1>3, <2>2, <2>3 DEF Shutdown
<1> QED
  BY <1>1, <1>2, <1>3

\* A consumer that takes an event is busy with it.
LEMMA TakeKeepsCount ==
  ASSUME CountInv, NEW c \in Consumers, Take(c)
  PROVE  CountInv'
<1> USE DEF CountInv, TypeOK
<1>1. /\ ev[c] = NULL /\ ev' = [ev EXCEPT ![c] = g_head] /\ g_head \in Nodes
      /\ g_count > 0 /\ g_count' = g_count - 1 /\ allocated' = allocated
  BY DEF Take, TakeHead
<1>2. Busy' = Busy \cup {c} /\ c \notin Busy
  BY <1>1, EventsAssumption DEF Busy
<1>3. Cardinality(Busy') = Cardinality(Busy) + 1
  BY <1>1, <1>2, CountsAreNumbers, FS_AddElement
<1>4. g_count' + Cardinality(Busy') <= Cardinality(allocated')
  BY <1>1, <1>3, CountsAreNumbers
<1>5. g_count' \in 0 .. Cardinality(Nodes)
  BY <1>1, CountsAreNumbers
<1>6. /\ next[g_head] \in Nodes \cup {NULL}
      /\ type' = type /\ next' \in [Nodes -> Nodes \cup {NULL}]
      /\ {g_head', g_tail'} \subseteq Nodes \cup {NULL}
      /\ g_shutdown' = g_shutdown /\ answer' = answer
      /\ thread' \in [Consumers -> {"running", "waiting", "woken"}]
      /\ ev' \in [Consumers -> Nodes \cup {NULL}]
  BY <1>1 DEF Take, TakeHead
<1> QED
  BY <1>1, <1>4, <1>5, <1>6

\* A consumer that frees its event is not busy any more.
LEMMA FreeKeepsCount ==
  ASSUME CountInv, NEW c \in Consumers, Free(c)
  PROVE  CountInv'
<1> USE DEF CountInv, TypeOK
<1>1. /\ ev[c] \in Nodes /\ ev' = [ev EXCEPT ![c] = NULL]
      /\ allocated' = allocated \ {ev[c]} /\ g_count' = g_count
  BY DEF Free
<1>2. Busy' = Busy \ {c} /\ c \in Busy
  BY <1>1, EventsAssumption DEF Busy
<1>3. Cardinality(Busy') = Cardinality(Busy) - 1
  BY <1>1, <1>2, CountsAreNumbers, FS_RemoveElement
<1>4. Cardinality(allocated') >= Cardinality(allocated) - 1
  <2>1. CASE ev[c] \in allocated
    BY <1>1, <2>1, CountsAreNumbers, FS_RemoveElement
  <2>2. CASE ev[c] \notin allocated
    <3>1. allocated' = allocated
      BY <1>1, <2>2
    <3> QED
      BY <3>1, CountsAreNumbers
  <2> QED
    BY <2>1, <2>2
<1>5. g_count' + Cardinality(Busy') <= Cardinality(allocated')
  BY <1>1, <1>3, <1>4, CountsAreNumbers
<1>6. /\ type' \in [Nodes -> Event \cup {EVT_SHUTDOWN, NULL}]
      /\ ev' \in [Consumers -> Nodes \cup {NULL}]
  BY <1>1 DEF Free
<1> QED
  BY <1>1, <1>5, <1>6 DEF Free

\* Waiting and waking up leave the list alone.
LEMMA WaitingKeepsCount ==
  ASSUME CountInv, NEW c \in Consumers, Wait(c) \/ GiveUp(c) \/ SpuriousWakeup(c)
  PROVE  CountInv'
BY DEF Wait, GiveUp, SpuriousWakeup, list, CountInv, TypeOK, Busy

\* Initially nobody has an event.
LEMMA CountInvInitially == Init => CountInv
<1> SUFFICES ASSUME Init
             PROVE  CountInv
  OBVIOUS
<1>1. Busy = {} /\ allocated = {} /\ g_count = 0
  BY DEF Init, Busy
<1>2. Cardinality(Nodes) \in Nat
  BY EventsAssumption, FS_CardinalityType
<1>3. TypeOK
  <2>1. /\ type \in [Nodes -> Event \cup {EVT_SHUTDOWN, NULL}]
        /\ next \in [Nodes -> Nodes \cup {NULL}]
    BY DEF Init
  <2>2. /\ thread \in [Consumers -> {"running", "waiting", "woken"}]
        /\ ev \in [Consumers -> Nodes \cup {NULL}]
    BY DEF Init
  <2>3. /\ {g_head, g_tail} \subseteq Nodes \cup {NULL} /\ allocated \subseteq Nodes
        /\ g_shutdown \in BOOLEAN /\ answer \in {"ok", "error"}
    BY DEF Init
  <2> QED
    BY <1>1, <1>2, <2>1, <2>2, <2>3 DEF TypeOK
<1>4. Cardinality(Busy) = 0 /\ Cardinality(allocated) = 0
  BY <1>1, FS_EmptySet
<1> QED
  BY <1>1, <1>3, <1>4 DEF CountInv

\* No field of server_events.c leaves its range, and g_count is never more than
\* the nodes there are, through any sequence of pushes, takes, frees and shutdowns.
THEOREM ListTypeCorrect == Spec => []TypeOK
<1>1. CountInv /\ [Next]_vars => CountInv'
  <2> SUFFICES ASSUME CountInv, [Next]_vars
               PROVE  CountInv'
    OBVIOUS
  <2>1. CASE UNCHANGED vars
    BY <2>1 DEF vars, CountInv, TypeOK, Busy
  <2> QED
    BY <2>1, PushKeepsCount, TakeKeepsCount, FreeKeepsCount, WaitingKeepsCount
       DEF Next, Consume
<1>2. CountInv => TypeOK
  BY DEF CountInv
<1> QED
  BY <1>1, <1>2, CountInvInitially, PTL DEF Spec

-----------------------------------------------------------------------------
(* Waking up *)

\* What the argument needs to know of the variables' types.
WakeupInv ==
  /\ thread \in [Consumers -> {"running", "waiting", "woken"}]
  /\ g_count \in Nat
  /\ NoLostWakeup

\* The woken threads are finitely many, before and after a step.
LEMMA WokenFinite ==
  /\ IsFiniteSet(Woken) /\ Cardinality(Woken) \in Nat
  /\ IsFiniteSet(Woken') /\ Cardinality(Woken') \in Nat
<1>1. Woken \subseteq Consumers /\ Woken' \subseteq Consumers
  BY DEF Woken
<1> QED
  BY <1>1, EventsAssumption, FS_Subset, FS_CardinalityType

\* A push adds an event and, if anybody waits, a woken thread to go with it.
LEMMA PushKeepsWakeups ==
  ASSUME WakeupInv, NEW t, Push(t)
  PROVE  WakeupInv'
<1>1. g_count' = g_count + 1 /\ ~g_shutdown /\ g_shutdown' = g_shutdown
  BY DEF Push, AddTail
<1>2. CASE Waiting = {}
  <2>1. thread' = thread
    BY <1>2 DEF Push, Signal
  <2> QED
    BY <1>1, <1>2, <2>1 DEF WakeupInv, NoLostWakeup, Waiting, Woken
<1>3. CASE Waiting # {}
  <2>1. PICK c \in Waiting : thread' = [thread EXCEPT ![c] = "woken"]
    BY <1>3 DEF Push, Signal
  <2>2. c \in Consumers /\ thread[c] = "waiting"
    BY DEF Waiting
  <2>3. Woken' = Woken \cup {c} /\ c \notin Woken
    BY <2>1, <2>2 DEF Woken, WakeupInv
  <2>4. Cardinality(Woken') = Cardinality(Woken) + 1
    BY <2>3, WokenFinite, FS_AddElement
  <2>5. g_count' <= Cardinality(Woken')
    BY <1>1, <1>3, <2>4, WokenFinite DEF WakeupInv, NoLostWakeup
  <2>6. thread' \in [Consumers -> {"running", "waiting", "woken"}]
    BY <2>1 DEF WakeupInv
  <2> QED
    BY <1>1, <2>5, <2>6 DEF WakeupInv, NoLostWakeup
<1> QED
  BY <1>2, <1>3

\* Taking an event uses up at most one woken thread.
LEMMA TakeKeepsWakeups ==
  ASSUME WakeupInv, NEW c \in Consumers, Take(c)
  PROVE  WakeupInv'
<1>1. /\ g_count > 0 /\ g_count' = g_count - 1
      /\ thread[c] # "waiting" /\ thread' = [thread EXCEPT ![c] = "running"]
      /\ g_shutdown' = g_shutdown
  BY DEF Take, TakeHead
<1>2. Waiting' = Waiting /\ Woken' = Woken \ {c}
  BY <1>1 DEF Waiting, Woken, WakeupInv
<1>3. Cardinality(Woken') >= Cardinality(Woken) - 1
  <2>1. CASE c \in Woken
    BY <1>2, <2>1, WokenFinite, FS_RemoveElement
  <2>2. CASE c \notin Woken
    <3>1. Woken' = Woken
      BY <1>2, <2>2
    <3> QED
      BY <3>1, WokenFinite
  <2> QED
    BY <2>1, <2>2
<1>4. thread' \in [Consumers -> {"running", "waiting", "woken"}]
  BY <1>1 DEF WakeupInv
<1>5. g_count' \in Nat
  BY <1>1 DEF WakeupInv
<1> QED
  BY <1>1, <1>2, <1>3, <1>4, <1>5, WokenFinite DEF WakeupInv, NoLostWakeup

\* A thread only starts to wait when there is nothing, and waking up without a
\* signal adds a woken thread.
LEMMA WaitingKeepsWakeups ==
  ASSUME WakeupInv, NEW c \in Consumers,
         Wait(c) \/ GiveUp(c) \/ SpuriousWakeup(c) \/ Free(c)
  PROVE  WakeupInv'
<1>1. g_count' = g_count /\ g_shutdown' = g_shutdown
  BY DEF Wait, GiveUp, SpuriousWakeup, Free, list
<1>2. thread' \in [Consumers -> {"running", "waiting", "woken"}]
  BY DEF Wait, GiveUp, SpuriousWakeup, Free, WakeupInv
<1>3. CASE Wait(c)
  BY <1>1, <1>2, <1>3, WokenFinite DEF Wait, WakeupInv, NoLostWakeup
<1>4. CASE GiveUp(c)
  <2>1. Waiting = {}
    BY <1>4 DEF GiveUp, WakeupInv, NoLostWakeup
  <2>2. Waiting' = {}
    BY <1>4, <2>1 DEF GiveUp, Waiting, WakeupInv
  <2> QED
    BY <1>1, <1>2, <2>2 DEF WakeupInv, NoLostWakeup
<1>5. CASE SpuriousWakeup(c)
  <2>1. c \in Waiting /\ Woken \subseteq Woken'
    BY <1>5 DEF SpuriousWakeup, Waiting, Woken, WakeupInv
  <2>2. Cardinality(Woken) <= Cardinality(Woken')
    BY <2>1, WokenFinite, FS_Subset
  <2> QED
    BY <1>1, <1>2, <2>1, <2>2, WokenFinite DEF WakeupInv, NoLostWakeup
<1>6. CASE Free(c)
  <2>1. thread' = thread
    BY <1>6 DEF Free
  <2> QED
    BY <1>1, <2>1 DEF WakeupInv, NoLostWakeup, Waiting, Woken
<1> QED
  BY <1>3, <1>4, <1>5, <1>6

\* While a thread waits in server_events_pop, every event in the list has a woken
\* thread of its own, and after the shutdown nobody waits.
THEOREM NobodySleepsOnWork == Spec => []NoLostWakeup
<1>1. Init => WakeupInv
  BY DEF Init, WakeupInv, NoLostWakeup, Waiting
<1>2. WakeupInv /\ [Next]_vars => WakeupInv'
  <2> SUFFICES ASSUME WakeupInv, [Next]_vars
               PROVE  WakeupInv'
    OBVIOUS
  <2>1. CASE \E t \in Event : Push(t)
    BY <2>1, PushKeepsWakeups
  <2>2. CASE Refuse \/ UNCHANGED vars
    <3>1. thread' = thread /\ g_count' = g_count /\ g_shutdown' = g_shutdown
      BY <2>2 DEF Refuse, list, vars
    <3> QED
      BY <3>1 DEF WakeupInv, NoLostWakeup, Waiting, Woken
  <2>3. CASE Shutdown
    <3>1. Waiting' = {} /\ thread' \in [Consumers -> {"running", "waiting", "woken"}]
      BY <2>3 DEF Shutdown, Broadcast, Waiting, WakeupInv
    <3>2. g_count' \in Nat
      BY <2>3 DEF Shutdown, AddTail, list, WakeupInv
    <3> QED
      BY <3>1, <3>2 DEF WakeupInv, NoLostWakeup
  <2>4. CASE \E c \in Consumers : Consume(c)
    BY <2>4, TakeKeepsWakeups, WaitingKeepsWakeups DEF Consume
  <2> QED
    BY <2>1, <2>2, <2>3, <2>4 DEF Next
<1>3. WakeupInv => NoLostWakeup
  BY DEF WakeupInv
<1> QED
  BY <1>1, <1>2, <1>3, PTL DEF Spec

-----------------------------------------------------------------------------
(* Walking the list.  walk is a recursive function; what holds of the first m   *)
(* nodes for every m is shown by looking at the least m for which it would fail. *)

\* A set of numbers has a least one.
LEMMA LeastNatural ==
  ASSUME NEW S \in SUBSET Nat, S # {}
  PROVE  \E x \in S : \A y \in S : x <= y
<1>1. PICK x \in S : \A y \in S : ~(<<y, x>> \in OpToRel(<, Nat))
  BY NatLessThanWellFounded, WFMin
<1>2. \A y \in S : ~(y < x)
  BY <1>1 DEF OpToRel
<1>3. \A y \in S : x <= y
  BY <1>2
<1> QED
  BY <1>3

\* w are the n nodes from head on along the links nx.
IsWalk(w, head, nx, n) ==
  w = [i \in 1 .. n |-> IF i = 1 THEN head
                        ELSE IF w[i - 1] \in Nodes THEN nx[w[i - 1]] ELSE NULL]

\* There is one of every length.
LEMMA WalkExists ==
  ASSUME NEW head, NEW nx, NEW n \in Nat
  PROVE  \E w : IsWalk(w, head, nx, n)
<1> DEFINE None == {m \in Nat : ~ \E w : IsWalk(w, head, nx, m)}
<1>1. SUFFICES ASSUME None # {}
               PROVE  FALSE
  OBVIOUS
<1>2. PICK m \in None : \A k \in None : m <= k
  <2>1. None \in SUBSET Nat
    OBVIOUS
  <2> QED
    BY <1>1, <2>1, LeastNatural
<1>3. m # 0
  <2>1. IsWalk([i \in 1 .. 0 |-> NULL], head, nx, 0)
    BY DEF IsWalk
  <2> QED
    BY <1>2, <2>1
<1>4. m - 1 \in Nat /\ m - 1 \notin None
  BY <1>2, <1>3
<1>5. PICK w : IsWalk(w, head, nx, m - 1)
  BY <1>4
<1> DEFINE After(x) == IF x \in Nodes THEN nx[x] ELSE NULL
           v == [i \in 1 .. m |-> IF i = 1 THEN head ELSE After(w[i - 1])]
<1>6. \A i \in 1 .. m - 1 : w[i] = v[i]
  BY <1>2, <1>4, <1>5 DEF IsWalk
<1>7. IsWalk(v, head, nx, m)
  <2>1. \A i \in 1 .. m : i = 1 \/ i - 1 \in 1 .. m - 1
    BY <1>2, <1>4
  <2>2. \A i \in 1 .. m : v[i] = IF i = 1 THEN head ELSE After(v[i - 1])
    BY <1>6, <2>1
  <2> QED
    BY <2>2 DEF IsWalk
<1> QED
  BY <1>2, <1>7

\* What the definition of walk says of it, before and after a step.
LEMMA WalkIsWalk ==
  ASSUME g_count \in Nat, g_count' \in Nat
  PROVE  /\ IsWalk(walk, g_head, next, g_count)
         /\ IsWalk(walk', g_head', next', g_count')
<1>1. walk = CHOOSE w : IsWalk(w, g_head, next, g_count)
  BY DEF walk, IsWalk
<1>2. walk' = CHOOSE w : IsWalk(w, g_head', next', g_count')
  BY DEF walk, IsWalk
<1> QED
  BY <1>1, <1>2, WalkExists

\* A walk starts at the head and follows the links.
LEMMA WalkFollowsLinks ==
  ASSUME NEW w, NEW head, NEW nx, NEW n \in Nat, IsWalk(w, head, nx, n)
  PROVE  /\ n > 0 => w[1] = head
         /\ \A i \in 1 .. n - 1 : w[i + 1] = IF w[i] \in Nodes THEN nx[w[i]] ELSE NULL
<1>1. \A i \in 1 .. n : w[i] = IF i = 1 THEN head
                               ELSE IF w[i - 1] \in Nodes THEN nx[w[i - 1]] ELSE NULL
  BY DEF IsWalk
<1>2. n > 0 => w[1] = head
  BY <1>1
<1>3. ASSUME NEW i \in 1 .. n - 1
      PROVE  w[i + 1] = IF w[i] \in Nodes THEN nx[w[i]] ELSE NULL
  <2>1. i + 1 \in 1 .. n /\ i + 1 # 1 /\ (i + 1) - 1 = i
    OBVIOUS
  <2> QED
    BY <1>1, <2>1
<1> QED
  BY <1>2, <1>3

\* There is only one way to walk.
LEMMA WalksAgree ==
  ASSUME NEW w, NEW head, NEW nx, NEW n \in Nat, IsWalk(w, head, nx, n),
         NEW v, n > 0 => v[1] = head,
         \A i \in 1 .. n - 1 : v[i] \in Nodes /\ v[i + 1] = nx[v[i]]
  PROVE  \A i \in 1 .. n : w[i] = v[i]
<1> DEFINE Off == {i \in 1 .. n : w[i] # v[i]}
<1>1. SUFFICES ASSUME Off # {}
               PROVE  FALSE
  OBVIOUS
<1>2. PICK m \in Off : \A k \in Off : m <= k
  <2>1. Off \in SUBSET Nat
    OBVIOUS
  <2> QED
    BY <1>1, <2>1, LeastNatural
<1>3. m # 1
  BY <1>2, WalkFollowsLinks
<1>4. m - 1 \in 1 .. n - 1 /\ (m - 1) + 1 = m /\ w[m - 1] = v[m - 1]
  <2>1. m - 1 \in 1 .. n - 1 /\ (m - 1) + 1 = m /\ m - 1 \in 1 .. n
    BY <1>2, <1>3
  <2>2. m - 1 \notin Off
    BY <1>2, <2>1
  <2> QED
    BY <2>1, <2>2
<1>5. w[m] = v[m]
  BY <1>4, WalkFollowsLinks
<1> QED
  BY <1>2, <1>5

-----------------------------------------------------------------------------
(* The list and who owns its nodes *)

\* The nodes walked are distinct and not freed, nobody has taken one of them, and no
\* node is taken twice.
Owned ==
  /\ \A i \in 1 .. g_count : walk[i] \in allocated
  /\ \A i, j \in 1 .. g_count : walk[i] = walk[j] => i = j
  /\ \A c \in Consumers : ev[c] # NULL => ev[c] \in allocated /\ ev[c] \notin Listed
  /\ \A c, d \in Consumers : ev[c] = ev[d] /\ ev[c] # NULL => c = d

ListInv == ListIntact /\ Owned /\ allocated = Listed \cup Taken

\* A new node follows those that were listed.
LEMMA AddingLengthensWalk ==
  ASSUME TypeOK, TypeOK', ListInv, NEW n \in Nodes \ allocated, NEW t, AddTail(n, t)
  PROVE  /\ g_count' = g_count + 1 /\ walk'[g_count + 1] = n
         /\ \A i \in 1 .. g_count : walk'[i] = walk[i]
<1> DEFINE v == [i \in 1 .. g_count + 1 |-> IF i = g_count + 1 THEN n ELSE walk[i]]
<1>1. g_count \in Nat /\ g_count' = g_count + 1 /\ g_count' \in Nat
  BY DEF TypeOK, AddTail
<1>2. /\ \A i \in 1 .. g_count : walk[i] \in allocated /\ walk[i] \in Nodes /\ walk[i] # n
      /\ \A i, j \in 1 .. g_count : walk[i] = walk[j] => i = j
  BY DEF ListInv, Owned, TypeOK
<1>3. /\ g_count > 0 => walk[1] = g_head
      /\ \A i \in 1 .. g_count - 1 : walk[i + 1] = next[walk[i]]
  BY <1>1, <1>2, WalkIsWalk, WalkFollowsLinks
<1>4. g_count' > 0 => v[1] = g_head'
  <2>1. CASE g_count = 0
    <3>1. g_head' = n
      BY <2>1 DEF AddTail, ListInv, ListIntact
    <3> QED
      BY <2>1, <3>1
  <2>2. CASE g_count > 0
    <3>1. g_head' = g_head
      BY <2>2 DEF AddTail, ListInv, ListIntact
    <3> QED
      BY <1>1, <1>3, <2>2, <3>1
  <2> QED
    BY <1>1, <2>1, <2>2
<1>5. ASSUME NEW i \in 1 .. g_count' - 1
      PROVE  v[i] \in Nodes /\ v[i + 1] = next'[v[i]]
  <2>1. i \in 1 .. g_count /\ v[i] = walk[i] /\ g_count > 0 /\ i + 1 \in 1 .. g_count + 1
    BY <1>1
  <2>2. /\ next' = [next EXCEPT ![g_tail] = n, ![n] = NULL]
        /\ g_tail = walk[g_count] /\ next \in [Nodes -> Nodes \cup {NULL}]
    BY <2>1 DEF AddTail, ListInv, ListIntact, TypeOK
  <2>3. CASE i = g_count
    BY <1>2, <2>1, <2>2, <2>3
  <2>4. CASE i # g_count
    <3>1. i \in 1 .. g_count - 1 /\ v[i + 1] = walk[i + 1] /\ walk[i] # g_tail
      BY <1>1, <1>2, <2>1, <2>2, <2>4
    <3> QED
      BY <1>2, <1>3, <2>1, <2>2, <3>1
  <2> QED
    BY <2>3, <2>4
<1>6. \A i \in 1 .. g_count' : walk'[i] = v[i]
  <2> HIDE DEF v
  <2>1. IsWalk(walk', g_head', next', g_count')
    BY <1>1, WalkIsWalk
  <2> QED
    BY <1>1, <1>4, <1>5, <2>1, WalksAgree
<1> QED
  BY <1>1, <1>6

\* Without its first node the list is the same from the second on.
LEMMA TakingShortensWalk ==
  ASSUME TypeOK, TypeOK', ListInv, NEW c \in Consumers, TakeHead(c)
  PROVE  /\ g_count' = g_count - 1 /\ g_head = walk[1]
         /\ \A i \in 1 .. g_count - 1 : walk'[i] = walk[i + 1]
<1> DEFINE v == [i \in 1 .. g_count - 1 |-> walk[i + 1]]
<1>1. g_count \in Nat /\ g_count > 0 /\ g_count' = g_count - 1 /\ g_count' \in Nat
  BY DEF TypeOK, TakeHead
<1>2. /\ \A i \in 1 .. g_count : walk[i] \in Nodes
      /\ \A i, j \in 1 .. g_count : walk[i] = walk[j] => i = j
  BY DEF ListInv, Owned, TypeOK
<1>3. /\ walk[1] = g_head
      /\ \A i \in 1 .. g_count - 1 : walk[i + 1] = next[walk[i]]
  BY <1>1, <1>2, WalkIsWalk, WalkFollowsLinks
<1>4. g_count' > 0 => v[1] = g_head'
  BY <1>1, <1>3 DEF TakeHead
<1>5. ASSUME NEW i \in 1 .. g_count' - 1
      PROVE  v[i] \in Nodes /\ v[i + 1] = next'[v[i]]
  <2>1. /\ v[i] = walk[i + 1] /\ v[i + 1] = walk[(i + 1) + 1]
        /\ i + 1 \in 1 .. g_count - 1 /\ i + 1 \in 1 .. g_count /\ i + 1 # 1 /\ 1 \in 1 .. g_count
    BY <1>1
  <2>2. walk[i + 1] # g_head
    BY <1>2, <1>3, <2>1
  <2>3. next' = [next EXCEPT ![g_head] = NULL] /\ next \in [Nodes -> Nodes \cup {NULL}]
    BY DEF TakeHead, TypeOK
  <2> QED
    BY <1>2, <1>3, <2>1, <2>2, <2>3
<1>6. \A i \in 1 .. g_count' : walk'[i] = v[i]
  <2> HIDE DEF v
  <2>1. IsWalk(walk', g_head', next', g_count')
    BY <1>1, WalkIsWalk
  <2> QED
    BY <1>1, <1>4, <1>5, <2>1, WalksAgree
<1> QED
  BY <1>1, <1>3, <1>6

\* A push, and the shutdown that finds memory.
LEMMA AddingKeepsOwners ==
  ASSUME TypeOK, TypeOK', ListInv, NEW n \in Nodes \ allocated, NEW t, AddTail(n, t), ev' = ev
  PROVE  ListInv'
<1>1. /\ g_count \in Nat /\ g_count' = g_count + 1 /\ walk'[g_count + 1] = n
      /\ \A i \in 1 .. g_count : walk'[i] = walk[i]
  BY AddingLengthensWalk DEF TypeOK
<1>2. /\ \A i \in 1 .. g_count : walk[i] \in allocated
      /\ \A i, j \in 1 .. g_count : walk[i] = walk[j] => i = j
      /\ allocated' = allocated \cup {n} /\ n \notin allocated
  BY DEF ListInv, Owned, AddTail
<1>3. \A i \in 1 .. g_count' : i = g_count + 1 \/ i \in 1 .. g_count
  BY <1>1
<1>4. Listed' = Listed \cup {n}
  BY <1>1, <1>3 DEF Listed
<1>5. ListIntact'
  <2>1. g_count' > 0 /\ g_count' # 0 /\ walk'[g_count'] = g_tail' /\ g_tail' = n /\ n # NULL
    BY <1>1, EventsAssumption DEF AddTail
  <2>2. next'[n] = NULL
    BY DEF AddTail, TypeOK
  <2> QED
    BY <2>1, <2>2 DEF ListIntact
<1>6. \A i \in 1 .. g_count' : walk'[i] \in allocated'
  BY <1>1, <1>2, <1>3
<1>7. \A i, j \in 1 .. g_count' : walk'[i] = walk'[j] => i = j
  BY <1>1, <1>2, <1>3
<1>8. Owned'
  BY <1>2, <1>4, <1>6, <1>7 DEF ListInv, Owned
<1>9. allocated' = Listed' \cup Taken'
  BY <1>2, <1>4 DEF ListInv, Taken
<1> QED
  BY <1>5, <1>8, <1>9 DEF ListInv

\* A consumer becomes the owner of the node it takes.
LEMMA TakingKeepsOwners ==
  ASSUME TypeOK, TypeOK', ListInv, NEW c \in Consumers, Take(c)
  PROVE  ListInv'
<1>1. /\ ev[c] = NULL /\ TakeHead(c) /\ allocated' = allocated
      /\ ev' = [ev EXCEPT ![c] = g_head] /\ ev \in [Consumers -> Nodes \cup {NULL}]
  BY DEF Take, TakeHead, TypeOK
<1>2. /\ g_count \in Nat /\ g_count > 0 /\ g_count' = g_count - 1 /\ g_head = walk[1]
      /\ \A i \in 1 .. g_count - 1 : walk'[i] = walk[i + 1]
  <2>1. g_count \in Nat /\ g_count > 0
    BY <1>1 DEF TypeOK, TakeHead
  <2> QED
    BY <1>1, <2>1, TakingShortensWalk
<1>3. /\ \A i \in 1 .. g_count : walk[i] \in allocated /\ walk[i] \in Nodes
      /\ \A i, j \in 1 .. g_count : walk[i] = walk[j] => i = j
  BY DEF ListInv, Owned, TypeOK
<1>4. \A i \in 1 .. g_count' : i + 1 \in 1 .. g_count /\ i + 1 # 1 /\ walk'[i] = walk[i + 1]
  BY <1>2
<1>5. 1 \in 1 .. g_count /\ g_head \in Nodes /\ g_head # NULL /\ g_head \in allocated
  BY <1>2, <1>3, EventsAssumption
<1>6. Listed' = Listed \ {g_head}
  <2>1. ASSUME NEW x \in Listed, x # g_head
        PROVE  x \in Listed'
    <3>1. PICK j \in 1 .. g_count : x = walk[j]
      BY DEF Listed
    <3>2. j # 1 /\ j - 1 \in 1 .. g_count' /\ (j - 1) + 1 = j
      BY <1>2, <2>1, <3>1
    <3> QED
      BY <1>4, <3>1, <3>2 DEF Listed
  <2>2. ASSUME NEW x \in Listed'
        PROVE  x \in Listed /\ x # g_head
    <3>1. PICK j \in 1 .. g_count' : x = walk'[j]
      BY DEF Listed
    <3>2. x = walk[j + 1] /\ j + 1 \in 1 .. g_count /\ j + 1 # 1
      BY <1>4, <3>1
    <3> QED
      BY <1>2, <1>3, <1>5, <3>2 DEF Listed
  <2> QED
    BY <2>1, <2>2
<1>7. ListIntact'
  <2>1. walk[g_count] = g_tail /\ g_tail # NULL /\ next[g_tail] = NULL
    BY <1>2 DEF ListInv, ListIntact
  <2>2. next \in [Nodes -> Nodes \cup {NULL}] /\ next' = [next EXCEPT ![g_head] = NULL]
        /\ g_head' = next[g_head] /\ g_tail' = IF next[g_head] = NULL THEN NULL ELSE g_tail
    BY <1>1 DEF TakeHead, TypeOK
  <2>3. CASE g_count = 1
    <3>1. next[g_head] = NULL
      BY <1>2, <2>1, <2>3
    <3> QED
      BY <1>2, <2>2, <2>3, <3>1 DEF ListIntact
  <2>4. CASE g_count # 1
    <3>1. g_count' > 0 /\ g_count' # 0 /\ g_count' \in 1 .. g_count' /\ g_count' + 1 = g_count
          /\ 1 \in 1 .. g_count - 1 /\ 1 + 1 \in 1 .. g_count
      BY <1>2, <2>4
    <3>2. next[g_head] = walk[1 + 1] /\ walk[1 + 1] # NULL
      <4>1. \A i \in 1 .. g_count - 1 : walk[i + 1] = IF walk[i] \in Nodes THEN next[walk[i]] ELSE NULL
        <5>1. g_count' \in Nat
          BY <1>2
        <5> QED
          BY <1>2, <5>1, WalkIsWalk, WalkFollowsLinks
      <4> QED
        BY <1>2, <1>3, <1>5, <3>1, <4>1, EventsAssumption
    <3>3. walk'[g_count'] = g_tail /\ g_tail' = g_tail /\ g_tail \in Nodes
      BY <1>2, <1>3, <1>4, <2>1, <2>2, <3>1, <3>2
    <3>4. next'[g_tail] = NULL
      BY <2>1, <2>2, <3>3
    <3> QED
      BY <2>1, <3>1, <3>3, <3>4 DEF ListIntact
  <2> QED
    BY <2>3, <2>4
<1>8. \A i \in 1 .. g_count' : walk'[i] \in allocated'
  BY <1>1, <1>3, <1>4
<1>9. \A i, j \in 1 .. g_count' : walk'[i] = walk'[j] => i = j
  <2> SUFFICES ASSUME NEW i \in 1 .. g_count', NEW j \in 1 .. g_count', walk'[i] = walk'[j]
               PROVE  i = j
    OBVIOUS
  <2>1. i + 1 = j + 1
    BY <1>3, <1>4
  <2> QED
    BY <1>2, <2>1
<1>10. g_head \in Listed
  BY <1>2, <1>5 DEF Listed
<1>11. ASSUME NEW d \in Consumers, ev'[d] # NULL
       PROVE  ev'[d] \in allocated' /\ ev'[d] \notin Listed'
  BY <1>1, <1>5, <1>6, <1>11 DEF ListInv, Owned
<1>12. ASSUME NEW d \in Consumers, NEW e \in Consumers, ev'[d] = ev'[e], ev'[d] # NULL
       PROVE  d = e
  <2>1. \A b \in Consumers : ev[b] # g_head
    BY <1>5, <1>10 DEF ListInv, Owned
  <2> QED
    BY <1>1, <1>12, <2>1 DEF ListInv, Owned
<1>13. Taken' = Taken \cup {g_head}
  BY <1>1, <1>5 DEF Taken
<1>14. allocated' = Listed' \cup Taken'
  BY <1>1, <1>6, <1>10, <1>13 DEF ListInv
<1> QED
  BY <1>7, <1>8, <1>9, <1>11, <1>12, <1>14 DEF ListInv, Owned

\* Only the one that took a node frees it.
LEMMA FreeingKeepsOwners ==
  ASSUME TypeOK, ListInv, NEW c \in Consumers, Free(c)
  PROVE  ListInv' /\ walk' = walk /\ ev[c] \notin Listed
<1>1. /\ ev[c] # NULL /\ allocated' = allocated \ {ev[c]} /\ ev' = [ev EXCEPT ![c] = NULL]
      /\ UNCHANGED <<next, g_head, g_tail, g_count>> /\ ev \in [Consumers -> Nodes \cup {NULL}]
  BY DEF Free, TypeOK
<1>2. walk' = walk
  BY <1>1 DEF walk
<1>3. Listed' = Listed
  BY <1>1, <1>2 DEF Listed
<1>4. ev[c] \notin Listed
  BY <1>1 DEF ListInv, Owned
<1>5. ListIntact'
  BY <1>1, <1>2 DEF ListInv, ListIntact
<1>6. \A i \in 1 .. g_count' : walk'[i] \in allocated'
  BY <1>1, <1>2, <1>4 DEF ListInv, Owned, Listed
<1>7. \A i, j \in 1 .. g_count' : walk'[i] = walk'[j] => i = j
  BY <1>1, <1>2 DEF ListInv, Owned
<1>8. \A d \in Consumers : d # c => ev'[d] = ev[d] /\ (ev[d] # NULL => ev[d] # ev[c])
  BY <1>1 DEF ListInv, Owned
<1>9. ev'[c] = NULL
  BY <1>1
<1>10. Owned'
  BY <1>1, <1>3, <1>6, <1>7, <1>8, <1>9 DEF ListInv, Owned
<1>11. Taken' = Taken \ {ev[c]}
  BY <1>1, <1>8, <1>9 DEF Taken
<1>12. allocated' = Listed' \cup Taken'
  BY <1>1, <1>3, <1>4, <1>11 DEF ListInv
<1> QED
  BY <1>2, <1>4, <1>5, <1>10, <1>12 DEF ListInv

\* What leaves the list and the owners alone.
LEMMA NothingChangesHands ==
  ASSUME ListInv, UNCHANGED <<list, allocated, ev>>
  PROVE  ListInv' /\ walk' = walk
<1>1. walk' = walk
  BY DEF list, walk
<1> QED
  BY <1>1 DEF list, ListInv, ListIntact, Owned, Listed, Taken

\* The nodes counted: as many listed as g_count says, and one for every busy consumer.
LEMMA OwnersAreCounted ==
  ASSUME TypeOK, ListInv
  PROVE  EveryNodeHasOneOwner
<1>1. g_count \in Nat /\ ev \in [Consumers -> Nodes \cup {NULL}]
  BY DEF TypeOK
<1>2. IsFiniteSet(Listed) /\ Cardinality(Listed) = g_count
  <2> DEFINE f == [i \in 1 .. g_count |-> walk[i]]
  <2>1. f \in Bijection(1 .. g_count, Listed)
    BY DEF ListInv, Owned, Listed, Bijection, Injection, Surjection, IsInjective
  <2>2. ExistsBijection(1 .. g_count, Listed)
    BY <2>1 DEF ExistsBijection
  <2>3. IsFiniteSet(1 .. g_count) /\ Cardinality(1 .. g_count) = g_count
    BY <1>1, FS_Interval
  <2> QED
    BY <2>2, <2>3, FS_Bijection
<1>3. IsFiniteSet(Taken) /\ Cardinality(Taken) = Cardinality(Busy)
  <2> DEFINE f == [c \in Busy |-> ev[c]]
  <2>1. f \in Bijection(Busy, Taken)
    <3>1. f \in [Busy -> Taken]
      BY DEF Busy, Taken
    <3>2. \A c, d \in Busy : f[c] = f[d] => c = d
      BY DEF ListInv, Owned, Busy
    <3>3. \A n \in Taken : \E c \in Busy : f[c] = n
      BY DEF Busy, Taken
    <3> QED
      BY <3>1, <3>2, <3>3 DEF Bijection, Injection, Surjection, IsInjective
  <2>2. ExistsBijection(Busy, Taken)
    BY <2>1 DEF ExistsBijection
  <2>3. IsFiniteSet(Busy)
    BY EventsAssumption, FS_Subset DEF Busy
  <2> QED
    BY <2>2, <2>3, FS_Bijection
<1>4. Listed \cap Taken = {}
  BY DEF ListInv, Owned, Taken
<1>5. Cardinality(Listed \cup Taken) = g_count + Cardinality(Busy)
  <2>1. Cardinality(Listed \cap Taken) = 0 /\ Cardinality(Busy) \in Nat
    BY <1>3, <1>4, FS_EmptySet, FS_CardinalityType
  <2>2. Cardinality(Listed \cup Taken)
          = Cardinality(Listed) + Cardinality(Taken) - Cardinality(Listed \cap Taken)
    BY <1>2, <1>3, FS_Union
  <2> QED
    BY <1>1, <1>2, <1>3, <2>1, <2>2
<1> QED
  BY <1>5 DEF ListInv, EveryNodeHasOneOwner, Busy

\* The empty list is a list of both its owners' nodes, which are none.
LEMMA ListInvInitially == Init => ListInv
<1> SUFFICES ASSUME Init
             PROVE  ListInv
  OBVIOUS
<1>1. /\ g_count = 0 /\ g_head = NULL /\ g_tail = NULL /\ allocated = {}
      /\ \A c \in Consumers : ev[c] = NULL
  BY DEF Init
<1>2. 1 .. g_count = {} /\ Listed = {} /\ Taken = {}
  BY <1>1 DEF Listed, Taken
<1> QED
  BY <1>1, <1>2 DEF ListInv, ListIntact, Owned

\* No step gives a node a second owner, or loses its only one.
LEMMA StepKeepsOwners ==
  ASSUME TypeOK, TypeOK', ListInv, [Next]_vars
  PROVE  ListInv'
<1>1. ASSUME NEW t \in Event, Push(t)
      PROVE  ListInv'
  BY <1>1, AddingKeepsOwners DEF Push
<1>2. CASE Refuse \/ UNCHANGED vars
  BY <1>2, NothingChangesHands DEF Refuse, vars, list
<1>3. CASE Shutdown
  <2>1. CASE \E n \in Nodes \ allocated : AddTail(n, EVT_SHUTDOWN)
    BY <1>3, <2>1, AddingKeepsOwners DEF Shutdown
  <2>2. CASE UNCHANGED <<list, allocated>>
    BY <1>3, <2>2, NothingChangesHands DEF Shutdown
  <2> QED
    BY <1>3, <2>1, <2>2 DEF Shutdown
<1>4. ASSUME NEW c \in Consumers, Consume(c)
      PROVE  ListInv'
  <2>1. CASE Wait(c) \/ GiveUp(c) \/ SpuriousWakeup(c)
    BY <2>1, NothingChangesHands DEF Wait, GiveUp, SpuriousWakeup
  <2> QED
    BY <1>4, <2>1, TakingKeepsOwners, FreeingKeepsOwners DEF Consume
<1> QED
  BY <1>1, <1>2, <1>3, <1>4 DEF Next

\* The list and its owners, together.
THEOREM ListInvHolds == Spec => []ListInv
<1>1. Spec => []TypeOK
  BY ListTypeCorrect
<1>2. TypeOK /\ TypeOK' /\ ListInv /\ [Next]_vars => ListInv'
  BY StepKeepsOwners
<1> QED
  BY <1>1, <1>2, ListInvInitially, PTL DEF Spec

\* Head, tail, count and links of server_events.c agree after any sequence of pushes,
\* takes, frees and shutdowns: g_count links from the head is the tail, and the last.
THEOREM ListStaysIntact == Spec => []ListIntact
<1>1. ListInv => ListIntact
  BY DEF ListInv
<1> QED
  BY <1>1, ListInvHolds, PTL

\* Every event not freed is in the list once or taken by one consumer, however many
\* consumers there are: none is lost, leaked, handled twice or freed too early.
THEOREM NodesHaveOneOwner == Spec => []EveryNodeHasOneOwner
<1>1. TypeOK /\ ListInv => EveryNodeHasOneOwner
  BY OwnersAreCounted
<1> QED
  BY <1>1, ListTypeCorrect, ListInvHolds, PTL


-----------------------------------------------------------------------------
(* The refinement *)

\* The queue the list stands for.
Events == [i \in 1 .. g_count |-> IF walk[i] \in Nodes THEN type[walk[i]] ELSE NULL]

Type == Event \cup {EVT_SHUTDOWN, NULL}

EventsAreQueue ==
  /\ Events \in Seq(Type) /\ Len(Events) = g_count /\ g_count \in Nat
  /\ \A i \in 1 .. g_count : Events[i] = type[walk[i]]

\* What the walk from the head finds is the queue.
LEMMA EventsProperties == TypeOK /\ ListInv => EventsAreQueue
<1> SUFFICES ASSUME TypeOK, ListInv
             PROVE  EventsAreQueue
  OBVIOUS
<1>1. g_count \in Nat /\ type \in [Nodes -> Type]
  BY DEF TypeOK, Type
<1>2. \A i \in 1 .. g_count : walk[i] \in Nodes
  BY DEF TypeOK, ListInv, Owned
<1>3. Events \in [1 .. g_count -> Type] /\ \A i \in 1 .. g_count : Events[i] = type[walk[i]]
  BY <1>1, <1>2 DEF Events
<1> QED
  BY <1>1, <1>3 DEF EventsAreQueue

\* A new node is the event appended.
LEMMA AddingAppends ==
  ASSUME TypeOK, TypeOK', ListInv, ListInv',
         NEW n \in Nodes \ allocated, NEW t \in Type, AddTail(n, t)
  PROVE  Events' = Append(Events, t)
<1>1. EventsAreQueue /\ EventsAreQueue'
  BY EventsProperties, PTL
<1>2. /\ g_count' = g_count + 1 /\ walk'[g_count + 1] = n
      /\ \A i \in 1 .. g_count : walk'[i] = walk[i]
  BY AddingLengthensWalk
<1>3. /\ Append(Events, t) \in Seq(Type) /\ Len(Append(Events, t)) = g_count + 1
      /\ \A i \in 1 .. g_count : Append(Events, t)[i] = Events[i]
      /\ Append(Events, t)[g_count + 1] = t
  BY <1>1, AppendProperties DEF EventsAreQueue
<1>4. Events' \in Seq(Type) /\ Len(Events') = g_count + 1 /\ g_count \in Nat
  BY <1>1, <1>2 DEF EventsAreQueue
<1>5. type \in [Nodes -> Type] /\ type' = [type EXCEPT ![n] = t]
  BY DEF TypeOK, Type, AddTail
<1>6. ASSUME NEW i \in 1 .. g_count + 1
      PROVE  Events'[i] = Append(Events, t)[i]
  <2>1. Events'[i] = type'[walk'[i]]
    BY <1>1, <1>2 DEF EventsAreQueue
  <2>2. CASE i = g_count + 1
    BY <1>2, <1>3, <1>5, <2>1, <2>2
  <2>3. CASE i # g_count + 1
    <3>1. i \in 1 .. g_count
      BY <1>4, <2>3
    <3>2. walk[i] \in Nodes /\ walk[i] # n
      BY <3>1 DEF TypeOK, ListInv, Owned
    <3> QED
      BY <1>1, <1>2, <1>3, <1>5, <2>1, <3>1, <3>2 DEF EventsAreQueue
  <2> QED
    BY <2>2, <2>3
<1> QED
  BY <1>3, <1>4, <1>6, SeqEqual

\* A push is accepted, and the shutdown leaves its notice when there is memory.
LEMMA PushRefines ==
  ASSUME TypeOK, TypeOK', ListInv, ListInv', NEW t \in Event, Push(t)
  PROVE  Queue!Accept(t)
<1>1. PICK n \in Nodes \ allocated : AddTail(n, t)
  BY DEF Push
<1>2. Events' = Append(Events, t)
  BY <1>1, AddingAppends DEF Type
<1> QED
  BY <1>2 DEF Push, Queue!Accept, Events

\* Destroying the list node by node takes the oldest events one by one.
LEMMA ShutdownRefines ==
  ASSUME TypeOK, TypeOK', ListInv, ListInv', Shutdown
  PROVE  Queue!Close
<1>1. Events' = Append(Events, EVT_SHUTDOWN) \/ Events' = Events
  <2>1. CASE \E n \in Nodes \ allocated : AddTail(n, EVT_SHUTDOWN)
    BY <2>1, AddingAppends DEF Type
  <2>2. CASE UNCHANGED <<list, allocated>>
    <3>1. walk' = walk /\ type' = type /\ g_count' = g_count
      BY <2>2, NothingChangesHands DEF list, walk
    <3> QED
      BY <3>1 DEF Events
  <2> QED
    BY <2>1, <2>2 DEF Shutdown
<1> QED
  BY <1>1 DEF Shutdown, Queue!Close, Events

\* Who takes an event takes the oldest.
LEMMA TakeRefines ==
  ASSUME TypeOK, TypeOK', ListInv, ListInv', NEW c \in Consumers, Take(c)
  PROVE  Queue!Take
<1>1. EventsAreQueue /\ EventsAreQueue'
  BY EventsProperties, PTL
<1>2. TakeHead(c) /\ g_count > 0 /\ type' = type
  BY DEF Take, TakeHead
<1>3. g_count' = g_count - 1 /\ \A i \in 1 .. g_count - 1 : walk'[i] = walk[i + 1]
  BY <1>2, TakingShortensWalk
<1>4. Events # <<>>
  BY <1>1, <1>2 DEF EventsAreQueue
<1>5. /\ Tail(Events) \in Seq(Type) /\ Len(Tail(Events)) = g_count - 1
      /\ \A i \in 1 .. g_count - 1 : Tail(Events)[i] = Events[i + 1]
  BY <1>1, <1>4, HeadTailProperties DEF EventsAreQueue
<1>6. Events' \in Seq(Type) /\ Len(Events') = g_count - 1
  BY <1>1, <1>3 DEF EventsAreQueue
<1>7. ASSUME NEW i \in 1 .. g_count - 1
      PROVE  Events'[i] = Tail(Events)[i]
  <2>1. i + 1 \in 1 .. g_count
    BY <1>1 DEF EventsAreQueue
  <2> QED
    BY <1>1, <1>2, <1>3, <1>5, <2>1 DEF EventsAreQueue
<1>8. Events' = Tail(Events)
  BY <1>5, <1>6, <1>7, SeqEqual
<1> QED
  BY <1>4, <1>8 DEF Take, TakeHead, Queue!Take, Events

\* The node freed is in no queue any more.
LEMMA FreeRefines ==
  ASSUME TypeOK, TypeOK', ListInv, NEW c \in Consumers, Free(c)
  PROVE  UNCHANGED Queue!vars
<1>1. walk' = walk /\ g_count' = g_count /\ type' = [type EXCEPT ![ev[c]] = NULL]
  BY FreeingKeepsOwners DEF Free
<1>2. \A i \in 1 .. g_count : walk[i] \in Nodes /\ walk[i] # ev[c]
  BY FreeingKeepsOwners DEF TypeOK, ListInv, Owned, Listed
<1>3. \A i \in 1 .. g_count : type'[walk[i]] = type[walk[i]]
  BY <1>1, <1>2 DEF TypeOK
<1>4. Events' = Events
  BY <1>1, <1>2, <1>3 DEF Events
<1> QED
  BY <1>4 DEF Free, Queue!vars, Events

\* The linked list of server_events.c implements the queue of EventQueue, for any number
\* of nodes, events and consumers: what is pushed comes out once, in order, and a caller
\* is told 0 exactly when its event got in.
THEOREM ListIsQueue == Spec => QueueSpec
<1>1. Init => Queue!Init
  <2> SUFFICES ASSUME Init
               PROVE  Queue!Init
    OBVIOUS
  <2>1. Events = <<>>
    BY DEF Init, Events
  <2> QED
    BY <2>1 DEF Init, Queue!Init, Events
<1>2. TypeOK /\ TypeOK' /\ ListInv /\ ListInv' /\ [Next]_vars => [Queue!Next]_(Queue!vars)
  <2> SUFFICES ASSUME TypeOK, TypeOK', ListInv, ListInv', [Next]_vars
               PROVE  [Queue!Next]_(Queue!vars)
    OBVIOUS
  <2>1. CASE \E t \in Event : Push(t)
    BY <2>1, PushRefines DEF Queue!Next
  <2>2. CASE Refuse
    <3>1. walk' = walk /\ type' = type /\ g_count' = g_count
      BY <2>2, NothingChangesHands DEF Refuse, list
    <3> QED
      BY <2>2, <3>1 DEF Refuse, Queue!Next, Queue!Refuse, Events
  <2>3. CASE Shutdown
    BY <2>3, ShutdownRefines DEF Queue!Next
  <2>4. ASSUME NEW c \in Consumers, Consume(c)
        PROVE  [Queue!Next]_(Queue!vars)
    <3>1. CASE Wait(c) \/ GiveUp(c) \/ SpuriousWakeup(c)
      <4>1. UNCHANGED <<list, allocated, ev, g_shutdown, answer>>
        BY <3>1 DEF Wait, GiveUp, SpuriousWakeup
      <4>2. walk' = walk /\ type' = type /\ g_count' = g_count
        BY <4>1, NothingChangesHands DEF list
      <4> QED
        BY <4>1, <4>2 DEF Queue!vars
    <3> QED
      BY <2>4, <3>1, TakeRefines, FreeRefines DEF Consume, Queue!Next
  <2>5. CASE UNCHANGED vars
    <3>1. walk' = walk
      BY <2>5, NothingChangesHands DEF vars, list
    <3> QED
      BY <2>5, <3>1 DEF vars, Queue!vars
  <2> QED
    BY <2>1, <2>2, <2>3, <2>4, <2>5 DEF Next
<1> QED
  BY <1>1, <1>2, ListTypeCorrect, ListInvHolds, PTL DEF Spec, QueueSpec, Queue!Spec
=============================================================================
