--------------------------- MODULE RequestQueueProofs ---------------------------
(***************************************************************************)
(* The ring buffer of request_queue.c is a bounded first-in first-out      *)
(* queue, for a ring of any size and any requests.                         *)
(***************************************************************************)
EXTENDS RequestQueue, SequenceTheorems, TLAPS

\* The slot i places after head, without a division.
Slot(i) == IF head + i < MAX_REQUESTS THEN head + i ELSE head + i - MAX_REQUESTS

CursorsOK ==
  head \in Slots /\ tail \in Slots /\ count \in 0 .. MAX_REQUESTS /\ tail = Slot(count)

\* The array never gains or loses a slot.
RingInv ==
  /\ items \in [Slots -> Request \cup {Zero}]
  /\ CursorsOK
  /\ \A i \in Slots : i < count => items[Slot(i)] \in Request

-----------------------------------------------------------------------------
(* Arithmetic of the cursors *)

\* No sum of the code comes to twice the size.
LEMMA WrapAround ==
  ASSUME NEW x \in 0 .. 2 * MAX_REQUESTS - 1
  PROVE  x % MAX_REQUESTS = IF x < MAX_REQUESTS THEN x ELSE x - MAX_REQUESTS
<1>1. MAX_REQUESTS \in Nat \ {0}
  BY QueueAssumption
<1>2. CASE x < MAX_REQUESTS
  BY <1>1, <1>2
<1>3. CASE x >= MAX_REQUESTS
  <2> DEFINE y == x - MAX_REQUESTS
  <2>1. y \in Nat /\ y < MAX_REQUESTS /\ y + MAX_REQUESTS = x
    BY <1>1, <1>3
  <2> HIDE DEF y
  <2>2. (y + MAX_REQUESTS) % MAX_REQUESTS = y
    BY <1>1, <2>1
  <2> QED
    BY <1>1, <1>3, <2>1, <2>2
<1> QED
  BY <1>1, <1>2, <1>3

LEMMA SlotIsRemainder ==
  ASSUME head \in Slots, NEW i \in 0 .. MAX_REQUESTS
  PROVE  (head + i) % MAX_REQUESTS = Slot(i) /\ Slot(i) \in Slots
<1>1. MAX_REQUESTS \in Nat \ {0} /\ head + i \in 0 .. 2 * MAX_REQUESTS - 1
  BY QueueAssumption DEF Slots
<1>2. (head + i) % MAX_REQUESTS = Slot(i)
  <2> DEFINE x == head + i
  <2>1. /\ x \in 0 .. 2 * MAX_REQUESTS - 1
        /\ Slot(i) = IF x < MAX_REQUESTS THEN x ELSE x - MAX_REQUESTS
    BY <1>1 DEF Slot, Slots
  <2> HIDE DEF x
  <2>2. x % MAX_REQUESTS = IF x < MAX_REQUESTS THEN x ELSE x - MAX_REQUESTS
    BY <2>1, WrapAround
  <2>3. x % MAX_REQUESTS = Slot(i)
    BY <2>1, <2>2
  <2> QED
    BY <2>3 DEF x
<1>3. Slot(i) \in Slots
  BY <1>1 DEF Slot, Slots
<1> QED
  BY <1>2, <1>3

\* Different places have different slots.
LEMMA SlotsDiffer ==
  ASSUME head \in Slots, NEW i \in Slots, NEW j \in Slots, Slot(i) = Slot(j)
  PROVE  i = j
BY QueueAssumption DEF Slot, Slots

LEMMA CursorSteps ==
  ASSUME NEW c \in Slots
  PROVE  /\ (c + 1) % MAX_REQUESTS = IF c + 1 < MAX_REQUESTS THEN c + 1 ELSE 0
         /\ (c + 1) % MAX_REQUESTS \in Slots
<1>1. MAX_REQUESTS \in Nat \ {0} /\ c + 1 \in 0 .. 2 * MAX_REQUESTS - 1
  BY QueueAssumption DEF Slots
<1> QED
  BY <1>1, WrapAround DEF Slots

-----------------------------------------------------------------------------
(* What a push and a pop do to the ring *)

LEMMA PushSteps ==
  ASSUME RingInv, NEW r \in Request, rq_push(r), count < MAX_REQUESTS
  PROVE  /\ RingInv'
         /\ \A i \in Slots : Slot(i)' = Slot(i)
         /\ \A i \in Slots : i < count => items'[Slot(i)] = items[Slot(i)]
         /\ items'[Slot(count)] = r
<1>1. /\ MAX_REQUESTS \in Nat \ {0} /\ count \in Slots /\ head \in Slots /\ tail \in Slots
      /\ tail = Slot(count) /\ items \in [Slots -> Request \cup {Zero}]
  BY QueueAssumption DEF RingInv, CursorsOK, Slots
<1>2. /\ items' = [items EXCEPT ![tail] = r] /\ tail' = (tail + 1) % MAX_REQUESTS
      /\ count' = count + 1 /\ head' = head
  BY <1>1 DEF rq_push, Slots
<1>3. \A i \in 0 .. MAX_REQUESTS : Slot(i)' = Slot(i)
  BY <1>2 DEF Slot
<1>4. items'[Slot(count)] = r
  BY <1>1, <1>2
<1>5. ASSUME NEW i \in Slots, i < count
      PROVE  items'[Slot(i)] = items[Slot(i)]
  <2>1. Slot(i) # tail
    <3>1. i # count
      BY <1>1, <1>5 DEF Slots
    <3> QED
      BY <1>1, <3>1, SlotsDiffer
  <2> QED
    BY <1>1, <1>2, <2>1
<1>6. CursorsOK'
  <2>1. tail' = IF tail + 1 < MAX_REQUESTS THEN tail + 1 ELSE 0
    BY <1>1, <1>2, CursorSteps
  <2>2. tail' \in Slots
    BY <1>1, <1>2, CursorSteps
  <2>3. tail' = Slot(count + 1)
    BY <1>1, <2>1 DEF Slot, Slots
  <2> QED
    BY <1>1, <1>2, <1>3, <2>2, <2>3 DEF CursorsOK, Slots
<1>7. RingInv'
  <2>1. items' \in [Slots -> Request \cup {Zero}]
    BY <1>1, <1>2
  <2>2. ASSUME NEW i \in Slots, i < count'
        PROVE  items'[Slot(i)'] \in Request
    <3>1. i < count \/ i = count
      BY <1>1, <1>2, <2>2 DEF Slots
    <3>2. Slot(i)' = Slot(i)
      BY <1>1, <1>3 DEF Slots
    <3> QED
      BY <1>4, <1>5, <3>1, <3>2 DEF RingInv
  <2> QED
    BY <1>6, <2>1, <2>2 DEF RingInv
<1> QED
  BY <1>1, <1>3, <1>4, <1>5, <1>7 DEF Slots

LEMMA PopSteps ==
  ASSUME RingInv, rq_pop, count > 0
  PROVE  /\ RingInv'
         /\ answer' = items[Slot(0)] /\ count' = count - 1
         /\ \A i \in Slots : i < count' => items'[Slot(i)'] = items[Slot(i + 1)]
<1>1. /\ MAX_REQUESTS \in Nat \ {0} /\ count \in 1 .. MAX_REQUESTS /\ head \in Slots
      /\ tail \in Slots /\ tail = Slot(count) /\ items \in [Slots -> Request \cup {Zero}]
  BY QueueAssumption DEF RingInv, CursorsOK, Slots
<1>2. /\ answer' = items[head] /\ head' = (head + 1) % MAX_REQUESTS
      /\ count' = count - 1 /\ items' = items /\ tail' = tail
  BY <1>1 DEF rq_pop
<1>3. head' = (IF head + 1 < MAX_REQUESTS THEN head + 1 ELSE 0) /\ head' \in Slots
  BY <1>1, <1>2, CursorSteps
<1>4. ASSUME NEW i \in 0 .. MAX_REQUESTS - 1
      PROVE  Slot(i)' = Slot(i + 1)
  BY <1>1, <1>3 DEF Slot, Slots
<1>5. Slot(0) = head
  BY <1>1 DEF Slot, Slots
<1>6. tail' = Slot(count)'
  BY <1>1, <1>2, <1>3 DEF Slot, Slots
<1>7. CursorsOK'
  BY <1>1, <1>2, <1>3, <1>6 DEF CursorsOK, Slots
<1>8. \A i \in Slots : i < count' => items'[Slot(i)'] = items[Slot(i + 1)]
  BY <1>2, <1>4 DEF Slots
<1>9. ASSUME NEW i \in Slots, i < count'
      PROVE  items'[Slot(i)'] \in Request
  <2>1. i + 1 \in Slots /\ i + 1 < count
    BY <1>1, <1>2, <1>9 DEF Slots
  <2> QED
    BY <1>8, <1>9, <2>1 DEF RingInv
<1>10. RingInv'
  BY <1>1, <1>2, <1>7, <1>9 DEF RingInv
<1> QED
  BY <1>2, <1>5, <1>8, <1>10

-----------------------------------------------------------------------------
(* The invariant *)

LEMMA OtherSteps ==
  ASSUME RingInv, rq_peek \/ UNCHANGED vars
  PROVE  RingInv' /\ UNCHANGED <<items, head, count>>
BY DEF RingInv, CursorsOK, Slot, rq_peek, vars

LEMMA ClearSteps ==
  ASSUME RingInv, rq_clear
  PROVE  RingInv' /\ count' = 0
<1>1. MAX_REQUESTS \in Nat \ {0}
  BY QueueAssumption
<1>2. items' = items /\ head' = 0 /\ tail' = 0 /\ count' = 0
  BY DEF rq_clear
<1>3. CursorsOK'
  BY <1>1, <1>2 DEF CursorsOK, Slot, Slots
<1>4. \A i \in Slots : ~(i < count')
  BY <1>2 DEF Slots
<1> QED
  BY <1>2, <1>3, <1>4 DEF RingInv

LEMMA FullPush ==
  ASSUME RingInv, NEW r \in Request, rq_push(r), ~(count < MAX_REQUESTS)
  PROVE  UNCHANGED <<items, head, tail, count>> /\ answer' = "error"
BY QueueAssumption DEF rq_push, RingInv, CursorsOK

LEMMA EmptyPop ==
  ASSUME RingInv, rq_pop, ~(count > 0)
  PROVE  UNCHANGED <<items, head, tail, count>> /\ answer' = "error"
BY DEF rq_pop, RingInv, CursorsOK

LEMMA RingInvStep == RingInv /\ [Next]_vars => RingInv'
<1> SUFFICES ASSUME RingInv, [Next]_vars
             PROVE  RingInv'
  OBVIOUS
<1>1. ASSUME UNCHANGED <<items, head, tail, count>>
      PROVE  RingInv'
  BY <1>1 DEF RingInv, CursorsOK, Slot
<1>2. ASSUME NEW r \in Request, rq_push(r)
      PROVE  RingInv'
  BY <1>1, <1>2, PushSteps, FullPush
<1>3. CASE rq_pop
  BY <1>1, <1>3, PopSteps, EmptyPop
<1>4. CASE rq_clear
  BY <1>4, ClearSteps
<1>5. CASE rq_peek \/ UNCHANGED vars
  BY <1>5, OtherSteps
<1> QED
  BY <1>2, <1>3, <1>4, <1>5 DEF Next

LEMMA RingInvInitially == rq_init => RingInv
<1> SUFFICES ASSUME rq_init
             PROVE  RingInv
  OBVIOUS
<1>1. MAX_REQUESTS \in Nat \ {0} /\ head = 0 /\ tail = 0 /\ count = 0
  BY QueueAssumption DEF rq_init
<1>2. items \in [Slots -> Request \cup {Zero}]
  BY DEF rq_init
<1>3. CursorsOK
  BY <1>1 DEF CursorsOK, Slot, Slots
<1> QED
  BY <1>1, <1>2, <1>3 DEF RingInv, Slots

\* RingInv holds throughout, for a ring of any size.
THEOREM RingInvHolds == Spec => []RingInv
BY RingInvInitially, RingInvStep, PTL DEF Spec

\* head, tail and count tell the same story, and what lies between head and tail
\* was pushed.
THEOREM RingCursorsAgree == Spec => []CursorsAgree
<1>1. RingInv => CursorsAgree
  <2> SUFFICES ASSUME RingInv
               PROVE  CursorsAgree
    OBVIOUS
  <2>1. head \in Slots /\ tail \in Slots /\ count \in 0 .. MAX_REQUESTS /\ tail = Slot(count)
    BY DEF RingInv, CursorsOK
  <2>2. tail = (head + count) % MAX_REQUESTS
    BY <2>1, SlotIsRemainder
  <2>3. ASSUME NEW i \in Slots, i < count
        PROVE  items[(head + i) % MAX_REQUESTS] \in Request
    <3>1. i \in 0 .. MAX_REQUESTS
      BY QueueAssumption DEF Slots
    <3>2. (head + i) % MAX_REQUESTS = Slot(i)
      BY <2>1, <3>1, SlotIsRemainder
    <3> QED
      BY <2>3, <3>2 DEF RingInv
  <2> QED
    BY <2>1, <2>2, <2>3 DEF CursorsAgree
<1> QED
  BY <1>1, RingInvHolds, PTL

-----------------------------------------------------------------------------
(* The refinement *)

\* The queue the ring stands for.
Abstract == [i \in 1 .. count |-> items[(head + i - 1) % MAX_REQUESTS]]

AbstractIsQueue ==
  /\ Abstract \in Seq(Request) /\ Len(Abstract) = count /\ count \in Nat
  /\ \A i \in 1 .. count : Abstract[i] = items[Slot(i - 1)]

LEMMA AbstractProperties == RingInv => AbstractIsQueue
<1> SUFFICES ASSUME RingInv
             PROVE  AbstractIsQueue
  OBVIOUS
<1>1. MAX_REQUESTS \in Nat \ {0} /\ head \in Slots /\ count \in 0 .. MAX_REQUESTS
  BY QueueAssumption DEF RingInv, CursorsOK
<1>2. ASSUME NEW i \in 1 .. count
      PROVE  Abstract[i] = items[Slot(i - 1)] /\ Abstract[i] \in Request
  <2>1. i - 1 \in 0 .. MAX_REQUESTS /\ i - 1 \in Slots /\ i - 1 < count
        /\ head + i - 1 = head + (i - 1)
    BY <1>1 DEF Slots
  <2>2. (head + (i - 1)) % MAX_REQUESTS = Slot(i - 1)
    BY <1>1, <2>1, SlotIsRemainder
  <2>3. Abstract[i] = items[Slot(i - 1)]
    BY <2>1, <2>2 DEF Abstract
  <2> QED
    BY <2>1, <2>3 DEF RingInv
<1>3. Abstract \in [1 .. count -> Request]
  BY <1>2 DEF Abstract
<1> QED
  BY <1>1, <1>2, <1>3 DEF AbstractIsQueue

LEMMA PushRefines ==
  ASSUME RingInv, RingInv', NEW r \in Request, rq_push(r)
  PROVE  Queue!Push(r)
<1>1. AbstractIsQueue /\ AbstractIsQueue'
  BY AbstractProperties, PTL
<1>2. /\ MAX_REQUESTS \in Nat \ {0} /\ head \in Slots /\ count \in 0 .. MAX_REQUESTS
  BY QueueAssumption DEF RingInv, CursorsOK
<1>3. CASE ~(count < MAX_REQUESTS)
  <2>1. Abstract' = Abstract /\ answer' = "error"
    BY <1>3, FullPush DEF Abstract
  <2> QED
    BY <1>1, <1>3, <2>1 DEF Queue!Push, Queue!Pushed, Abstract, AbstractIsQueue
<1>4. CASE count < MAX_REQUESTS
  <2>1. answer' = "ok" /\ count' = count + 1
    BY <1>2, <1>4 DEF rq_push
  <2>2. /\ Append(Abstract, r) \in Seq(Request) /\ Len(Append(Abstract, r)) = count + 1
        /\ \A i \in 1 .. count : Append(Abstract, r)[i] = Abstract[i]
        /\ Append(Abstract, r)[count + 1] = r
    BY <1>1, AppendProperties DEF AbstractIsQueue
  <2>3. Abstract' \in Seq(Request) /\ Len(Abstract') = count + 1
    BY <1>1, <2>1 DEF AbstractIsQueue
  <2>4. ASSUME NEW i \in 1 .. count + 1
        PROVE  Abstract'[i] = Append(Abstract, r)[i]
    <3>1. i - 1 \in Slots /\ Abstract'[i] = items'[Slot(i - 1)']
      BY <1>1, <1>2, <1>4, <2>1 DEF AbstractIsQueue, Slots
    <3>2. Slot(i - 1)' = Slot(i - 1)
      BY <1>4, <3>1, PushSteps
    <3>3. CASE i = count + 1
      <4>1. i - 1 = count /\ items'[Slot(count)] = r
        BY <1>2, <1>4, <3>3, PushSteps
      <4> QED
        BY <2>2, <3>1, <3>2, <3>3, <4>1
    <3>4. CASE i \in 1 .. count
      <4>1. i - 1 < count
        BY <1>2, <3>4
      <4>2. items'[Slot(i - 1)] = items[Slot(i - 1)]
        BY <1>4, <3>1, <4>1, PushSteps
      <4> QED
        BY <1>1, <2>2, <3>1, <3>2, <3>4, <4>2 DEF AbstractIsQueue
    <3>5. i = count + 1 \/ i \in 1 .. count
      BY <1>2
    <3> QED
      BY <3>3, <3>4, <3>5, Zenon
  <2>5. Abstract' = Append(Abstract, r)
    BY <2>2, <2>3, <2>4, SeqEqual
  <2> QED
    BY <1>1, <1>4, <2>1, <2>5 DEF Queue!Push, Queue!Pushed, Abstract, AbstractIsQueue
<1> QED
  BY <1>3, <1>4

LEMMA PopRefines ==
  ASSUME RingInv, RingInv', rq_pop
  PROVE  Queue!Pop
<1>1. AbstractIsQueue /\ AbstractIsQueue'
  BY AbstractProperties, PTL
<1>2. MAX_REQUESTS \in Nat \ {0} /\ count \in 0 .. MAX_REQUESTS
  BY QueueAssumption DEF RingInv, CursorsOK
<1>3. CASE ~(count > 0)
  <2>1. Abstract' = Abstract /\ answer' = "error"
    BY <1>3, EmptyPop DEF Abstract
  <2>2. Abstract = <<>>
    BY <1>1, <1>2, <1>3 DEF AbstractIsQueue
  <2> QED
    BY <2>1, <2>2 DEF Queue!Pop, Abstract
<1>4. CASE count > 0
  <2>1. /\ answer' = items[Slot(0)] /\ count' = count - 1
        /\ \A i \in Slots : i < count' => items'[Slot(i)'] = items[Slot(i + 1)]
    BY <1>4, PopSteps
  <2>2. Abstract # <<>>
    BY <1>1, <1>4 DEF AbstractIsQueue
  <2>3. Head(Abstract) = items[Slot(0)]
    <3>1. Head(Abstract) = Abstract[1]
      BY <1>1, <2>2 DEF AbstractIsQueue
    <3>2. 1 \in 1 .. count /\ 1 - 1 = 0
      BY <1>2, <1>4
    <3>3. Abstract[1] = items[Slot(1 - 1)]
      BY <1>1, <3>2 DEF AbstractIsQueue
    <3> QED
      BY <3>1, <3>2, <3>3
  <2>4. /\ Tail(Abstract) \in Seq(Request) /\ Len(Tail(Abstract)) = count - 1
        /\ \A i \in 1 .. count - 1 : Tail(Abstract)[i] = Abstract[i + 1]
    BY <1>1, <2>2, HeadTailProperties DEF AbstractIsQueue
  <2>5. Abstract' \in Seq(Request) /\ Len(Abstract') = count - 1
    BY <1>1, <2>1 DEF AbstractIsQueue
  <2>6. ASSUME NEW i \in 1 .. count - 1
        PROVE  Abstract'[i] = Tail(Abstract)[i]
    <3>1. i - 1 \in Slots /\ i - 1 < count' /\ (i - 1) + 1 = i /\ i + 1 \in 1 .. count
          /\ (i + 1) - 1 = i
      BY <1>2, <2>1 DEF Slots
    <3>2. Abstract'[i] = items'[Slot(i - 1)']
      BY <1>1, <2>1 DEF AbstractIsQueue
    <3>3. items'[Slot(i - 1)'] = items[Slot(i)]
      BY <2>1, <3>1
    <3>4. Abstract[i + 1] = items[Slot(i)]
      BY <1>1, <3>1 DEF AbstractIsQueue
    <3> QED
      BY <2>4, <3>2, <3>3, <3>4
  <2>7. Abstract' = Tail(Abstract)
    BY <2>4, <2>5, <2>6, SeqEqual
  <2> QED
    BY <2>1, <2>2, <2>3, <2>7 DEF Queue!Pop, Abstract
<1> QED
  BY <1>3, <1>4

\* The ring buffer implements the bounded queue, whatever its size.
THEOREM RingIsQueue == Spec => QueueSpec
<1>1. rq_init => Queue!Init
  <2> SUFFICES ASSUME rq_init
               PROVE  Queue!Init
    OBVIOUS
  <2>1. RingInv
    BY RingInvInitially
  <2>2. AbstractIsQueue /\ count = 0
    BY <2>1, AbstractProperties DEF rq_init
  <2>3. Abstract = <<>>
    BY <2>2 DEF AbstractIsQueue
  <2> QED
    BY <2>3 DEF rq_init, Queue!Init, Abstract
<1>2. RingInv /\ RingInv' /\ [Next]_vars => [Queue!Next]_(Queue!vars)
  <2> SUFFICES ASSUME RingInv, RingInv', [Next]_vars
               PROVE  [Queue!Next]_(Queue!vars)
    OBVIOUS
  <2>1. ASSUME NEW r \in Request, rq_push(r)
        PROVE  Queue!Next
    BY <2>1, PushRefines DEF Queue!Next
  <2>2. CASE rq_pop
    BY <2>2, PopRefines DEF Queue!Next
  <2>3. CASE rq_peek
    <3>1. AbstractIsQueue
      BY AbstractProperties
    <3>2. Abstract' = Abstract
      BY <2>3 DEF rq_peek, Abstract
    <3>3. MAX_REQUESTS \in Nat \ {0} /\ head \in Slots
      BY QueueAssumption DEF RingInv, CursorsOK
    <3>4. answer' = IF Abstract # <<>> THEN Head(Abstract) ELSE "error"
      <4>1. CASE count = 0
        BY <2>3, <3>1, <4>1 DEF rq_peek, AbstractIsQueue
      <4>2. CASE count # 0
        <5>1. Abstract # <<>> /\ 1 \in 1 .. count /\ Head(Abstract) = Abstract[1]
          BY <3>1, <4>2 DEF AbstractIsQueue
        <5>2. Abstract[1] = items[Slot(1 - 1)] /\ Slot(1 - 1) = head
          BY <3>1, <3>3, <5>1 DEF AbstractIsQueue, Slot, Slots
        <5> QED
          BY <2>3, <4>2, <5>1, <5>2 DEF rq_peek
      <4> QED
        BY <4>1, <4>2
    <3> QED
      BY <3>2, <3>4 DEF Queue!Next, Queue!Peek, Abstract
  <2>4. CASE rq_clear
    <3>1. AbstractIsQueue' /\ count' = 0
      BY <2>4, ClearSteps, AbstractProperties, PTL
    <3>2. Abstract' = <<>>
      BY <3>1 DEF AbstractIsQueue
    <3> QED
      BY <2>4, <3>2 DEF rq_clear, Queue!Next, Queue!Clear, Abstract
  <2>5. CASE UNCHANGED vars
    BY <2>5 DEF vars, Queue!vars
  <2> QED
    BY <2>1, <2>2, <2>3, <2>4, <2>5 DEF Next
<1> QED
  BY <1>1, <1>2, RingInvHolds, PTL DEF Spec, QueueSpec, Queue!Spec
=============================================================================
