------------------------------ MODULE SpscQueue ------------------------------
(***************************************************************************)
(* The lock-free ring buffer between the mouse-hook thread (producer) and   *)
(* the motion worker thread (consumer), one step per memory access.         *)
(*                                                                         *)
(* head_ and tail_ are C++ atomics used with acquire and release only, so   *)
(* a load may return an old value: any value not older than the one this   *)
(* thread loaded before.  seenTail and seenHead are those last loaded       *)
(* values, and a load picks a value on the arc from there to the present    *)
(* one.  A thread loads the index it alone stores (memory_order_relaxed)    *)
(* exactly.  Copying an event is not atomic: the access to a slot lasts     *)
(* from the step that chose it to the step that completes it.               *)
(***************************************************************************)
EXTENDS Integers, Sequences

CONSTANTS Event,     \* the wheel events
          Capacity   \* size of the ring: 1024 in MotionWorker

ASSUME CapacityAssumption == Capacity \in Nat /\ Capacity >= 2

VARIABLES values,    \* values_: the slots
          head,      \* head_: next slot the producer fills
          tail,      \* tail_: next slot the consumer empties
          seenTail,  \* the producer's last loaded value of tail_
          seenHead,  \* the consumer's last loaded value of head_
          producer,  \* where the producer is inside TryPush
          pushed,    \* the argument of the TryPush under way
          consumer,  \* where the consumer is inside TryPop
          taken      \* the consumer's out-parameter, `value`

vars == <<values, head, tail, seenTail, seenHead, producer, pushed, consumer, taken>>

Index == 0 .. Capacity - 1

\* Mutant: the wrap-around is forgotten.
Increment_NoWrap(i) == i + 1

Increment(i) == (i + 1) % Capacity

\* Steps from index a forward to index b around the ring.
Distance(a, b) == IF a <= b THEN b - a ELSE b - a + Capacity

\* The index k steps after index a.
Ahead(a, k) == IF a + k < Capacity THEN a + k ELSE a + k - Capacity

\* The values an acquire load may return that last returned `seen` when the
\* variable now holds `now`.
Loadable(seen, now) == {Ahead(seen, k) : k \in 0 .. Distance(seen, now)}

\* Slots and locals are value-initialised: one default event.
Init ==
  /\ \E e \in Event : values = [i \in Index |-> e] /\ pushed = e /\ taken = e
  /\ head = 0 /\ tail = 0 /\ seenTail = 0 /\ seenHead = 0
  /\ producer = "idle" /\ consumer = "idle"

-----------------------------------------------------------------------------
(* TryPush: the producer's side.                                           *)

\* Mutant: the check against tail_ is dropped.
RingFull_Unchecked(t) == FALSE

\* next == tail_: the slot after the one to fill is the oldest the producer
\* knows to be unread.
RingFull(t) == Increment(head) = t

\* head_ is loaded, tail_ is loaded; a full ring refuses the event.
PushCheck(e) ==
  /\ producer = "idle"
  /\ \E t \in Loadable(seenTail, tail) :
       /\ seenTail' = t
       /\ producer' = IF RingFull(t) THEN "idle" ELSE "writing"
  /\ pushed' = e
  /\ UNCHANGED <<values, head, tail, seenHead, consumer, taken>>

\* values_[head] = value
PushWrite ==
  /\ producer = "writing"
  /\ values' = [values EXCEPT ![head] = pushed]
  /\ producer' = "publishing"
  /\ UNCHANGED <<head, tail, seenTail, seenHead, pushed, consumer, taken>>

\* head_.store(next, release)
PushPublish ==
  /\ producer = "publishing"
  /\ head' = Increment(head)
  /\ producer' = "idle"
  /\ UNCHANGED <<values, tail, seenTail, seenHead, pushed, consumer, taken>>

-----------------------------------------------------------------------------
(* TryPop: the consumer's side.                                            *)

\* Mutant: the check against head_ is dropped.
RingEmpty_Unchecked(h) == FALSE

\* tail == head_
RingEmpty(h) == tail = h

\* tail_ is loaded, head_ is loaded; an empty ring has nothing to take.
PopCheck ==
  /\ consumer = "idle"
  /\ \E h \in Loadable(seenHead, head) :
       /\ seenHead' = h
       /\ consumer' = IF RingEmpty(h) THEN "idle" ELSE "reading"
  /\ UNCHANGED <<values, head, tail, seenTail, producer, pushed, taken>>

\* value = values_[tail]
PopRead ==
  /\ consumer = "reading"
  /\ taken' = values[tail]
  /\ consumer' = "releasing"
  /\ UNCHANGED <<values, head, tail, seenTail, seenHead, producer, pushed>>

\* Mutant: everything seen so far is released with the one event copied.
PopRelease_ToSeenHead ==
  /\ consumer = "releasing"
  /\ tail' = seenHead
  /\ consumer' = "idle"
  /\ UNCHANGED <<values, head, seenTail, seenHead, producer, pushed, taken>>

\* tail_.store(Increment(tail), release)
PopRelease ==
  /\ consumer = "releasing"
  /\ tail' = Increment(tail)
  /\ consumer' = "idle"
  /\ UNCHANGED <<values, head, seenTail, seenHead, producer, pushed, taken>>

Next ==
  \/ \E e \in Event : PushCheck(e)
  \/ PushWrite \/ PushPublish
  \/ PopCheck \/ PopRead \/ PopRelease

Spec == Init /\ [][Next]_vars

-----------------------------------------------------------------------------
\* Every variable stays in its type: both indices stay inside the ring.
TypeOK ==
  /\ values \in [Index -> Event]
  /\ {head, tail, seenTail, seenHead} \subseteq Index
  /\ producer \in {"idle", "writing", "publishing"}
  /\ consumer \in {"idle", "reading", "releasing"}
  /\ pushed \in Event /\ taken \in Event

\* However stale the two views are, the four indices stay in the order
\* seenTail, tail, seenHead, head within one turn of the ring; while an event
\* is being written the slot after it is free in the producer's own view, and
\* while one is being read it is published in the consumer's own view
\* (the checks of TryPush and TryPop together).
ViewsOrdered ==
  /\ Distance(seenTail, head) =
       Distance(seenTail, tail) + Distance(tail, seenHead) + Distance(seenHead, head)
  /\ producer # "idle" => Increment(head) # seenTail
  /\ consumer # "idle" => tail # seenHead

\* The two threads never access one slot of values_ at the same time: the copy
\* in TryPush and the copy in TryPop have no lock around them, and an event is
\* a struct of six fields that a torn copy would mix.
NoSlotRace == ~(producer = "writing" /\ consumer = "reading" /\ head = tail)

\* The ring implements a bounded first-in first-out queue: nothing is lost,
\* duplicated, reordered or overwritten, whatever the interleaving and the
\* staleness of the loads.  The event the consumer has copied out and not yet
\* released is already taken.
First == IF consumer = "releasing" THEN Increment(tail) ELSE tail

Contents == [k \in 1 .. Distance(First, head) |-> values[Ahead(First, k - 1)]]

Fifo == INSTANCE BoundedFifo WITH queue <- Contents, taken <- taken

FifoSpec == Fifo!Spec
=============================================================================
