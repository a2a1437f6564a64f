----------------------------- MODULE BoundedFifo -----------------------------
(***************************************************************************)
(* What SpscQueue<T, Capacity> (event_queue.h) promises its two users: a   *)
(* first-in first-out queue between one producer and one consumer that     *)
(* never holds more than Capacity - 1 events, one slot of the ring being   *)
(* kept free.  A refused TryPush and a TryPop of an empty queue change      *)
(* nothing and are stuttering steps here.                                  *)
(***************************************************************************)
EXTENDS Naturals, Sequences

CONSTANTS Event,     \* what the queue carries
          Capacity   \* slots of the ring, one of them always free

VARIABLES queue,     \* the events pushed and not yet taken, oldest first
          taken      \* the event the consumer took last

vars == <<queue, taken>>

Init == queue = <<>> /\ taken \in Event

Push(e) ==
  /\ Len(queue) < Capacity - 1
  /\ queue' = Append(queue, e)
  /\ UNCHANGED taken

Pop ==
  /\ queue # <<>>
  /\ taken' = Head(queue)
  /\ queue' = Tail(queue)

Next == Pop \/ \E e \in Event : Push(e)

Spec == Init /\ [][Next]_vars
=============================================================================
