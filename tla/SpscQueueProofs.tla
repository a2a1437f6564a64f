--------------------------- MODULE SpscQueueProofs ---------------------------
(***************************************************************************)
(* The ring buffer for every capacity and every set of events.  The        *)
(* argument: ViewsOrdered is inductive together with the types; both the   *)
(* absence of a slot race and the refinement of the bounded queue follow    *)
(* from it.                                                                *)
(***************************************************************************)
EXTENDS SpscQueue, TLAPS, SequenceTheorems

\* Increment wraps from the last slot to slot 0 and steps by one elsewhere.
LEMMA IncrementValue ==
  ASSUME NEW i \in Index
  PROVE  Increment(i) = IF i = Capacity - 1 THEN 0 ELSE i + 1
<1>1. CASE i = Capacity - 1
  BY <1>1, CapacityAssumption DEF Increment, Index
<1>2. CASE i # Capacity - 1
  BY <1>2, CapacityAssumption DEF Increment, Index
<1>3. QED
  BY <1>1, <1>2

-----------------------------------------------------------------------------
(* Distances around the ring.                                              *)

\* A distance is less than one turn, and zero only between equal indices.
LEMMA DistanceType ==
  ASSUME NEW a \in Index, NEW b \in Index
  PROVE  /\ Distance(a, b) \in 0 .. Capacity - 1
         /\ Distance(a, b) = 0 <=> a = b
BY CapacityAssumption DEF Distance, Index

\* Moving the far end forward, short of a full turn, adds one.
LEMMA DistanceFarEnd ==
  ASSUME NEW a \in Index, NEW b \in Index, Increment(b) # a
  PROVE  /\ Increment(b) \in Index
         /\ Distance(a, Increment(b)) = Distance(a, b) + 1
BY IncrementValue, CapacityAssumption DEF Distance, Index

\* Moving the near end forward, when there is room, takes one off.
LEMMA DistanceNearEnd ==
  ASSUME NEW a \in Index, NEW b \in Index, a # b
  PROVE  /\ Increment(a) \in Index
         /\ Distance(Increment(a), b) = Distance(a, b) - 1
         /\ Distance(a, Increment(a)) = 1
BY IncrementValue, CapacityAssumption DEF Distance, Index

\* A load returns an index on the arc from the value seen to the value held.
LEMMA LoadableOnArc ==
  ASSUME NEW a \in Index, NEW b \in Index, NEW t \in Loadable(a, b)
  PROVE  /\ t \in Index
         /\ Distance(a, b) = Distance(a, t) + Distance(t, b)
<1>1. PICK k \in 0 .. Distance(a, b) : t = Ahead(a, k)
  BY DEF Loadable
<1>2. Distance(a, b) \in 0 .. Capacity - 1
  BY DistanceType
<1>3. QED
  BY <1>1, <1>2, CapacityAssumption DEF Ahead, Distance, Index

-----------------------------------------------------------------------------
(* The inductive invariant.                                                *)

IInv == TypeOK /\ ViewsOrdered

LEMMA InitIInv == Init => IInv
BY CapacityAssumption DEF Init, IInv, TypeOK, ViewsOrdered, Index, Distance

LEMMA NextIInv == IInv /\ [Next]_vars => IInv'
<1> SUFFICES ASSUME IInv, [Next]_vars PROVE IInv'
  OBVIOUS
<1> USE DEF IInv
<1>t. head \in Index /\ tail \in Index /\ seenTail \in Index /\ seenHead \in Index
  BY DEF TypeOK
<1>1. ASSUME NEW e \in Event, PushCheck(e) PROVE IInv'
  <2>1. PICK t \in Loadable(seenTail, tail) :
          /\ seenTail' = t
          /\ producer' = IF RingFull(t) THEN "idle" ELSE "writing"
    BY <1>1 DEF PushCheck
  <2>2. t \in Index /\ Distance(seenTail, tail) = Distance(seenTail, t) + Distance(t, tail)
    BY <2>1, <1>t, LoadableOnArc
  <2>3. TypeOK'
    BY <1>1, <2>1, <2>2 DEF PushCheck, TypeOK
  <2>4. Distance(t, head) = Distance(t, tail) + Distance(tail, seenHead) + Distance(seenHead, head)
    BY <2>2, <1>t, CapacityAssumption DEF ViewsOrdered, Distance, Index
  <2>5. ViewsOrdered'
    BY <1>1, <2>1, <2>4 DEF PushCheck, ViewsOrdered, RingFull, Distance, Increment
  <2>6. QED
    BY <2>3, <2>5
<1>2. CASE PushWrite
  BY <1>2 DEF PushWrite, TypeOK, ViewsOrdered, Distance, Increment
<1>3. CASE PushPublish
  <2>1. Increment(head) # seenTail
    BY <1>3 DEF PushPublish, ViewsOrdered
  <2>2. /\ Increment(head) \in Index
        /\ Distance(seenTail, Increment(head)) = Distance(seenTail, head) + 1
    BY <2>1, <1>t, DistanceFarEnd
  <2>3. Increment(head) # seenHead
    BY <2>1, <1>t, IncrementValue, CapacityAssumption DEF ViewsOrdered, Distance, Index
  <2>4. Distance(seenHead, Increment(head)) = Distance(seenHead, head) + 1
    BY <2>3, <1>t, DistanceFarEnd
  <2>5. /\ Distance(seenTail, head) \in Nat /\ Distance(seenHead, head) \in Nat
        /\ Distance(seenTail, tail) \in Nat /\ Distance(tail, seenHead) \in Nat
    BY <1>t, DistanceType
  <2>6. TypeOK'
    BY <1>3, <2>2 DEF PushPublish, TypeOK
  <2>7. ViewsOrdered'
    BY <1>3, <2>2, <2>4, <2>5 DEF PushPublish, ViewsOrdered, Distance
  <2>8. QED
    BY <2>6, <2>7
<1>4. CASE PopCheck
  <2>1. PICK h \in Loadable(seenHead, head) :
          /\ seenHead' = h
          /\ consumer' = IF RingEmpty(h) THEN "idle" ELSE "reading"
    BY <1>4 DEF PopCheck
  <2>2. h \in Index /\ Distance(seenHead, head) = Distance(seenHead, h) + Distance(h, head)
    BY <2>1, <1>t, LoadableOnArc
  <2>3. TypeOK'
    BY <1>4, <2>1, <2>2 DEF PopCheck, TypeOK
  <2>4. Distance(seenTail, head) = Distance(seenTail, tail) + Distance(tail, h) + Distance(h, head)
    BY <2>2, <1>t, CapacityAssumption DEF ViewsOrdered, Distance, Index
  <2>5. ViewsOrdered'
    BY <1>4, <2>1, <2>4 DEF PopCheck, ViewsOrdered, RingEmpty, Distance, Increment
  <2>6. QED
    BY <2>3, <2>5
<1>5. CASE PopRead
  BY <1>5, <1>t DEF PopRead, TypeOK, ViewsOrdered, Distance, Increment
<1>6. CASE PopRelease
  <2>1. tail # seenHead
    BY <1>6 DEF PopRelease, ViewsOrdered
  <2>2. /\ Increment(tail) \in Index
        /\ Distance(Increment(tail), seenHead) = Distance(tail, seenHead) - 1
    BY <2>1, <1>t, DistanceNearEnd
  <2>3. Distance(seenTail, Increment(tail)) = Distance(seenTail, tail) + 1
    BY <2>1, <1>t, IncrementValue, CapacityAssumption DEF ViewsOrdered, Distance, Index
  <2>4. /\ Distance(seenTail, head) \in Nat /\ Distance(seenHead, head) \in Nat
        /\ Distance(seenTail, tail) \in Nat /\ Distance(tail, seenHead) \in Nat
    BY <1>t, DistanceType
  <2>5. TypeOK'
    BY <1>6, <2>2 DEF PopRelease, TypeOK
  <2>6. ViewsOrdered'
    BY <1>6, <2>2, <2>3, <2>4 DEF PopRelease, ViewsOrdered, Distance
  <2>7. QED
    BY <2>5, <2>6
<1>7. CASE UNCHANGED vars
  BY <1>7 DEF vars, TypeOK, ViewsOrdered, Distance, Increment
<1>8. QED
  BY <1>1, <1>2, <1>3, <1>4, <1>5, <1>6, <1>7 DEF Next

\* The indices, views and program counters of the ring stay in their types.
THEOREM TypeCorrect == Spec => []TypeOK
<1>1. IInv => TypeOK
  BY DEF IInv
<1>2. QED
  BY <1>1, InitIInv, NextIInv, PTL DEF Spec

\* The order of the four indices round the ring always holds: no event is
\* overwritten before it is read and no slot is read before it is published.
THEOREM ViewsCorrect == Spec => []ViewsOrdered
<1>1. IInv => ViewsOrdered
  BY DEF IInv
<1>2. QED
  BY <1>1, InitIInv, NextIInv, PTL DEF Spec

\* Hook thread and worker thread never touch the same slot at the same time.
THEOREM NoRace == Spec => []NoSlotRace
<1>1. IInv => NoSlotRace
  <2> SUFFICES ASSUME IInv, producer = "writing", consumer = "reading", head = tail
               PROVE  FALSE
    BY DEF NoSlotRace
  <2> USE DEF IInv
  <2>1. head \in Index /\ tail \in Index /\ seenTail \in Index /\ seenHead \in Index
    BY DEF TypeOK
  <2>2. tail # seenHead /\ head = tail
    BY DEF ViewsOrdered
  <2>3. QED
    BY <2>1, <2>2, CapacityAssumption DEF ViewsOrdered, Distance, Index
<1>2. QED
  BY <1>1, InitIInv, NextIInv, PTL DEF Spec

-----------------------------------------------------------------------------
(* Refinement: the ring implements the bounded queue.                      *)

\* What PushWrite leaves for PushPublish: the slot holds the event pushed.
SlotWritten == producer = "publishing" => values[head] = pushed

RInv == IInv /\ SlotWritten

LEMMA InitRInv == Init => RInv
BY InitIInv DEF RInv, Init, SlotWritten

LEMMA NextRInv == RInv /\ [Next]_vars => RInv'
<1> SUFFICES ASSUME RInv, [Next]_vars PROVE SlotWritten'
  BY NextIInv DEF RInv
<1>1. head \in Index /\ values \in [Index -> Event]
  BY DEF RInv, IInv, TypeOK
<1>2. QED
  BY <1>1 DEF RInv, SlotWritten, Next, vars, PushCheck, PushWrite, PushPublish,
              PopCheck, PopRead, PopRelease

\* The mapped queue is a sequence of events as long as the unread arc.
LEMMA ContentsType ==
  ASSUME IInv
  PROVE  /\ First \in Index
         /\ Distance(First, head) \in 0 .. Capacity - 1
         /\ Contents \in Seq(Event)
         /\ Len(Contents) = Distance(First, head)
         /\ \A k \in 1 .. Distance(First, head) :
               /\ Ahead(First, k - 1) \in Index
               /\ Contents[k] = values[Ahead(First, k - 1)]
<1>1. head \in Index /\ tail \in Index /\ seenHead \in Index /\ values \in [Index -> Event]
  BY DEF IInv, TypeOK
<1>2. First \in Index
  BY <1>1, DistanceNearEnd DEF IInv, ViewsOrdered, First
<1>3. Distance(First, head) \in 0 .. Capacity - 1
  BY <1>1, <1>2, DistanceType
<1>4. \A k \in 1 .. Distance(First, head) : Ahead(First, k - 1) \in Index
  BY <1>1, <1>2, <1>3, CapacityAssumption DEF Ahead, Index
<1>5. \A k \in 1 .. Distance(First, head) : values[Ahead(First, k - 1)] \in Event
  BY <1>1, <1>4
<1>6. Contents \in [1 .. Distance(First, head) -> Event]
  BY <1>5 DEF Contents
<1>7. Contents \in Seq(Event) /\ Len(Contents) = Distance(First, head)
  BY <1>3, <1>6
<1>8. QED
  BY <1>2, <1>3, <1>4, <1>7 DEF Contents

LEMMA InitRefines == Init => Fifo!Init
<1> SUFFICES ASSUME Init PROVE Fifo!Init
  OBVIOUS
<1>1. IInv
  BY InitIInv
<1>2. Distance(First, head) = 0
  BY CapacityAssumption DEF Init, First, Distance
<1>3. Contents = <<>>
  BY <1>1, <1>2, ContentsType
<1>4. QED
  BY <1>1, <1>3 DEF Fifo!Init, IInv, TypeOK

\* Writing the free slot changes nothing the consumer may still take.
LEMMA WriteStutters ==
  ASSUME RInv, PushWrite
  PROVE  UNCHANGED <<Contents, taken>>
<1>1. head \in Index /\ values \in [Index -> Event] /\ RInv /\ IInv
  BY DEF RInv, IInv, TypeOK
<1>2. First' = First /\ head' = head /\ Distance(First, head)' = Distance(First, head)
  BY DEF PushWrite, First, Distance, Increment
<1>3. First \in Index /\ Distance(First, head) \in 0 .. Capacity - 1
  BY <1>1, ContentsType
<1>4. ASSUME NEW k \in 1 .. Distance(First, head)
      PROVE  values'[Ahead(First, k - 1)] = values[Ahead(First, k - 1)]
  <2>1. Ahead(First, k - 1) # head
    BY <1>1, <1>3, CapacityAssumption DEF Ahead, Distance, Index
  <2>2. Ahead(First, k - 1) \in Index
    BY <1>1, ContentsType
  <2>3. QED
    BY <1>1, <2>1, <2>2 DEF PushWrite
<1>5. Contents' = Contents
  BY <1>2, <1>4 DEF Contents, Ahead
<1>6. QED
  BY <1>5 DEF PushWrite

\* Storing head_ appends the event written, and there is room for it.
LEMMA PublishPushes ==
  ASSUME RInv, PushPublish
  PROVE  Fifo!Push(pushed)
<1>1. IInv /\ [Next]_vars
  BY DEF RInv, Next
<1>2. IInv'
  BY <1>1, NextIInv
<1>3. /\ head \in Index /\ tail \in Index /\ seenTail \in Index /\ seenHead \in Index
      /\ pushed \in Event
  BY <1>1 DEF IInv, TypeOK
<1>4. Increment(head) # seenTail /\ (consumer # "idle" => tail # seenHead)
  BY <1>1 DEF PushPublish, IInv, ViewsOrdered
<1>5. First' = First /\ First \in Index
  BY <1>1, ContentsType DEF PushPublish, First, Increment
<1>6. /\ Distance(seenTail, Increment(head)) = Distance(seenTail, head) + 1
      /\ Distance(seenTail, Increment(head)) \in 0 .. Capacity - 1
  BY <1>3, <1>4, DistanceFarEnd, DistanceType
<1>7. Distance(First, head) <= Distance(seenTail, head)
  BY <1>1, <1>3, <1>4, IncrementValue, CapacityAssumption
     DEF IInv, ViewsOrdered, First, Distance, Index
<1>8. Distance(First, head) < Capacity - 1
  <2>1. Distance(First, head) \in Nat /\ Distance(seenTail, head) \in Nat
    BY <1>3, <1>5, DistanceType
  <2>2. QED
    BY <2>1, <1>6, <1>7, CapacityAssumption
<1>9. Increment(head) # First
  BY <1>3, <1>5, <1>8, IncrementValue, CapacityAssumption DEF Distance, Index
<1>10. Distance(First, head)' = Distance(First, head) + 1
  BY <1>3, <1>5, <1>9, DistanceFarEnd DEF PushPublish, Distance
<1>11. Ahead(First, Distance(First, head)) = head
  BY <1>3, <1>5, CapacityAssumption DEF Ahead, Distance, Index
<1>12. Contents' = Append(Contents, pushed)
  <2> DEFINE n == Distance(First, head)
  <2>1. n \in Nat /\ Contents \in Seq(Event) /\ Len(Contents) = n
    BY <1>1, ContentsType
  <2>2. values' = values /\ values[head] = pushed
    BY DEF PushPublish, RInv, SlotWritten
  <2>3. Contents' = [k \in 1 .. n + 1 |-> values[Ahead(First, k - 1)]]
    BY <1>5, <1>10, <2>2 DEF Contents, Ahead
  <2>4. \A k \in 1 .. n + 1 :
          values[Ahead(First, k - 1)] = IF k <= n THEN Contents[k] ELSE pushed
    BY <1>1, <1>11, <2>1, <2>2, ContentsType
  <2>5. \A k \in 1 .. n : Contents[k] \in Event
    BY <2>1
  <2>6. Contents' \in [1 .. n + 1 -> Event]
    BY <1>3, <2>3, <2>4, <2>5
  <2>7. Contents' \in Seq(Event) /\ Len(Contents') = n + 1
    BY <2>1, <2>6
  <2>8. /\ Append(Contents, pushed) \in Seq(Event)
        /\ Len(Append(Contents, pushed)) = n + 1
        /\ \A k \in 1 .. n : Append(Contents, pushed)[k] = Contents[k]
        /\ Append(Contents, pushed)[n + 1] = pushed
    BY <1>3, <2>1, AppendProperties
  <2>9. \A k \in 1 .. n + 1 : Contents'[k] = Append(Contents, pushed)[k]
    BY <2>1, <2>3, <2>4, <2>8
  <2>10. QED
    BY <2>7, <2>8, <2>9, SeqEqual
<1>13. QED
  BY <1>1, <1>8, <1>12, ContentsType DEF Fifo!Push, PushPublish

\* Copying the slot at tail_ takes the oldest event.
LEMMA ReadPops ==
  ASSUME RInv, PopRead
  PROVE  Fifo!Pop
<1>1. IInv /\ [Next]_vars
  BY DEF RInv, Next
<1>2. /\ head \in Index /\ tail \in Index /\ seenTail \in Index /\ seenHead \in Index
      /\ First = tail /\ tail # seenHead
  BY <1>1 DEF IInv, TypeOK, ViewsOrdered, PopRead, First
<1>3. tail # head
  BY <1>1, <1>2, CapacityAssumption DEF IInv, ViewsOrdered, Distance, Index
<1>4. /\ First' = Increment(tail)
      /\ Distance(First, head)' = Distance(First, head) - 1
  BY <1>2, <1>3, DistanceNearEnd DEF PopRead, First, Distance, Increment
<1>5. /\ Contents \in Seq(Event) /\ Len(Contents) = Distance(First, head)
      /\ Len(Contents) \in Nat /\ Len(Contents) > 0
  BY <1>1, <1>2, <1>3, ContentsType, DistanceType
<1>6. Contents # <<>>
  BY <1>5
<1>7. Contents[1] = values[tail]
  BY <1>1, <1>2, <1>5, ContentsType, CapacityAssumption DEF Ahead, Index
<1>8. taken' = Head(Contents)
  BY <1>5, <1>7 DEF PopRead
<1>9. Contents' = Tail(Contents)
  <2> DEFINE n == Distance(First, head)
  <2>1. n \in 1 .. Capacity - 1
    BY <1>1, <1>5, ContentsType
  <2>2. Contents' = [k \in 1 .. n - 1 |-> values[Ahead(Increment(tail), k - 1)]]
    BY <1>4 DEF Contents, PopRead, Ahead
  <2>3. /\ Tail(Contents) \in Seq(Event) /\ Len(Tail(Contents)) = n - 1
        /\ \A k \in 1 .. n - 1 : Tail(Contents)[k] = Contents[k + 1]
    BY <1>5, <1>6, HeadTailProperties
  <2>4. \A k \in 1 .. n - 1 : Ahead(Increment(tail), k - 1) = Ahead(tail, k)
    BY <1>2, <2>1, IncrementValue, CapacityAssumption DEF Ahead, Index
  <2>5. \A k \in 1 .. n - 1 : Contents[k + 1] = values[Ahead(tail, k)]
    <3>1. \A k \in 1 .. n - 1 : k + 1 \in 1 .. n /\ (k + 1) - 1 = k
      BY <2>1
    <3>2. \A j \in 1 .. n : Contents[j] = values[Ahead(First, j - 1)]
      BY <1>1, ContentsType
    <3>3. QED
      BY <1>2, <3>1, <3>2
  <2>6. \A k \in 1 .. n - 1 : Contents[k + 1] \in Event
    BY <1>5, <2>1
  <2>7. Contents' \in [1 .. n - 1 -> Event]
    BY <2>2, <2>4, <2>5, <2>6
  <2>8. Contents' \in Seq(Event) /\ Len(Contents') = n - 1
    BY <2>1, <2>7
  <2>9. \A k \in 1 .. n - 1 : Contents'[k] = Tail(Contents)[k]
    BY <2>2, <2>3, <2>4, <2>5
  <2>10. QED
    BY <2>3, <2>8, <2>9, SeqEqual
<1>10. QED
  BY <1>6, <1>8, <1>9 DEF Fifo!Pop

LEMMA StepRefines == RInv /\ [Next]_vars => [Fifo!Next]_Fifo!vars
<1> SUFFICES ASSUME RInv, [Next]_vars PROVE Fifo!Next \/ UNCHANGED Fifo!vars
  OBVIOUS
<1>1. ASSUME NEW e \in Event, PushCheck(e) PROVE UNCHANGED Fifo!vars
  BY <1>1 DEF PushCheck, Fifo!vars, Contents, First, Distance, Ahead, Increment
<1>2. CASE PushWrite
  BY <1>2, WriteStutters DEF Fifo!vars
<1>3. CASE PushPublish
  BY <1>3, PublishPushes DEF Fifo!Next, RInv, IInv, TypeOK
<1>4. CASE PopCheck
  <2>1. First' = First
    BY <1>4 DEF PopCheck, First, Increment
  <2>2. QED
    BY <1>4, <2>1 DEF PopCheck, Fifo!vars, Contents, Distance, Ahead
<1>5. CASE PopRead
  BY <1>5, ReadPops DEF Fifo!Next
<1>6. CASE PopRelease
  <2>1. First' = First
    BY <1>6 DEF PopRelease, First, Increment
  <2>2. QED
    BY <1>6, <2>1 DEF PopRelease, Fifo!vars, Contents, Distance, Ahead
<1>7. CASE UNCHANGED vars
  BY <1>7 DEF vars, Fifo!vars, Contents, First, Distance, Ahead, Increment
<1>8. QED
  BY <1>1, <1>2, <1>3, <1>4, <1>5, <1>6, <1>7 DEF Next

\* The lock-free ring implements the bounded first-in first-out queue: events
\* reach the worker once each, in the order the hook pushed them.
THEOREM RingIsFifo == Spec => FifoSpec
BY InitRInv, NextRInv, InitRefines, StepRefines, PTL DEF Spec, FifoSpec, Fifo!Spec

=============================================================================
