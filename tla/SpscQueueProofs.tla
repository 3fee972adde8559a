-------------------------- MODULE SpscQueueProofs --------------------------
(***************************************************************************)
(* Proofs about SpscQueue, for any capacity, any number of attempts and    *)
(* any number of items: the ring buffer is a bounded FIFO queue.           *)
(***************************************************************************)
EXTENDS SpscQueue, SequenceTheorems, TLAPS

\* What each side has established by the time it touches a slot.
ProducerOwnsSlot ==
    /\ producer # "idle" => item >= 1
    /\ producer = "check" => attempts >= 1
    /\ producer \in {"write", "publish"} => After(tail) # head
    /\ producer = "publish" => buffer[tail] = item

ConsumerOwnsSlot ==
    /\ consumer \in {"read", "publish"} => head # tail
    /\ consumer = "publish" => got = buffer[head]

Inv == TypeOK /\ ProducerOwnsSlot /\ ConsumerOwnsSlot /\ NothingLost

-----------------------------------------------------------------------------
(***************************************************************************)
(* Arithmetic of the ring, and the two steps that change what waits.       *)
(***************************************************************************)
LEMMA AfterSlot ==
    ASSUME NEW i \in Slot
    PROVE  /\ After(i) \in Slot
           /\ After(i) = IF i + 1 = Capacity THEN 0 ELSE i + 1
  BY CapacityAssumption DEF Slot, After

LEMMA SizeType ==
    ASSUME TypeOK
    PROVE  /\ Size \in 0..Capacity - 1
           /\ Size = 0 <=> head = tail
           /\ Size < Capacity - 1 <=> After(tail) # head
           /\ \A i \in 1..Size : SlotOf(i) \in Slot /\ SlotOf(i) # tail
           /\ Size > 0 => SlotOf(1) = head
<1>1. head \in 0..Capacity - 1 /\ tail \in 0..Capacity - 1 /\ Capacity \in Nat
  BY CapacityAssumption DEF TypeOK, Slot
<1>2. After(tail) = IF tail + 1 = Capacity THEN 0 ELSE tail + 1
  BY <1>1, AfterSlot DEF Slot
<1>3. Size \in 0..Capacity - 1 /\ (Size = 0 <=> head = tail)
  BY <1>1 DEF Size
<1>4. Size < Capacity - 1 <=> After(tail) # head
  BY <1>1, <1>2, CapacityAssumption DEF Size
<1>5. \A i \in 1..Size : SlotOf(i) \in Slot /\ SlotOf(i) # tail
  BY <1>1 DEF Size, SlotOf, Slot
<1>6. Size > 0 => SlotOf(1) = head
  BY <1>1 DEF SlotOf
<1> QED BY <1>3, <1>4, <1>5, <1>6

ContentsAreSlots ==
    /\ Contents \in Seq(Nat)
    /\ Len(Contents) = Size
    /\ \A i \in 1..Size : Contents[i] = buffer[SlotOf(i)]

LEMMA ContentsType == TypeOK => ContentsAreSlots
<1> SUFFICES ASSUME TypeOK PROVE ContentsAreSlots
  OBVIOUS
<1> USE DEF ContentsAreSlots
<1>1. Size \in Nat /\ \A i \in 1..Size : SlotOf(i) \in Slot
  BY SizeType, CapacityAssumption
<1>2. Contents \in [1..Size -> Nat]
  BY <1>1 DEF Contents, TypeOK
<1> QED BY <1>1, <1>2 DEF Contents

\* Writing the free slot does not touch what waits.
LEMMA WriteKeepsContents ==
    ASSUME TypeOK, PushWrite
    PROVE  Contents' = Contents
<1>1. Size' = Size /\ \A i : SlotOf(i)' = SlotOf(i)
  BY DEF PushWrite, consumerVars, Size, SlotOf
<1>2. \A i \in 1..Size : buffer'[SlotOf(i)] = buffer[SlotOf(i)]
  BY SizeType DEF PushWrite, TypeOK
<1> QED BY <1>1, <1>2 DEF Contents

\* Storing tail_ appends the item written.
LEMMA PublishAppends ==
    ASSUME TypeOK, TypeOK', ProducerOwnsSlot, PushPublish
    PROVE  Contents' = Append(Contents, item)
<1>1. /\ head' = head /\ buffer' = buffer /\ tail' = After(tail)
      /\ After(tail) # head /\ buffer[tail] = item
  BY DEF PushPublish, consumerVars, ProducerOwnsSlot
<1>2. /\ head \in Slot /\ tail \in Slot /\ item \in Nat
      /\ After(tail) = IF tail + 1 = Capacity THEN 0 ELSE tail + 1
  BY AfterSlot DEF TypeOK
<1>3. Size' = Size + 1 /\ SlotOf(Size + 1) = tail /\ Size \in Nat
  BY <1>1, <1>2, CapacityAssumption DEF Size, SlotOf, Slot
<1>4. \A i : SlotOf(i)' = SlotOf(i)
  BY <1>1 DEF SlotOf
<1>5. /\ Contents' \in Seq(Nat) /\ Len(Contents') = Size + 1
      /\ \A i \in 1..Size + 1 : Contents'[i] = buffer[SlotOf(i)]
  <2>1. /\ Contents' \in Seq(Nat) /\ Len(Contents') = Size'
        /\ \A i \in 1..Size' : Contents'[i] = buffer'[SlotOf(i)']
    <3>1. (TypeOK => ContentsAreSlots)'
      BY ContentsType, PTL
    <3> QED BY <3>1 DEF ContentsAreSlots
  <2> QED BY <1>1, <1>3, <1>4, <2>1
<1>6. /\ Contents \in Seq(Nat) /\ Len(Contents) = Size
      /\ \A i \in 1..Size : Contents[i] = buffer[SlotOf(i)]
  BY ContentsType DEF ContentsAreSlots
<1>7. /\ Append(Contents, item) \in Seq(Nat)
      /\ Len(Append(Contents, item)) = Size + 1
      /\ \A i \in 1..Size + 1 : Append(Contents, item)[i] = buffer[SlotOf(i)]
  BY <1>1, <1>2, <1>3, <1>6, AppendProperties
<1> QED BY <1>3, <1>5, <1>7, SeqEqual

\* Storing head_ removes the item pop has copied, which is the first.
LEMMA PublishRemoves ==
    ASSUME TypeOK, TypeOK', ConsumerOwnsSlot, PopPublish
    PROVE  /\ Contents # <<>>
           /\ got = Head(Contents)
           /\ Contents' = Tail(Contents)
<1>1. /\ tail' = tail /\ buffer' = buffer /\ head' = After(head)
      /\ head # tail /\ got = buffer[head]
  BY DEF PopPublish, producerVars, ConsumerOwnsSlot
<1>2. /\ head \in Slot /\ tail \in Slot
      /\ After(head) = IF head + 1 = Capacity THEN 0 ELSE head + 1
  BY AfterSlot DEF TypeOK
<1>3. Size' = Size - 1 /\ SlotOf(1) = head /\ Size \in Nat \ {0}
  BY <1>1, <1>2, CapacityAssumption DEF Size, SlotOf, Slot
<1>4. \A i \in 1..Size - 1 : SlotOf(i)' = SlotOf(i + 1)
  BY <1>1, <1>2, <1>3, CapacityAssumption DEF Size, SlotOf, Slot
<1>5. /\ Contents' \in Seq(Nat) /\ Len(Contents') = Size - 1
      /\ \A i \in 1..Size - 1 : Contents'[i] = buffer[SlotOf(i + 1)]
  <2>1. /\ Contents' \in Seq(Nat) /\ Len(Contents') = Size'
        /\ \A i \in 1..Size' : Contents'[i] = buffer'[SlotOf(i)']
    <3>1. (TypeOK => ContentsAreSlots)'
      BY ContentsType, PTL
    <3> QED BY <3>1 DEF ContentsAreSlots
  <2> QED BY <1>1, <1>3, <1>4, <2>1
<1>6. /\ Contents \in Seq(Nat) /\ Len(Contents) = Size
      /\ \A i \in 1..Size : Contents[i] = buffer[SlotOf(i)]
  BY ContentsType DEF ContentsAreSlots
<1>7. Contents # <<>>
  BY <1>3, <1>6
<1>8. Head(Contents) = got
  BY <1>1, <1>3, <1>6, <1>7
<1>9. /\ Tail(Contents) \in Seq(Nat) /\ Len(Tail(Contents)) = Size - 1
      /\ \A i \in 1..Size - 1 : Tail(Contents)[i] = buffer[SlotOf(i + 1)]
  BY <1>3, <1>6, <1>7
<1> QED BY <1>5, <1>7, <1>8, <1>9, <1>3, SeqEqual

LEMMA ConcatAppend ==
    ASSUME NEW s \in Seq(Nat), NEW t \in Seq(Nat), NEW x \in Nat
    PROVE  s \o Append(t, x) = Append(s \o t, x)
  OBVIOUS

LEMMA AppendConcat ==
    ASSUME NEW s \in Seq(Nat), NEW t \in Seq(Nat), t # <<>>
    PROVE  Append(s, Head(t)) \o Tail(t) = s \o t
  OBVIOUS

-----------------------------------------------------------------------------
LEMMA InitInv == Init => Inv
<1> SUFFICES ASSUME Init PROVE Inv
  OBVIOUS
<1>1. TypeOK
  BY CapacityAssumption, RetriesAssumption, MaxItemsAssumption
     DEF Init, TypeOK, Slot
<1>2. Size = 0
  BY DEF Init, Size
<1>3. Contents = <<>>
  BY <1>2 DEF Contents
<1>4. ProducerOwnsSlot /\ ConsumerOwnsSlot
  BY DEF Init, ProducerOwnsSlot, ConsumerOwnsSlot
<1> QED BY <1>1, <1>3, <1>4 DEF Init, Inv, NothingLost

\* The contents change only when an index is stored.
LEMMA OtherStepsKeepContents ==
    ASSUME UNCHANGED <<buffer, head, tail>>
    PROVE  Contents' = Contents
  BY DEF Contents, Size, SlotOf

LEMMA NextInv == Inv /\ [Next]_vars => Inv'
<1> SUFFICES ASSUME Inv, [Next]_vars
             PROVE  Inv'
  OBVIOUS
<1>0. TypeOK /\ ProducerOwnsSlot /\ ConsumerOwnsSlot /\ NothingLost
  BY DEF Inv
<1>1. CASE Produce
  <2>1. TypeOK' /\ ProducerOwnsSlot' /\ ConsumerOwnsSlot'
    BY <1>0, <1>1, RetriesAssumption, MaxItemsAssumption
       DEF Produce, consumerVars, TypeOK, ProducerOwnsSlot, ConsumerOwnsSlot
  <2>2. NothingLost'
    BY <1>0, <1>1, OtherStepsKeepContents
       DEF Produce, consumerVars, NothingLost
  <2> QED BY <2>1, <2>2 DEF Inv
<1>2. CASE PushFull
  <2>1. TypeOK' /\ ProducerOwnsSlot' /\ ConsumerOwnsSlot'
    BY <1>0, <1>2, RetriesAssumption
       DEF PushFull, consumerVars, TypeOK, ProducerOwnsSlot, ConsumerOwnsSlot
  <2>2. NothingLost'
    BY <1>0, <1>2, OtherStepsKeepContents
       DEF PushFull, consumerVars, NothingLost
  <2> QED BY <2>1, <2>2 DEF Inv
<1>3. CASE PushHasRoom
  <2>1. TypeOK' /\ ProducerOwnsSlot' /\ ConsumerOwnsSlot'
    BY <1>0, <1>3
       DEF PushHasRoom, consumerVars, TypeOK, ProducerOwnsSlot,
           ConsumerOwnsSlot, After
  <2>2. NothingLost'
    BY <1>0, <1>3, OtherStepsKeepContents
       DEF PushHasRoom, consumerVars, NothingLost
  <2> QED BY <2>1, <2>2 DEF Inv
<1>4. CASE PushWrite
  <2>1. TypeOK' /\ ProducerOwnsSlot' /\ ConsumerOwnsSlot'
    BY <1>0, <1>4
       DEF PushWrite, consumerVars, TypeOK, ProducerOwnsSlot,
           ConsumerOwnsSlot, After
  <2>2. NothingLost'
    BY <1>0, <1>4, WriteKeepsContents
       DEF PushWrite, consumerVars, NothingLost
  <2> QED BY <2>1, <2>2 DEF Inv
<1>5. CASE PushPublish
  <2>1. TypeOK'
    BY <1>0, <1>5, AfterSlot DEF PushPublish, consumerVars, TypeOK
  <2>2. ProducerOwnsSlot' /\ ConsumerOwnsSlot'
    BY <1>0, <1>5
       DEF PushPublish, consumerVars, ProducerOwnsSlot, ConsumerOwnsSlot
  <2>3. NothingLost'
    <3>1. Contents' = Append(Contents, item)
      BY <1>0, <1>5, <2>1, PublishAppends
    <3>2. taken' = taken /\ accepted' = Append(accepted, item)
      BY <1>5 DEF PushPublish, consumerVars
    <3>3. Contents \in Seq(Nat) /\ taken \in Seq(Nat) /\ item \in Nat
      BY <1>0, ContentsType DEF ContentsAreSlots, TypeOK
    <3> QED BY <1>0, <3>1, <3>2, <3>3, ConcatAppend DEF NothingLost
  <2> QED BY <2>1, <2>2, <2>3 DEF Inv
<1>6. CASE PopHasItem
  <2>1. TypeOK' /\ ProducerOwnsSlot' /\ ConsumerOwnsSlot'
    BY <1>0, <1>6
       DEF PopHasItem, producerVars, TypeOK, ProducerOwnsSlot,
           ConsumerOwnsSlot, After
  <2>2. NothingLost'
    BY <1>0, <1>6, OtherStepsKeepContents
       DEF PopHasItem, producerVars, NothingLost
  <2> QED BY <2>1, <2>2 DEF Inv
<1>7. CASE PopRead
  <2>1. TypeOK' /\ ProducerOwnsSlot' /\ ConsumerOwnsSlot'
    BY <1>0, <1>7
       DEF PopRead, producerVars, TypeOK, ProducerOwnsSlot,
           ConsumerOwnsSlot, After
  <2>2. NothingLost'
    BY <1>0, <1>7, OtherStepsKeepContents
       DEF PopRead, producerVars, NothingLost
  <2> QED BY <2>1, <2>2 DEF Inv
<1>8. CASE PopPublish
  <2>1. TypeOK'
    BY <1>0, <1>8, AfterSlot DEF PopPublish, producerVars, TypeOK
  <2>2. ProducerOwnsSlot'
    <3>1. /\ tail \in Slot /\ head \in Slot /\ head # tail
          /\ After(tail) \in Slot /\ After(head) \in Slot
          /\ After(tail) = IF tail + 1 = Capacity THEN 0 ELSE tail + 1
          /\ After(head) = IF head + 1 = Capacity THEN 0 ELSE head + 1
      BY <1>0, <1>8, AfterSlot DEF PopPublish, ConsumerOwnsSlot, TypeOK
    <3>2. After(tail) # After(head)
      BY <3>1, CapacityAssumption DEF Slot
    <3>3. After(tail)' = After(tail)
      BY <1>8 DEF PopPublish, producerVars, After
    <3> QED BY <1>0, <1>8, <3>2, <3>3
            DEF PopPublish, producerVars, ProducerOwnsSlot
  <2>3. ConsumerOwnsSlot'
    BY <1>8 DEF PopPublish, ConsumerOwnsSlot
  <2>4. NothingLost'
    <3>1. /\ Contents # <<>> /\ got = Head(Contents)
          /\ Contents' = Tail(Contents)
      BY <1>0, <1>8, <2>1, PublishRemoves
    <3>2. accepted' = accepted /\ taken' = Append(taken, got)
      BY <1>8 DEF PopPublish, producerVars
    <3>3. Contents \in Seq(Nat) /\ taken \in Seq(Nat)
      BY <1>0, ContentsType DEF ContentsAreSlots, TypeOK
    <3> QED BY <1>0, <3>1, <3>2, <3>3, AppendConcat DEF NothingLost
  <2> QED BY <2>1, <2>2, <2>3, <2>4 DEF Inv
<1>9. CASE UNCHANGED vars
  <2>1. TypeOK' /\ ProducerOwnsSlot' /\ ConsumerOwnsSlot'
    BY <1>0, <1>9
       DEF vars, producerVars, consumerVars, TypeOK, ProducerOwnsSlot,
           ConsumerOwnsSlot, After
  <2>2. NothingLost'
    BY <1>0, <1>9, OtherStepsKeepContents
       DEF vars, producerVars, consumerVars, NothingLost
  <2> QED BY <2>1, <2>2 DEF Inv
<1> QED
  BY <1>1, <1>2, <1>3, <1>4, <1>5, <1>6, <1>7, <1>8, <1>9 DEF Next, Push, Pop

LEMMA SpecInv == Spec => []Inv
  BY InitInv, NextInv, PTL DEF Spec

\* The variables keep their types; in particular both indices stay inside the
\* buffer.
THEOREM TypeCorrect == Spec => []TypeOK
  <1>1. Inv => TypeOK
    BY DEF Inv
  <1> QED BY <1>1, SpecInv, PTL

\* Whatever the capacity, nothing push has accepted is lost, duplicated or
\* reordered.
THEOREM Fifo_NothingLost == Spec => []NothingLost
  <1>1. Inv => NothingLost
    BY DEF Inv
  <1> QED BY <1>1, SpecInv, PTL

\* Producer and consumer never access the same slot.
THEOREM SlotsAreExclusive == Spec => []NoSlotShared
  <1>1. Inv => NoSlotShared
    BY DEF Inv, ConsumerOwnsSlot, NoSlotShared
  <1> QED BY <1>1, SpecInv, PTL

\* The ring buffer, read through Contents, is a bounded FIFO queue.
THEOREM Refinement == Spec => IsBoundedFifo
<1>1. Init => Fifo!Init
  <2> SUFFICES ASSUME Init PROVE Fifo!Init
    OBVIOUS
  <2>1. Size = 0 /\ taken = <<>>
    BY DEF Init, Size
  <2> QED BY <2>1 DEF Contents, Fifo!Init
<1>2. Inv /\ Inv' /\ [Next]_vars => [Fifo!Next]_<<Contents, taken>>
  <2> SUFFICES ASSUME Inv, Inv', [Next]_vars
               PROVE  [Fifo!Next]_<<Contents, taken>>
    OBVIOUS
  <2>0. /\ TypeOK /\ TypeOK' /\ ProducerOwnsSlot /\ ConsumerOwnsSlot
    BY DEF Inv
  <2>1. CASE PushPublish
    <3>1. Contents' = Append(Contents, item) /\ taken' = taken
      BY <2>0, <2>1, PublishAppends DEF PushPublish, consumerVars
    <3>2. item \in 1..MaxItems
      BY <2>0, <2>1, MaxItemsAssumption
         DEF PushPublish, ProducerOwnsSlot, TypeOK
    <3>3. Len(Contents) < Capacity - 1
      <4>1. After(tail) # head
        BY <2>0, <2>1 DEF PushPublish, ProducerOwnsSlot
      <4>2. Len(Contents) = Size
        BY <2>0, ContentsType DEF ContentsAreSlots
      <4> QED BY <2>0, <4>1, <4>2, SizeType
    <3> QED BY <3>1, <3>2, <3>3 DEF Fifo!Next, Fifo!Put
  <2>2. CASE PopPublish
    <3>1. /\ Contents # <<>> /\ got = Head(Contents)
          /\ Contents' = Tail(Contents)
      BY <2>0, <2>2, PublishRemoves
    <3>2. taken' = Append(taken, Head(Contents))
      BY <2>2, <3>1 DEF PopPublish
    <3> QED BY <3>1, <3>2 DEF Fifo!Next, Fifo!Take
  <2>3. CASE PushWrite
    BY <2>0, <2>3, WriteKeepsContents DEF PushWrite, consumerVars
  <2>4. CASE Produce \/ PushFull \/ PushHasRoom \/ PopHasItem \/ PopRead
             \/ UNCHANGED vars
    <3>1. UNCHANGED <<buffer, head, tail, taken>>
      BY <2>4 DEF Produce, PushFull, PushHasRoom, PopHasItem, PopRead, vars,
                  producerVars, consumerVars
    <3> QED BY <3>1, OtherStepsKeepContents
  <2> QED BY <2>1, <2>2, <2>3, <2>4 DEF Next, Push, Pop
<1> QED BY <1>1, <1>2, SpecInv, PTL DEF Spec, IsBoundedFifo, Fifo!Spec
=============================================================================
