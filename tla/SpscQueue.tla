----------------------------- MODULE SpscQueue -----------------------------
(***************************************************************************)
(* SpscQueue (utils.h 48-83), the ring buffer through which the main,      *)
(* merge and network threads talk, with one producer that calls push       *)
(* through pushWithRetry (editor.cpp 16-23, network.cpp 22-30) and one     *)
(* consumer that calls pop in a loop.  A step is one access to shared      *)
(* memory; the load of the index a thread alone writes is joined to the    *)
(* access that follows it.  The stores of the indices release and the      *)
(* loads of the other thread's index acquire, so the accesses to a slot    *)
(* are ordered by them and interleaving steps are what the program does.   *)
(***************************************************************************)
EXTENDS Integers, Sequences

CONSTANTS Capacity,  \* slots; one stays free, so Capacity - 1 items fit
          Retries,   \* attempts pushWithRetry makes (5000 in the code)
          MaxItems   \* bound: items produced

ASSUME CapacityAssumption == Capacity \in Nat /\ Capacity > 1
ASSUME RetriesAssumption == Retries \in Nat \ {0}
ASSUME MaxItemsAssumption == MaxItems \in Nat

VARIABLES buffer,     \* buffer_
          head,       \* head_, stored by the consumer only
          tail,       \* tail_, stored by the producer only
          producer,   \* "idle", "check", "write" or "publish"
          attempts,   \* attempts left for the current item
          item,       \* the current item: the number of items produced
          consumer,   \* "check", "read" or "publish"
          got,        \* the item pop has copied out
          accepted,   \* history: items push returned true for
          taken       \* history: items pop returned true for

producerVars == <<tail, buffer, producer, attempts, item, accepted>>
consumerVars == <<head, consumer, got, taken>>
vars == <<producerVars, consumerVars>>

Slot == 0..Capacity - 1

\* Mutant: no wrap-around.
AfterUnwrapped(i) == i + 1

After(i) == (i + 1) % Capacity

Init == /\ buffer = [s \in Slot |-> 0]
        /\ head = 0 /\ tail = 0
        /\ producer = "idle" /\ attempts = 0 /\ item = 0
        /\ consumer = "check" /\ got = 0
        /\ accepted = <<>> /\ taken = <<>>

(***************************************************************************)
(* The producer: pushWithRetry around push                                 *)
(***************************************************************************)
Produce ==
    /\ producer = "idle"
    /\ item < MaxItems
    /\ item' = item + 1
    /\ attempts' = Retries
    /\ producer' = "check"
    /\ UNCHANGED <<tail, buffer, accepted>>
    /\ UNCHANGED consumerVars

\* push returns false; the last attempt gives the item up silently.
PushFull ==
    /\ producer = "check"
    /\ After(tail) = head
    /\ attempts' = attempts - 1
    /\ producer' = IF attempts = 1 THEN "idle" ELSE "check"
    /\ UNCHANGED <<tail, buffer, item, accepted>>
    /\ UNCHANGED consumerVars

\* Mutant: the check that the queue is full is missing.
PushUnchecked ==
    /\ producer = "check"
    /\ producer' = "write"
    /\ UNCHANGED <<tail, buffer, attempts, item, accepted>>
    /\ UNCHANGED consumerVars

PushHasRoom ==
    /\ producer = "check"
    /\ After(tail) # head
    /\ producer' = "write"
    /\ UNCHANGED <<tail, buffer, attempts, item, accepted>>
    /\ UNCHANGED consumerVars

\* Mutant: the slot after the free one is written.
PushWriteNext ==
    /\ producer = "write"
    /\ buffer' = [buffer EXCEPT ![After(tail)] = item]
    /\ producer' = "publish"
    /\ UNCHANGED <<tail, attempts, item, accepted>>
    /\ UNCHANGED consumerVars

PushWrite ==
    /\ producer = "write"
    /\ buffer' = [buffer EXCEPT ![tail] = item]
    /\ producer' = "publish"
    /\ UNCHANGED <<tail, attempts, item, accepted>>
    /\ UNCHANGED consumerVars

PushPublish ==
    /\ producer = "publish"
    /\ tail' = After(tail)
    /\ accepted' = Append(accepted, item)
    /\ producer' = "idle"
    /\ UNCHANGED <<buffer, attempts, item>>
    /\ UNCHANGED consumerVars

Push == Produce \/ PushFull \/ PushHasRoom \/ PushWrite \/ PushPublish

(***************************************************************************)
(* The consumer: pop, again and again (a pop that finds the queue empty    *)
(* changes nothing)                                                        *)
(***************************************************************************)
\* Mutant: a queue of one item counts as empty.
PopHasTwo ==
    /\ consumer = "check"
    /\ head # tail /\ After(head) # tail
    /\ consumer' = "read"
    /\ UNCHANGED <<head, got, taken>>
    /\ UNCHANGED producerVars

PopHasItem ==
    /\ consumer = "check"
    /\ head # tail
    /\ consumer' = "read"
    /\ UNCHANGED <<head, got, taken>>
    /\ UNCHANGED producerVars

PopRead ==
    /\ consumer = "read"
    /\ got' = buffer[head]
    /\ consumer' = "publish"
    /\ UNCHANGED <<head, taken>>
    /\ UNCHANGED producerVars

PopPublish ==
    /\ consumer = "publish"
    /\ head' = After(head)
    /\ taken' = Append(taken, got)
    /\ consumer' = "check"
    /\ UNCHANGED got
    /\ UNCHANGED producerVars

Pop == PopHasItem \/ PopRead \/ PopPublish

Next == Push \/ Pop

Spec == Init /\ [][Next]_vars

\* The consumer's thread polls its queue for as long as the program runs; the
\* producer, once inside push, is not stopped.
FairSpec == /\ Spec
            /\ WF_vars(Pop)
            /\ WF_vars(PushFull \/ PushHasRoom \/ PushWrite \/ PushPublish)

-----------------------------------------------------------------------------
\* The number of published items that wait, and the slot of the i-th of them.
Size == IF head <= tail THEN tail - head ELSE tail - head + Capacity

SlotOf(i) == IF head + i - 1 < Capacity THEN head + i - 1
                                        ELSE head + i - 1 - Capacity

Contents == [i \in 1..Size |-> buffer[SlotOf(i)]]

TypeOK ==
    /\ buffer \in [Slot -> Nat]
    /\ head \in Slot /\ tail \in Slot
    /\ producer \in {"idle", "check", "write", "publish"}
    /\ attempts \in 0..Retries /\ item \in 0..MaxItems
    /\ consumer \in {"check", "read", "publish"}
    /\ got \in Nat
    /\ accepted \in Seq(Nat) /\ taken \in Seq(Nat)

\* What has been taken and what waits is, item by item, what was accepted:
\* nothing accepted is lost, duplicated or reordered across any number of
\* wrap-arounds (utils.h 54-73).
NothingLost == taken \o Contents = accepted

\* The producer never writes the slot the consumer reads (utils.h 57: the check
\* against head keeps one slot free), so the two unsynchronised accesses to
\* buffer_ never meet.
NoSlotShared ==
    producer = "write" /\ consumer \in {"read", "publish"} => tail # head

\* An accepted item is taken in the end.
EveryItemTaken ==
    \A i \in 1..MaxItems :
        (\E k \in 1..Len(accepted) : accepted[k] = i)
            ~> (\E k \in 1..Len(taken) : taken[k] = i)

Fifo == INSTANCE BoundedFifo
            WITH Item <- 1..MaxItems, Bound <- Capacity - 1, queue <- Contents

\* The ring buffer implements the bounded queue, with the stores of the two
\* indices as the moments an item enters and leaves.
IsBoundedFifo == Fifo!Spec
=============================================================================
