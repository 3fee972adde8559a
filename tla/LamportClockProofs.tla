------------------------- MODULE LamportClockProofs -------------------------
(***************************************************************************)
(* Proofs about LamportClock, for any set of threads and any bound.        *)
(***************************************************************************)
EXTENDS LamportClock, TLAPS

\* A thread's copy is never ahead of the clock, and neither is anything a call
\* has returned: what TimestampsIncrease and RemoteTimeReached need to be
\* inductive.
CopyBehind == \A t \in Thread : pc[t] = "loop" => current[t] <= clock
HandedBehind == \A i \in 1..Len(handed) : handed[i] <= clock

Inv == /\ TypeOK
       /\ CopyBehind
       /\ HandedBehind
       /\ TimestampsIncrease
       /\ RemoteTimeReached

\* Initially nothing was returned and nobody is inside update().
LEMMA InitInv == Init => Inv
  BY DEF Init, Inv, TypeOK, CopyBehind, HandedBehind, TimestampsIncrease,
         RemoteTimeReached

\* A fetch_add returns something later than all that was returned before.
LEMMA FetchAddInv ==
    ASSUME clock \in Nat, handed \in Seq(Nat), HandedBehind,
           TimestampsIncrease, FetchAdd
    PROVE  /\ clock' \in Nat /\ handed' \in Seq(Nat)
           /\ HandedBehind' /\ TimestampsIncrease'
  <1>1. /\ clock' = clock + 1 /\ clock' \in Nat
        /\ handed' = Append(handed, clock + 1)
    BY DEF FetchAdd
  <1>2. /\ handed' \in Seq(Nat)
        /\ Len(handed') = Len(handed) + 1
        /\ Len(handed) \in Nat
        /\ handed'[Len(handed) + 1] = clock + 1
        /\ \A i \in 1..Len(handed) : handed'[i] = handed[i] /\ handed[i] \in Nat
    BY <1>1
  <1>3. HandedBehind'
    BY <1>1, <1>2 DEF HandedBehind
  <1>4. TimestampsIncrease'
    BY <1>1, <1>2 DEF HandedBehind, TimestampsIncrease
  <1> QED BY <1>1, <1>2, <1>3, <1>4

\* Every step of every thread preserves the invariant.
LEMMA NextInv == Inv /\ [Next]_vars => Inv'
<1> SUFFICES ASSUME Inv, [Next]_vars
             PROVE  Inv'
  OBVIOUS
<1> USE DEF Inv, TypeOK
<1>1. ASSUME NEW t \in Thread, Tick(t)
      PROVE  Inv'
  <2>1. HandedBehind' /\ TimestampsIncrease' /\ clock' \in Nat /\ handed' \in Seq(Nat)
    BY <1>1, FetchAddInv DEF Tick
  <2>2. CopyBehind' /\ RemoteTimeReached'
    BY <1>1 DEF Tick, FetchAdd, CopyBehind, RemoteTimeReached
  <2> QED BY <1>1, <2>1, <2>2 DEF Tick
<1>2. ASSUME NEW t \in Thread, UpdateLoad(t)
      PROVE  Inv'
  <2>1. TypeOK'
    BY <1>2, MaxClockAssumption DEF UpdateLoad
  <2>2. CopyBehind' /\ RemoteTimeReached'
    BY <1>2 DEF UpdateLoad, CopyBehind, RemoteTimeReached
  <2>3. HandedBehind' /\ TimestampsIncrease'
    BY <1>2 DEF UpdateLoad, HandedBehind, TimestampsIncrease
  <2> QED BY <2>1, <2>2, <2>3
<1>3. ASSUME NEW t \in Thread, UpdateCaughtUp(t)
      PROVE  Inv'
  <2>1. clock >= remote[t]
    BY <1>3 DEF UpdateCaughtUp, CopyBehind
  <2>2. TypeOK' /\ CopyBehind' /\ RemoteTimeReached'
    BY <1>3, <2>1 DEF UpdateCaughtUp, CopyBehind, RemoteTimeReached
  <2>3. HandedBehind' /\ TimestampsIncrease'
    BY <1>3 DEF UpdateCaughtUp, HandedBehind, TimestampsIncrease
  <2> QED BY <2>2, <2>3
<1>4. ASSUME NEW t \in Thread, UpdateExchange(t)
      PROVE  Inv'
  <2>1. clock < clock' /\ clock' = remote[t] /\ clock' \in Nat
    BY <1>4 DEF UpdateExchange
  <2>2. TypeOK' /\ CopyBehind' /\ RemoteTimeReached'
    BY <1>4, <2>1 DEF UpdateExchange, CopyBehind, RemoteTimeReached
  <2>3. handed' = handed /\ \A i \in 1..Len(handed) : handed[i] \in Nat
    BY <1>4 DEF UpdateExchange
  <2>4. HandedBehind' /\ TimestampsIncrease'
    BY <2>1, <2>3 DEF HandedBehind, TimestampsIncrease
  <2> QED BY <2>2, <2>4
<1>5. ASSUME NEW t \in Thread, UpdateRetry(t)
      PROVE  Inv'
  <2>1. TypeOK' /\ CopyBehind' /\ RemoteTimeReached'
    BY <1>5 DEF UpdateRetry, CopyBehind, RemoteTimeReached
  <2>2. HandedBehind' /\ TimestampsIncrease'
    BY <1>5 DEF UpdateRetry, HandedBehind, TimestampsIncrease
  <2> QED BY <2>1, <2>2
<1>6. ASSUME NEW t \in Thread, UpdateTick(t)
      PROVE  Inv'
  <2>1. HandedBehind' /\ TimestampsIncrease' /\ clock' \in Nat /\ handed' \in Seq(Nat)
    BY <1>6, FetchAddInv DEF UpdateTick
  <2>2. CopyBehind' /\ RemoteTimeReached'
    BY <1>6 DEF UpdateTick, FetchAdd, CopyBehind, RemoteTimeReached
  <2> QED BY <1>6, <2>1, <2>2 DEF UpdateTick
<1>7. CASE UNCHANGED vars
  BY <1>7 DEF vars, CopyBehind, HandedBehind, TimestampsIncrease,
              RemoteTimeReached
<1> QED BY <1>1, <1>2, <1>3, <1>4, <1>5, <1>6, <1>7 DEF Next

LEMMA SpecInv == Spec => []Inv
  BY InitInv, NextInv, PTL DEF Spec

\* The variables keep their types.
THEOREM TypeCorrect == Spec => []TypeOK
  <1>1. Inv => TypeOK
    BY DEF Inv
  <1> QED BY <1>1, SpecInv, PTL

\* However the threads' instructions interleave, every call returns a timestamp
\* later than all those returned before.
THEOREM UniqueTimestamps == Spec => []TimestampsIncrease
  <1>1. Inv => TimestampsIncrease
    BY DEF Inv
  <1> QED BY <1>1, SpecInv, PTL

\* When update() has left its loop the clock is at the remote time or beyond.
THEOREM RemoteTimesAreReached == Spec => []RemoteTimeReached
  <1>1. Inv => RemoteTimeReached
    BY DEF Inv
  <1> QED BY <1>1, SpecInv, PTL

\* No step of any thread moves the clock back.
THEOREM Monotonic == Spec => NeverBackwards
<1>1. Inv /\ [Next]_vars => [clock' >= clock]_vars
  BY DEF Inv, TypeOK, Next, vars, Tick, UpdateLoad, UpdateCaughtUp,
         UpdateExchange, UpdateRetry, UpdateTick, FetchAdd
<1> QED BY <1>1, SpecInv, PTL DEF Spec, NeverBackwards

\* update(r) returns a timestamp later than r: the receive rule of Lamport's
\* clocks.
THEOREM ReceiveRule == Spec => LaterThanRemote
<1>1. ASSUME Inv, NEW t \in Thread, UpdateTick(t)
      PROVE  handed'[Len(handed')] > remote[t]
  <2>1. /\ handed \in Seq(Nat) /\ handed' = Append(handed, clock + 1)
        /\ clock \in Nat /\ remote[t] \in Nat /\ clock >= remote[t]
    BY <1>1 DEF UpdateTick, FetchAdd, Inv, TypeOK, RemoteTimeReached
  <2>2. handed'[Len(handed')] = clock + 1
    BY <2>1
  <2> QED BY <2>1, <2>2
<1>2. Inv /\ [Next]_vars
        => [\A t \in Thread :
              UpdateTick(t) => handed'[Len(handed')] > remote[t]]_vars
  BY <1>1
<1> QED BY <1>2, SpecInv, PTL DEF Spec, LaterThanRemote
=============================================================================
