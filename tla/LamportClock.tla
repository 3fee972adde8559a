---------------------------- MODULE LamportClock ----------------------------
(***************************************************************************)
(* Class LamportClock (utils.h 22-32, utils.cpp 13-31), one step per atomic *)
(* instruction.  In the program the main thread calls tick() for every     *)
(* keystroke while the merge thread calls update() for every operation it  *)
(* receives, with no lock between them: here any number of threads calls   *)
(* either.                                                                 *)
(*                                                                         *)
(* tick() is one fetch_add.  update() loads the clock, raises it to the    *)
(* remote timestamp with a loop around compare_exchange_weak, which may    *)
(* also fail for no reason, and then ticks.                                *)
(***************************************************************************)
EXTENDS Integers, Sequences

CONSTANTS Thread,    \* callers
          MaxClock   \* bound: calls start, and remote times lie, below it

ASSUME MaxClockAssumption == MaxClock \in Nat

VARIABLES clock,     \* clock_
          pc,        \* pc[t]: "idle", or the next instruction of t's update()
          remote,    \* remote[t]: the argument of t's update()
          current,   \* current[t]: t's local copy of the clock
          handed     \* history: what calls returned, in the order of the
                     \* fetch_adds

vars == <<clock, pc, remote, current, handed>>

Init == /\ clock = 0
        /\ pc = [t \in Thread |-> "idle"]
        /\ remote = [t \in Thread |-> 0]
        /\ current = [t \in Thread |-> 0]
        /\ handed = <<>>

\* fetch_add(1) + 1
FetchAdd == /\ clock' = clock + 1
            /\ handed' = Append(handed, clock + 1)

\* tick()
Tick(t) == /\ pc[t] = "idle"
           /\ clock < MaxClock
           /\ FetchAdd
           /\ UNCHANGED <<pc, remote, current>>

\* update(r): the load before the loop.
UpdateLoad(t) ==
    /\ pc[t] = "idle"
    /\ clock < MaxClock
    /\ \E r \in 1..MaxClock : remote' = [remote EXCEPT ![t] = r]
    /\ current' = [current EXCEPT ![t] = clock]
    /\ pc' = [pc EXCEPT ![t] = "loop"]
    /\ UNCHANGED <<clock, handed>>

\* The loop ends without an exchange when the copy has caught up.
UpdateCaughtUp(t) ==
    /\ pc[t] = "loop"
    /\ ~(current[t] < remote[t])
    /\ pc' = [pc EXCEPT ![t] = "tick"]
    /\ UNCHANGED <<clock, remote, current, handed>>

\* Mutant: a plain store instead of the exchange.
UpdateStore(t) ==
    /\ pc[t] = "loop"
    /\ current[t] < remote[t]
    /\ clock' = remote[t]
    /\ pc' = [pc EXCEPT ![t] = "tick"]
    /\ UNCHANGED <<remote, current, handed>>

\* compare_exchange_weak succeeds: the clock still is what t saw.
UpdateExchange(t) ==
    /\ pc[t] = "loop"
    /\ current[t] < remote[t]
    /\ clock = current[t]
    /\ clock' = remote[t]
    /\ pc' = [pc EXCEPT ![t] = "tick"]
    /\ UNCHANGED <<remote, current, handed>>

\* Mutant: no loop around the exchange.
UpdateGiveUp(t) ==
    /\ pc[t] = "loop"
    /\ current[t] < remote[t]
    /\ pc' = [pc EXCEPT ![t] = "tick"]
    /\ UNCHANGED <<clock, remote, current, handed>>

\* Mutant: the copy is not reloaded.
UpdateRetryStale(t) ==
    /\ pc[t] = "loop"
    /\ current[t] < remote[t]
    /\ UNCHANGED vars

\* compare_exchange_weak fails, spuriously or not, and reloads the copy.
UpdateRetry(t) ==
    /\ pc[t] = "loop"
    /\ current[t] < remote[t]
    /\ current' = [current EXCEPT ![t] = clock]
    /\ UNCHANGED <<clock, pc, remote, handed>>

\* The tick() update() returns.
UpdateTick(t) ==
    /\ pc[t] = "tick"
    /\ FetchAdd
    /\ pc' = [pc EXCEPT ![t] = "idle"]
    /\ UNCHANGED <<remote, current>>

Next == \E t \in Thread :
            \/ Tick(t)
            \/ UpdateLoad(t)
            \/ UpdateCaughtUp(t)
            \/ UpdateExchange(t)
            \/ UpdateRetry(t)
            \/ UpdateTick(t)

Spec == Init /\ [][Next]_vars

\* A thread inside update() keeps running, and compare_exchange_weak does not
\* fail spuriously for ever.
Fairness ==
    \A t \in Thread :
        /\ WF_vars(UpdateCaughtUp(t) \/ UpdateRetry(t) \/ UpdateTick(t))
        /\ SF_vars(UpdateExchange(t))

FairSpec == Spec /\ Fairness

-----------------------------------------------------------------------------
TypeOK == /\ clock \in Nat
          /\ pc \in [Thread -> {"idle", "loop", "tick"}]
          /\ remote \in [Thread -> Nat]
          /\ current \in [Thread -> Nat]
          /\ handed \in Seq(Nat)

\* No two calls, of whatever threads, return the same timestamp, and a later
\* call returns a later one: what makes <<timestamp, user>> a total order on
\* one user's operations (utils.cpp 15-17, 19-27).
TimestampsIncrease ==
    \A i, j \in 1..Len(handed) : i < j => handed[i] < handed[j]

\* When the loop of update() is done, the clock has reached the remote time,
\* whatever other threads did meanwhile, so that the tick that follows, and
\* every later one, is beyond it (utils.cpp 21-26).
RemoteTimeReached ==
    \A t \in Thread : pc[t] = "tick" => clock >= remote[t]

\* The clock never runs backwards, although update() stores a value computed
\* from an older copy (utils.cpp 22).
NeverBackwards == [][clock' >= clock]_vars

\* What an update() returns is later than the remote time it was given.
LaterThanRemote ==
    [][\A t \in Thread : UpdateTick(t) => handed'[Len(handed')] > remote[t]]_vars

\* update() returns, even though its loop runs against other threads' ticks.
UpdateReturns == \A t \in Thread : pc[t] = "loop" ~> pc[t] = "idle"
=============================================================================
