----------------------------- MODULE OneEditor -----------------------------
(***************************************************************************)
(* One editor process against all that its network thread could bring it.  *)
(* The other users are reduced to what SharedText lets them do: they issue *)
(* operations on characters of the file, of each other, or that have been  *)
(* sent to them, later than what they refer to.  The network thread may    *)
(* queue these operations in any order, and queue them again, and may      *)
(* bring back this user's own (snapshots and second links do all that).    *)
(***************************************************************************)
EXTENDS Editor

CONSTANTS Remote,     \* the other users
          MaxRemote,  \* bound: operations they issue
          MaxTime,    \* bound: their timestamps
          MaxArrivals \* bound: operations queued for the merge thread

ASSUME RemoteAssumption == /\ Remote \subseteq Nat \ {0}
                           /\ Remote \cap User = {}
                           /\ {MaxRemote, MaxTime, MaxArrivals} \subseteq Nat

VARIABLES sent,     \* the operations of this user the others have
          arrivals  \* how many operations have been queued

envVars == <<sent, arrivals>>
oneVars == <<editorVars, netQueues, envVars>>

OneInit ==
    /\ EditorInit
    /\ newPeerCount = [u \in User |-> 0]
    /\ lastPeerCount = [u \in User |-> 0]
    /\ sent = {} /\ arrivals = 0

\* The network thread sends everything queued.
Send(u) ==
    /\ outbound[u] # <<>>
    /\ sent' = sent \cup UNION {ToSet(outbound[u][i]) : i \in DOMAIN outbound[u]}
    /\ outbound' = [outbound EXCEPT ![u] = <<>>]
    /\ UNCHANGED <<arrivals, inbound, syncs, newPeerCount>>

Foreign == {o \in issued : o.id[1] \in Remote}
By(r) == {o \in issued : o.id[1] = r}

TimeOf(ops, id) == Max({0} \cup {o.ts : o \in {p \in ops : p.id = id}})

\* Another user issues an operation, later than its own and than the insertion
\* of the character it refers to.
Elsewhere(r) ==
    LET id   == <<r, Cardinality(By(r)) + 1>>
        seen == sent \cup Foreign
    IN  /\ Cardinality(Foreign) < MaxRemote
        /\ \E ref \in {HeadID} \cup {BaseChar(n) : n \in 1..BaseLen}
                      \cup {o.id : o \in {p \in seen : IsInsert(p)}} :
             \E ts \in Max({TimeOf(seen, ref)} \cup {o.ts : o \in By(r)}) + 1
                       .. MaxTime :
               \E op \in {Insert(id, ts, ref, id)}
                         \cup (IF IsHead(ref) THEN {} ELSE {Delete(id, ts, ref)}) :
                 issued' = issued \cup {op}
        /\ UNCHANGED <<sent, arrivals>>
        /\ UNCHANGED netQueues

\* The network thread queues an operation, of another user or, from a
\* snapshot, of this one, for the first time or again.
Arrive(u) ==
    /\ arrivals < MaxArrivals
    /\ \E op \in Foreign \cup sent :
         inbound' = [inbound EXCEPT ![u] = PushTo(@, op, InboundCap)]
    /\ arrivals' = arrivals + 1
    /\ UNCHANGED <<sent, outbound, syncs, newPeerCount>>

\* What the environment leaves alone.
othersVars == <<mainPc, opSeq, anchor, fallback, pending, mergeVars, bothVars>>

Environment ==
    /\ \/ \E r \in Remote : Elsewhere(r)
       \/ (\E u \in User : Send(u) \/ Arrive(u)) /\ UNCHANGED issued
    /\ UNCHANGED othersVars

OneNext == Environment \/ \E u \in User : EditorStep(u) /\ UNCHANGED envVars

OneSpec == OneInit /\ [][OneNext]_oneVars

\* Whatever arrives, the editor's state keeps its types and its queues their
\* limits.
OneTypeOK ==
    /\ EditorTypeOK
    /\ sent \subseteq issued
    /\ arrivals \in 0..MaxArrivals
=============================================================================
