------------------------------ MODULE Network ------------------------------
(***************************************************************************)
(* The network thread of every user: class Network (network.cpp).          *)
(*                                                                         *)
(* A link <<u, v>> is the TCP connection u opens when it hears of v (by    *)
(* UDP discovery, or from the list of manual peers).  TCP delivers frames  *)
(* in order and without loss while both ends are open.  A frame is a       *)
(* hello, the operations of an outbound message, or those of a snapshot.   *)
(*                                                                         *)
(* One pass of the loop accepts, connects and reads, in steps of their     *)
(* own, and then sends (SendAll).  sendPendingSyncs and sendOutbound make  *)
(* one step: what other threads queue in between moves before or after it. *)
(***************************************************************************)
EXTENDS Integers, Sequences, FiniteSets, SequencesExt

CONSTANTS User,        \* the users
          Link,        \* bound: the connections that may be opened, each once
          Up,          \* the links that are up when the users start to type
          InboundCap,  \* items inbound_ops_ holds
          Sorted(_)    \* a snapshot as the sequence of operations it is sent as

VARIABLES
    running,       \* running_, cleared by the main thread
    inbound,       \* inbound_ops_, to the merge thread
    outbound,      \* outbound_msgs_, from the main thread
    syncs,         \* new_peer_syncs_, from the merge thread
    newPeerCount,  \* new_peer_count_, read by the merge thread
    netOn,         \* the thread runs
    link,          \* "none", "backlog" (connected, not accepted) or "up"
    peers,         \* peers_: the links the user has open
    named,         \* those whose peer's user_id is known
    waiting,       \* those with needs_sync
    wire,          \* wire[<<l, u>>]: the frames on l on their way to u
    arriving       \* operations of the frame being read, to be queued

threadVars == <<netOn, link, peers, named, waiting, wire, arriving>>

Ends == {e \in Link \X User : e[2] \in {e[1][1], e[1][2]}}
LinksOf(u) == {l \in Link : u \in {l[1], l[2]}}
Other(l, u) == IF u = l[1] THEN l[2] ELSE l[1]

Hello == [kind |-> "hello", ops |-> <<>>]
OpsFrame(ops) == [kind |-> "ops", ops |-> ops]

\* The links in Up are connected, accepted and introduced, and wait for a
\* snapshot at both ends.
NetInit ==
    /\ netOn = [u \in User |-> TRUE]
    /\ link = [l \in Link |-> IF l \in Up THEN "up" ELSE "none"]
    /\ peers = [u \in User |-> LinksOf(u) \cap Up]
    /\ named = peers
    /\ waiting = peers
    /\ wire = [e \in Ends |-> <<>>]
    /\ arriving = [u \in User |-> <<>>]
    /\ newPeerCount = [u \in User |-> Cardinality(peers[u])]

\* The thread is in its loop and not busy queueing what it has read.  running_
\* is looked at between passes only: a pass goes on after the user has quit.
Idle(u) == netOn[u] /\ arriving[u] = <<>>

(***************************************************************************)
(* Connecting                                                              *)
(***************************************************************************)
\* u hears of v and connects, unless it knows it is connected to v already.
Connect(u, l) ==
    /\ Idle(u) /\ l[1] = u /\ link[l] = "none" /\ netOn[l[2]]
    /\ \A k \in named[u] : Other(k, u) # l[2]
    /\ link' = [link EXCEPT ![l] = "backlog"]
    /\ peers' = [peers EXCEPT ![u] = @ \cup {l}]
    /\ named' = [named EXCEPT ![u] = @ \cup {l}]
    /\ waiting' = [waiting EXCEPT ![u] = @ \cup {l}]
    /\ newPeerCount' = [newPeerCount EXCEPT ![u] = @ + 1]
    /\ wire' = [wire EXCEPT ![<<l, l[2]>>] = Append(@, Hello)]
    /\ UNCHANGED <<netOn, arriving, inbound, outbound, syncs>>

Accept(u, l) ==
    /\ Idle(u) /\ l[2] = u /\ link[l] = "backlog"
    /\ link' = [link EXCEPT ![l] = "up"]
    /\ peers' = [peers EXCEPT ![u] = @ \cup {l}]
    /\ UNCHANGED <<netOn, named, waiting, wire, arriving>>
    /\ UNCHANGED <<inbound, outbound, syncs, newPeerCount>>

(***************************************************************************)
(* Reading                                                                 *)
(***************************************************************************)
Incoming(u, l) == /\ Idle(u) /\ l \in peers[u] /\ wire[<<l, u>>] # <<>>
                  /\ wire' = [wire EXCEPT ![<<l, u>>] = Tail(@)]

\* Mutant: the peer is not marked for a snapshot.
ReadHelloOnly(u, l) ==
    /\ Incoming(u, l) /\ Head(wire[<<l, u>>]).kind = "hello"
    /\ named' = [named EXCEPT ![u] = @ \cup {l}]
    /\ newPeerCount' = [newPeerCount EXCEPT ![u] = @ + 1]
    /\ UNCHANGED <<netOn, link, peers, waiting, arriving, inbound, outbound, syncs>>

\* The peer introduces itself: it wants a snapshot.
ReadHello(u, l) ==
    /\ Incoming(u, l) /\ Head(wire[<<l, u>>]).kind = "hello"
    /\ named' = [named EXCEPT ![u] = @ \cup {l}]
    /\ waiting' = [waiting EXCEPT ![u] = @ \cup {l}]
    /\ newPeerCount' = [newPeerCount EXCEPT ![u] = @ + 1]
    /\ UNCHANGED <<netOn, link, peers, arriving, inbound, outbound, syncs>>

ReadOps(u, l) ==
    /\ Incoming(u, l) /\ Head(wire[<<l, u>>]).kind = "ops"
    /\ arriving' = [arriving EXCEPT ![u] = Head(wire[<<l, u>>]).ops]
    /\ UNCHANGED <<netOn, link, peers, named, waiting>>
    /\ UNCHANGED <<inbound, outbound, syncs, newPeerCount>>

\* pushWithRetry(inbound_, op): given up if the queue stays full.
QueueOp(u) ==
    /\ netOn[u] /\ arriving[u] # <<>>
    /\ inbound' = [inbound EXCEPT ![u] =
                      IF Len(@) < InboundCap
                      THEN Append(@, Head(arriving[u])) ELSE @]
    /\ arriving' = [arriving EXCEPT ![u] = Tail(@)]
    /\ UNCHANGED <<netOn, link, peers, named, waiting, wire>>
    /\ UNCHANGED <<outbound, syncs, newPeerCount>>

\* recv returns nothing: the peer has closed its end (removePeer).
PeerGone(u, l) ==
    /\ Idle(u) /\ l \in peers[u] /\ wire[<<l, u>>] = <<>>
    /\ ~netOn[Other(l, u)]
    /\ peers' = [peers EXCEPT ![u] = @ \ {l}]
    /\ named' = [named EXCEPT ![u] = @ \ {l}]
    /\ waiting' = [waiting EXCEPT ![u] = @ \ {l}]
    /\ UNCHANGED <<netOn, link, wire, arriving>>
    /\ UNCHANGED <<inbound, outbound, syncs, newPeerCount>>

(***************************************************************************)
(* Sending                                                                 *)
(***************************************************************************)
\* The oldest snapshot, for the peers that wait for one.
Snapshot(u) ==
    IF waiting[u] # {} /\ syncs[u] # <<>>
    THEN <<OpsFrame(Sorted(Head(syncs[u])))>> ELSE <<>>

\* Snapshot and live are put on the wire: the snapshot to the peers that wait,
\* who wait no more, and live to those in receivers.
SendTo(u, receivers, live) ==
    /\ Idle(u)
    /\ Snapshot(u) # <<>> \/ outbound[u] # <<>>
    /\ wire' = [e \in Ends |->
                  IF e[1] \notin peers[u] \/ e[2] = u \/ ~netOn[e[2]]
                  THEN wire[e]
                  ELSE wire[e]
                       \o (IF e[1] \in waiting[u] THEN Snapshot(u) ELSE <<>>)
                       \o (IF e[1] \in receivers THEN live ELSE <<>>)]
    /\ IF Snapshot(u) # <<>>
       THEN /\ syncs' = [syncs EXCEPT ![u] = Tail(@)]
            /\ waiting' = [waiting EXCEPT ![u] = {}]
       ELSE UNCHANGED <<syncs, waiting>>
    /\ outbound' = [outbound EXCEPT ![u] = <<>>]
    /\ UNCHANGED <<netOn, link, peers, named, arriving, inbound, newPeerCount>>

Live(u) == [i \in DOMAIN outbound[u] |-> OpsFrame(outbound[u][i])]

\* Mutant: who gets a snapshot gets nothing else.
SendAllOrSnapshot(u) ==
    SendTo(u, IF Snapshot(u) # <<>> THEN peers[u] \ waiting[u] ELSE peers[u], Live(u))

\* Mutant: the newest message is sent first.
SendAllReversed(u) == SendTo(u, peers[u], Reverse(Live(u)))

\* sendPendingSyncs, then sendOutbound: a snapshot to those that wait, then
\* every outbound message to every peer.
SendAll(u) == SendTo(u, peers[u], Live(u))

\* The loop is left and the sockets are closed.
StopNetwork(u) ==
    /\ netOn[u] /\ ~running[u] /\ arriving[u] = <<>>
    /\ netOn' = [netOn EXCEPT ![u] = FALSE]
    /\ peers' = [peers EXCEPT ![u] = {}]
    /\ named' = [named EXCEPT ![u] = {}]
    /\ waiting' = [waiting EXCEPT ![u] = {}]
    /\ wire' = [e \in Ends |-> IF e[2] = u THEN <<>> ELSE wire[e]]
    /\ UNCHANGED <<link, arriving, inbound, outbound, syncs, newPeerCount>>

NetworkStep(u) ==
    /\ UNCHANGED running
    /\ \/ \E l \in LinksOf(u) : \/ Connect(u, l) \/ Accept(u, l)
                                \/ ReadHello(u, l) \/ ReadOps(u, l)
                                \/ PeerGone(u, l)
       \/ QueueOp(u) \/ SendAll(u) \/ StopNetwork(u)
=============================================================================
