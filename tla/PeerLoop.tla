------------------------------ MODULE PeerLoop ------------------------------
(***************************************************************************)
(* One pass after the other of Network::run (network.cpp): the list given  *)
(* to poll is built from peers_, then acceptTcp and handleUdpDiscovery add *)
(* peers and readFromPeer removes them, while the loop compares position i *)
(* of the list with position i of peers_.                                  *)
(*                                                                         *)
(* Beyond the end of the list, and on no other occasion, revents is memory *)
(* that nobody wrote: it says anything.  What is read is a number of       *)
(* bytes; Wire.tla has the frames and Network.tla what they do.            *)
(***************************************************************************)
EXTENDS Naturals, Sequences, FiniteSets

CONSTANTS Conn,     \* bound: the connections there may be, each opened once
          MayClose, \* bound: those the other end may close
          MaxData,  \* bound: how often the other end of each sends
          MaxManual \* bound: the lines of peers.conf

ASSUME BoundAssumption == MayClose \subseteq Conn /\ {MaxData, MaxManual} \subseteq Nat

VARIABLES
    \* the network and the other ends
    state,     \* "none", "knocks" (not accepted), "heard" (a datagram), "open",
               \* "closed" (by this user)
    dialed,    \* this user has dialed: the socket blocks
    sent,      \* how often the other end has sent
    data,      \* what has arrived and is not read
    shut,      \* the other end has closed
    \* the network thread
    pc,
    peers,     \* peers_
    fds,       \* the list given to poll, without the two listening sockets
    listening, \* what poll has said of those two
    i          \* the position the loop is at

envVars == <<state, dialed, sent, data, shut>>
vars == <<envVars, pc, peers, fds, listening, i>>

\* recv on c returns at once, with data or with the news that c is closed.
Readable(c) == data[c] > 0 \/ shut[c]

Unpolled == [tcp |-> FALSE, udp |-> FALSE]

Among(s) == {c \in Conn : state[c] = s}

\* loadManualPeers has dialed some of the peers named in peers.conf.
Manual == {p \in UNION {[1..n -> Conn] : n \in 0..MaxManual} :
              \A k, l \in DOMAIN p : p[k] = p[l] => k = l}

Init ==
    /\ peers \in Manual
    /\ state = [c \in Conn |-> IF \E k \in DOMAIN peers : peers[k] = c
                              THEN "open" ELSE "none"]
    /\ dialed = [c \in Conn |-> state[c] = "open"]
    /\ sent = [c \in Conn |-> 0] /\ data = [c \in Conn |-> 0]
    /\ shut = [c \in Conn |-> FALSE]
    /\ pc = "poll" /\ fds = <<>>
    /\ listening = Unpolled /\ i = 1

(***************************************************************************)
(* The other ends, at any time                                             *)
(***************************************************************************)
\* A peer connects, or its datagram comes in.
Appear(c) ==
    /\ state[c] = "none"
    /\ \E s \in {"knocks", "heard"} : state' = [state EXCEPT ![c] = s]
    /\ UNCHANGED <<dialed, sent, data, shut, pc, peers, fds, listening, i>>

PeerSends(c) ==
    /\ state[c] \in {"knocks", "open"} /\ ~shut[c] /\ sent[c] < MaxData
    /\ sent' = [sent EXCEPT ![c] = @ + 1]
    /\ data' = [data EXCEPT ![c] = @ + 1]
    /\ UNCHANGED <<state, dialed, shut, pc, peers, fds, listening, i>>

PeerCloses(c) ==
    /\ c \in MayClose
    /\ state[c] \in {"knocks", "open"} /\ ~shut[c]
    /\ shut' = [shut EXCEPT ![c] = TRUE]
    /\ UNCHANGED <<state, dialed, sent, data, pc, peers, fds, listening, i>>

(***************************************************************************)
(* A pass                                                                  *)
(***************************************************************************)
\* The list is built and poll returns.
Poll ==
    /\ pc = "poll" /\ pc' = "accept"
    /\ fds' = [k \in DOMAIN peers |->
                  [conn |-> peers[k], pollin |-> Readable(peers[k])]]
    /\ listening' = [tcp |-> Among("knocks") # {}, udp |-> Among("heard") # {}]
    /\ UNCHANGED <<envVars, peers, i>>

AddPeer(c, byDialing) ==
    /\ state' = [state EXCEPT ![c] = "open"]
    /\ dialed' = [dialed EXCEPT ![c] = byDialing]
    /\ peers' = Append(peers, c)

\* acceptTcp
AcceptTcp ==
    /\ pc = "accept" /\ pc' = "udp"
    /\ IF listening.tcp
       THEN \E c \in Among("knocks") : AddPeer(c, FALSE)
       ELSE UNCHANGED <<state, dialed, peers>>
    /\ UNCHANGED <<sent, data, shut, fds, listening, i>>

\* handleUdpDiscovery: the peer is known already, does not answer, or is dialed.
HandleUdpDiscovery ==
    /\ pc = "udp" /\ pc' = "read"
    /\ IF listening.udp
       THEN \E c \in Among("heard") :
              \/ AddPeer(c, TRUE)
              \/ /\ state' = [state EXCEPT ![c] = "none"]
                 /\ UNCHANGED <<dialed, peers>>
       ELSE UNCHANGED <<state, dialed, peers>>
    /\ UNCHANGED <<sent, data, shut, fds, listening, i>>

\* Mutant: the flag is looked up at the next position.
PollinNext(k) == IF k + 1 \in DOMAIN fds THEN {fds[k + 1].pollin} ELSE BOOLEAN

\* What revents at position k says of POLLIN.
Pollin(k) == IF k \in DOMAIN fds THEN {fds[k].pollin} ELSE BOOLEAN

\* The loop is left; the list is no longer needed.
EndLoop == pc' = "send" /\ i' = 1 /\ fds' = <<>> /\ listening' = Unpolled

\* Mutant: the loop ends at the first peer that has sent nothing.
LookWhileReady ==
    /\ pc = "read"
    /\ \/ (i > Len(peers) \/ FALSE \in Pollin(i)) /\ EndLoop
       \/ /\ i <= Len(peers) /\ TRUE \in Pollin(i)
          /\ pc' = "recv" /\ UNCHANGED <<i, fds, listening>>
    /\ UNCHANGED <<envVars, peers>>

\* The next round of the loop, or its end.
Look ==
    /\ pc = "read"
    /\ \/ i > Len(peers) /\ EndLoop
       \/ /\ i <= Len(peers)
          /\ \/ TRUE \in Pollin(i) /\ pc' = "recv" /\ UNCHANGED i
             \/ FALSE \in Pollin(i) /\ i' = i + 1 /\ UNCHANGED pc
          /\ UNCHANGED <<fds, listening>>
    /\ UNCHANGED <<envVars, peers>>

\* readFromPeer(i) gets all the bytes there are, or a buffer full.
RecvData ==
    /\ pc = "recv" /\ data[peers[i]] > 0
    /\ \E n \in 0..data[peers[i]] - 1 : data' = [data EXCEPT ![peers[i]] = n]
    /\ pc' = "read" /\ i' = i + 1
    /\ UNCHANGED <<state, dialed, sent, shut, peers, fds, listening>>

\* Mutant: the next one goes.
WithoutNext(s, k) == [j \in 1..Len(s) - 1 |-> IF j <= k THEN s[j] ELSE s[j + 1]]

Without(s, k) == [j \in 1..Len(s) - 1 |-> IF j < k THEN s[j] ELSE s[j + 1]]

\* readFromPeer(i) gets nothing: the other end has closed, or the socket does
\* not block and has nothing to read.  The peer is removed (removePeer), and the
\* loop ends if that leaves none at this position.  A socket that blocks keeps
\* the thread until there is something to read.
RecvNothing ==
    /\ pc = "recv" /\ data[peers[i]] = 0
    /\ shut[peers[i]] \/ ~dialed[peers[i]]
    /\ state' = [state EXCEPT ![peers[i]] = "closed"]
    /\ peers' = Without(peers, i)
    /\ IF i > Len(peers) - 1 THEN EndLoop
       ELSE pc' = "read" /\ i' = i + 1 /\ UNCHANGED <<fds, listening>>
    /\ UNCHANGED <<dialed, sent, data, shut>>

\* sendPendingSyncs and sendOutbound leave peers_ as it is.
SendAndRepeat ==
    /\ pc = "send" /\ pc' = "poll"
    /\ UNCHANGED <<envVars, peers, fds, listening, i>>

Thread == \/ Poll \/ AcceptTcp \/ HandleUdpDiscovery
          \/ Look \/ RecvData \/ RecvNothing \/ SendAndRepeat

Next == Thread \/ \E c \in Conn : Appear(c) \/ PeerSends(c) \/ PeerCloses(c)

Spec == Init /\ [][Next]_vars

\* The thread is scheduled.
FairSpec == Spec /\ WF_vars(Thread)

-----------------------------------------------------------------------------
\* peers_ holds the open connections, each once.
TypeOK ==
    /\ state \in [Conn -> {"none", "knocks", "heard", "open", "closed"}]
    /\ dialed \in [Conn -> BOOLEAN] /\ shut \in [Conn -> BOOLEAN]
    /\ sent \in [Conn -> 0..MaxData] /\ data \in [Conn -> 0..MaxData]
    /\ pc \in {"poll", "accept", "udp", "read", "recv", "send"}
    /\ peers \in Seq(Conn)
    /\ \A k \in DOMAIN peers : state[peers[k]] = "open"
    /\ \A k, l \in DOMAIN peers : peers[k] = peers[l] => k = l
    /\ fds \in Seq([conn : Conn, pollin : BOOLEAN])
    /\ listening \in [tcp : BOOLEAN, udp : BOOLEAN]
    /\ i \in Nat \ {0}
    /\ pc = "recv" => i <= Len(peers)

\* The list still speaks of the peer the loop is at.
Matches == i \in DOMAIN fds /\ fds[i].conn = peers[i]

\* recv is called on a connection with nothing to read - and a healthy peer is
\* dropped, or the thread waits - only once the list no longer matches peers_:
\* behind a peer removed in this pass, or at one added in it (network.cpp
\* 437-444).
IdleRecvOnlyAfterShift ==
    pc = "recv" /\ ~Readable(peers[i]) => ~Matches

\* The thread waits inside recv.
Waiting == /\ pc = "recv"
           /\ dialed[peers[i]] /\ ~Readable(peers[i])

\* A peer passed over in one pass because the positions have shifted is read in
\* a later one: what has arrived is read, unless the thread waits in recv
\* (network.cpp 410-449).
DataIsRead == \A c \in Conn : data[c] > 0 ~> (data[c] = 0 \/ Waiting)
=============================================================================
