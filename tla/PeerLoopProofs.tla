--------------------------- MODULE PeerLoopProofs ---------------------------
(***************************************************************************)
(* Proofs about PeerLoop, for any set of connections.  The argument is one *)
(* about positions: in a pass a peer only moves to the left in peers_, so  *)
(* that ahead of the loop the list given to poll names a peer at its own   *)
(* position or at one further to the right, where it is not recognised.    *)
(***************************************************************************)
EXTENDS PeerLoop, TLAPS

\* What is unread was sent.
ReadAfterSent == \A c \in Conn : data[c] <= sent[c]

\* A listed connection was open when the list was built.
ListedWereOpen == \A k \in DOMAIN fds : state[fds[k].conn] \in {"open", "closed"}

\* Peers only move to the left.
OnlyShiftedLeft ==
    \A k \in DOMAIN fds : \A l \in DOMAIN peers : fds[k].conn = peers[l] => l <= k

\* recv follows the flag at its position, if there is one.
RecvWherePolled == pc = "recv" /\ i \in DOMAIN fds => fds[i].pollin

\* What poll has found readable stays so until the loop comes to it.
StillReadable ==
    \A k \in DOMAIN fds \cap DOMAIN peers :
        k >= i /\ fds[k].conn = peers[k] /\ fds[k].pollin => Readable(peers[k])

Inv == /\ TypeOK /\ ReadAfterSent /\ ListedWereOpen
       /\ OnlyShiftedLeft /\ RecvWherePolled /\ StillReadable

\* What TypeOK says of the elements of the two lists and of the counters.
LEMMA Elements ==
    ASSUME TypeOK
    PROVE  /\ DOMAIN peers = 1..Len(peers) /\ Len(peers) \in Nat
           /\ \A k \in DOMAIN peers : peers[k] \in Conn /\ k \in Nat \ {0}
           /\ \A k, l \in DOMAIN peers : peers[k] = peers[l] => k = l
           /\ \A k \in DOMAIN peers : state[peers[k]] = "open"
           /\ \A k \in DOMAIN fds : fds[k].conn \in Conn /\ k \in Nat \ {0}
           /\ \A c \in Conn : data[c] \in Nat /\ sent[c] \in Nat
           /\ i \in Nat \ {0}
<1> DEFINE Entry == [conn : Conn, pollin : BOOLEAN]
<1>1. \A k \in DOMAIN fds : fds[k] \in Entry /\ k \in Nat \ {0}
  <2>1. fds \in Seq(Entry)
    BY DEF TypeOK
  <2> HIDE DEF Entry
  <2> QED BY <2>1
<1>2. \A k \in DOMAIN fds : fds[k].conn \in Conn /\ k \in Nat \ {0}
  BY <1>1
<1>3. \A c \in Conn : data[c] \in Nat /\ sent[c] \in Nat
  BY BoundAssumption DEF TypeOK
<1> QED BY <1>2, <1>3 DEF TypeOK

\* In the beginning there is no list, and the peers are those dialed.
LEMMA InitInv == Init => Inv
<1> SUFFICES ASSUME Init
             PROVE  Inv
  OBVIOUS
<1>1. /\ peers \in Seq(Conn)
      /\ \A k, l \in DOMAIN peers : peers[k] = peers[l] => k = l
  <2>1. PICK n \in 0..MaxManual : peers \in [1..n -> Conn]
    BY DEF Init, Manual
  <2>2. n \in Nat
    BY <2>1, BoundAssumption
  <2> QED BY <2>1, <2>2 DEF Init, Manual
<1>2. \A k \in DOMAIN peers : peers[k] \in Conn /\ state[peers[k]] = "open"
  BY <1>1 DEF Init
<1>3. fds = <<>> /\ pc = "poll" /\ i = 1
  BY DEF Init
<1>4. TypeOK
  <2>1. /\ state \in [Conn -> {"none", "knocks", "heard", "open", "closed"}]
        /\ dialed \in [Conn -> BOOLEAN] /\ shut \in [Conn -> BOOLEAN]
        /\ sent \in [Conn -> 0..MaxData] /\ data \in [Conn -> 0..MaxData]
        /\ listening \in [tcp : BOOLEAN, udp : BOOLEAN]
    BY BoundAssumption DEF Init, Unpolled
  <2> QED BY <1>1, <1>2, <1>3, <2>1 DEF TypeOK
<1>5. ReadAfterSent
  BY DEF Init, ReadAfterSent
<1> QED BY <1>3, <1>4, <1>5 DEF Inv, ListedWereOpen, OnlyShiftedLeft,
           RecvWherePolled, StillReadable

\* What the other ends do adds to what can be read.
LEMMA EnvInv ==
    ASSUME Inv, NEW c \in Conn, Appear(c) \/ PeerSends(c) \/ PeerCloses(c)
    PROVE  Inv'
<1> USE DEF Inv
<1>1. /\ UNCHANGED <<pc, peers, fds, listening, i>>
      /\ \A d \in Conn : state[d] \in {"open", "closed"} => state'[d] = state[d]
      /\ \A d \in Conn : Readable(d) => Readable(d)'
  <2>1. CASE Appear(c)
    BY <2>1 DEF Appear, TypeOK, Readable
  <2>2. CASE PeerSends(c)
    BY <2>2, Elements DEF PeerSends, TypeOK, Readable
  <2>3. CASE PeerCloses(c)
    BY <2>3 DEF PeerCloses, TypeOK, Readable
  <2> QED BY <2>1, <2>2, <2>3
<1>2. \A k \in DOMAIN fds : fds[k].conn \in Conn
  BY Elements
<1>3. \A k \in DOMAIN peers : peers[k] \in Conn /\ state[peers[k]] = "open"
  BY Elements
<1>4. ReadAfterSent'
  <2>1. CASE PeerSends(c)
    BY <2>1, Elements DEF PeerSends, TypeOK, ReadAfterSent
  <2>2. CASE Appear(c) \/ PeerCloses(c)
    BY <2>2 DEF Appear, PeerCloses, ReadAfterSent
  <2> QED BY <2>1, <2>2
<1>5. TypeOK'
  <2>1. /\ state' \in [Conn -> {"none", "knocks", "heard", "open", "closed"}]
        /\ dialed' \in [Conn -> BOOLEAN] /\ shut' \in [Conn -> BOOLEAN]
        /\ sent' \in [Conn -> 0..MaxData]
    <3>1. CASE Appear(c)
      BY <3>1 DEF Appear, TypeOK
    <3>2. CASE PeerSends(c)
      BY <3>2, BoundAssumption DEF PeerSends, TypeOK
    <3>3. CASE PeerCloses(c)
      BY <3>3 DEF PeerCloses, TypeOK
    <3> QED BY <3>1, <3>2, <3>3
  <2>2. data' \in [Conn -> 0..MaxData]
    <3>1. CASE PeerSends(c)
      <4>1. data' = [data EXCEPT ![c] = @ + 1] /\ data[c] + 1 \in 0..MaxData
        BY <3>1, BoundAssumption DEF PeerSends, TypeOK, ReadAfterSent
      <4> QED BY <4>1 DEF TypeOK
    <3>2. CASE Appear(c) \/ PeerCloses(c)
      BY <3>2 DEF Appear, PeerCloses, TypeOK
    <3> QED BY <3>1, <3>2
  <2> QED BY <1>1, <1>3, <2>1, <2>2 DEF TypeOK
<1>6. ListedWereOpen' /\ OnlyShiftedLeft' /\ RecvWherePolled'
  BY <1>1, <1>2 DEF ListedWereOpen, OnlyShiftedLeft, RecvWherePolled
<1>7. StillReadable'
  BY <1>1, <1>3 DEF StillReadable
<1> QED BY <1>4, <1>5, <1>6, <1>7

\* The list is built from peers_: every position fits.
LEMMA PollInv == ASSUME Inv, Poll PROVE Inv'
<1> USE DEF Inv
<1>1. /\ fds' \in Seq([conn : Conn, pollin : BOOLEAN])
      /\ DOMAIN fds' = DOMAIN peers
      /\ \A k \in DOMAIN peers : /\ fds'[k].conn = peers[k]
                                 /\ fds'[k].pollin => Readable(peers[k])
                                 /\ peers[k] \in Conn
  <2>1. \A k \in DOMAIN peers :
            [conn |-> peers[k], pollin |-> Readable(peers[k])]
              \in [conn : Conn, pollin : BOOLEAN]
    BY DEF TypeOK, Readable
  <2>2. /\ fds' = [k \in 1..Len(peers) |->
                      [conn |-> peers[k], pollin |-> Readable(peers[k])]]
        /\ DOMAIN peers = 1..Len(peers) /\ Len(peers) \in Nat
    BY DEF Poll, TypeOK
  <2>3. fds' \in Seq([conn : Conn, pollin : BOOLEAN])
    BY <2>1, <2>2
  <2> QED BY <2>2, <2>3, Elements
<1>2. UNCHANGED <<envVars, peers, i>> /\ pc' = "accept"
  BY DEF Poll
<1>3. listening' \in [tcp : BOOLEAN, udp : BOOLEAN]
  BY DEF Poll
<1>4. TypeOK' /\ ReadAfterSent'
  BY <1>1, <1>2, <1>3 DEF TypeOK, ReadAfterSent, envVars
<1>5. ListedWereOpen' /\ RecvWherePolled'
  BY <1>1, <1>2 DEF TypeOK, ListedWereOpen, RecvWherePolled, envVars
<1>6. OnlyShiftedLeft'
  BY <1>1, <1>2, Elements DEF OnlyShiftedLeft
<1>7. StillReadable'
  BY <1>1, <1>2 DEF StillReadable, Readable, envVars
<1> QED BY <1>4, <1>5, <1>6, <1>7

\* A new peer goes to the end of peers_ and is not in the list.
LEMMA AddPeerInv ==
    ASSUME Inv, NEW c \in Conn, state[c] \in {"knocks", "heard"},
           NEW byDialing \in BOOLEAN, AddPeer(c, byDialing),
           UNCHANGED <<sent, data, shut, fds, listening, i>>,
           pc' \in {"udp", "read"}
    PROVE  Inv'
<1> USE DEF Inv
<1>1. /\ peers' = Append(peers, c) /\ Len(peers) \in Nat
      /\ DOMAIN peers = 1..Len(peers) /\ DOMAIN peers' = 1..Len(peers) + 1
      /\ peers'[Len(peers) + 1] = c
      /\ \A k \in DOMAIN peers : peers'[k] = peers[k] /\ peers[k] \in Conn
      /\ peers' \in Seq(Conn)
  BY DEF AddPeer, TypeOK
<1>2. /\ state' = [state EXCEPT ![c] = "open"]
      /\ dialed' = [dialed EXCEPT ![c] = byDialing]
  BY DEF AddPeer
<1>3. \A k \in DOMAIN fds : fds[k].conn \in Conn /\ fds[k].conn # c
  BY Elements DEF ListedWereOpen
<1>4. \A k \in DOMAIN peers : peers[k] # c
  BY Elements
<1>5. TypeOK'
  <2>1. \A k \in DOMAIN peers' : state'[peers'[k]] = "open"
    <3>1. state \in [Conn -> {"none", "knocks", "heard", "open", "closed"}]
      BY DEF TypeOK
    <3>2. \A d \in Conn : state[d] = "open" \/ d = c => state'[d] = "open"
      BY <1>2, <3>1
    <3> QED BY <1>1, <3>2, Elements
  <2>2. \A k, l \in DOMAIN peers' : peers'[k] = peers'[l] => k = l
    BY <1>1, <1>4 DEF TypeOK
  <2>3. /\ state' \in [Conn -> {"none", "knocks", "heard", "open", "closed"}]
        /\ dialed' \in [Conn -> BOOLEAN]
    BY <1>2 DEF TypeOK
  <2> QED BY <1>1, <2>1, <2>2, <2>3 DEF TypeOK
<1>6. ReadAfterSent' /\ RecvWherePolled'
  BY DEF ReadAfterSent, RecvWherePolled
<1>7. ListedWereOpen'
  BY <1>2, <1>3 DEF ListedWereOpen, TypeOK
<1>8. OnlyShiftedLeft'
  BY <1>1, <1>3 DEF OnlyShiftedLeft
<1>9. StillReadable'
  BY <1>1, <1>3 DEF StillReadable, Readable
<1> QED BY <1>5, <1>6, <1>7, <1>8, <1>9

\* Accepting and dialing: a peer more, or none.
LEMMA AcceptInv == ASSUME Inv, AcceptTcp PROVE Inv'
<1>1. CASE listening.tcp
  <2>1. PICK c \in Among("knocks") : AddPeer(c, FALSE)
    BY <1>1 DEF AcceptTcp
  <2> QED BY <2>1, AddPeerInv DEF Among, AcceptTcp
<1>2. CASE ~listening.tcp
  BY <1>2 DEF AcceptTcp, Inv, TypeOK, ReadAfterSent, ListedWereOpen,
     OnlyShiftedLeft, RecvWherePolled, StillReadable, Readable
<1> QED BY <1>1, <1>2

LEMMA DiscoveryInv == ASSUME Inv, HandleUdpDiscovery PROVE Inv'
<1>1. ASSUME NEW c \in Among("heard"), AddPeer(c, TRUE)
      PROVE  Inv'
  BY <1>1, AddPeerInv DEF Among, HandleUdpDiscovery
<1>2. ASSUME NEW c \in Among("heard"),
             state' = [state EXCEPT ![c] = "none"], UNCHANGED <<dialed, peers>>
      PROVE  Inv'
  BY <1>2 DEF HandleUdpDiscovery, Among, Inv, TypeOK, ReadAfterSent,
     ListedWereOpen, OnlyShiftedLeft, RecvWherePolled, StillReadable, Readable
<1>3. CASE UNCHANGED <<state, dialed, peers>>
  BY <1>3 DEF HandleUdpDiscovery, Inv, TypeOK, ReadAfterSent, ListedWereOpen,
     OnlyShiftedLeft, RecvWherePolled, StillReadable, Readable
<1> QED BY <1>1, <1>2, <1>3 DEF HandleUdpDiscovery

\* Without a list there is nothing to show about positions.
LEMMA EndLoopInv ==
    ASSUME EndLoop, TypeOK'
    PROVE  ListedWereOpen' /\ OnlyShiftedLeft' /\ RecvWherePolled' /\ StillReadable'
  BY DEF EndLoop, ListedWereOpen, OnlyShiftedLeft, RecvWherePolled, StillReadable

\* The loop goes on, looks at a flag, or ends.
LEMMA LookInv == ASSUME Inv, Look PROVE Inv'
<1> USE DEF Inv
<1>1. CASE EndLoop
  <2>1. TypeOK' /\ ReadAfterSent'
    BY <1>1 DEF Look, EndLoop, TypeOK, ReadAfterSent, Unpolled, envVars
  <2> QED BY <1>1, <2>1, EndLoopInv
<1>2. CASE i <= Len(peers) /\ TRUE \in Pollin(i) /\ pc' = "recv"
           /\ UNCHANGED <<i, fds, listening>>
  BY <1>2 DEF Look, Pollin, TypeOK, ReadAfterSent, ListedWereOpen,
     OnlyShiftedLeft, RecvWherePolled, StillReadable, Readable, envVars
<1>3. CASE i' = i + 1 /\ UNCHANGED <<pc, fds, listening>>
  <2>1. i \in Nat /\ i' = i + 1
    BY <1>3 DEF TypeOK
  <2>2. UNCHANGED <<envVars, pc, peers, fds, listening>> /\ pc = "read"
    BY <1>3 DEF Look
  <2>3. TypeOK' /\ ReadAfterSent' /\ ListedWereOpen' /\ OnlyShiftedLeft'
    BY <2>1, <2>2 DEF TypeOK, ReadAfterSent, ListedWereOpen, OnlyShiftedLeft, envVars
  <2>4. RecvWherePolled' /\ StillReadable'
    BY <2>1, <2>2, Elements DEF RecvWherePolled, StillReadable, Readable, envVars
  <2> QED BY <2>3, <2>4
<1> QED BY <1>1, <1>2, <1>3 DEF Look

\* Reading from one peer leaves the others readable.
LEMMA RecvDataInv == ASSUME Inv, RecvData PROVE Inv'
<1> USE DEF Inv
<1>1. /\ i \in DOMAIN peers /\ i \in Nat \ {0} /\ peers[i] \in Conn
      /\ DOMAIN peers \subseteq Nat
  BY DEF RecvData, TypeOK
<1>2. PICK n \in 0..data[peers[i]] - 1 : data' = [data EXCEPT ![peers[i]] = n]
  BY DEF RecvData
<1>3. /\ UNCHANGED <<state, dialed, sent, shut, peers, fds, listening>>
      /\ pc' = "read" /\ i' = i + 1
  BY DEF RecvData
<1>4. /\ n \in 0..MaxData /\ n <= data[peers[i]]
      /\ data[peers[i]] \in Nat /\ \A c \in Conn : sent[c] \in Nat
  BY <1>1, BoundAssumption DEF TypeOK
<1>5. TypeOK'
  BY <1>1, <1>2, <1>3, <1>4 DEF TypeOK
<1>6. ReadAfterSent'
  BY <1>1, <1>2, <1>3, <1>4 DEF ReadAfterSent, TypeOK
<1>7. ListedWereOpen' /\ OnlyShiftedLeft' /\ RecvWherePolled'
  BY <1>3 DEF ListedWereOpen, OnlyShiftedLeft, RecvWherePolled
<1>8. \A k \in DOMAIN peers : k >= i + 1 =>
            /\ peers[k] \in Conn /\ peers[k] # peers[i]
            /\ Readable(peers[k]) => Readable(peers[k])'
  <2>1. \A c \in Conn : c # peers[i] => data'[c] = data[c]
    BY <1>2 DEF TypeOK
  <2> QED BY <1>1, <1>3, <2>1, Elements DEF Readable
<1>9. \A k \in DOMAIN fds \cap DOMAIN peers : k >= i + 1 => k >= i
  BY <1>1
<1>10. StillReadable'
  BY <1>3, <1>8, <1>9 DEF StillReadable
<1> QED BY <1>5, <1>6, <1>7, <1>10

\* A peer is removed: those behind it move to the left, away from their
\* positions in the list.
LEMMA RecvNothingInv == ASSUME Inv, RecvNothing PROVE Inv'
<1> USE DEF Inv
<1> DEFINE n == Len(peers)
<1>1. /\ i \in 1..n /\ n \in Nat /\ DOMAIN peers = 1..n /\ peers[i] \in Conn
      /\ \A k \in 1..n : peers[k] \in Conn /\ state[peers[k]] = "open"
      /\ \A k, l \in 1..n : peers[k] = peers[l] => k = l
  <2>1. i <= n
    BY DEF RecvNothing, TypeOK
  <2>2. DOMAIN peers = 1..n /\ n \in Nat /\ i \in Nat \ {0}
    BY Elements
  <2>3. i \in 1..n
    BY <2>1, <2>2
  <2> QED BY <2>2, <2>3, Elements
<1>2. /\ peers' = Without(peers, i) /\ UNCHANGED <<dialed, sent, data, shut>>
      /\ state' = [state EXCEPT ![peers[i]] = "closed"]
  BY DEF RecvNothing
<1>3. /\ peers' = [j \in 1..n - 1 |-> IF j < i THEN peers[j] ELSE peers[j + 1]]
      /\ DOMAIN peers' = 1..n - 1
      /\ \A j \in 1..n - 1 : IF j < i THEN peers'[j] = peers[j]
                             ELSE peers'[j] = peers[j + 1] /\ j + 1 \in 1..n
  BY <1>1, <1>2 DEF Without
<1>4. peers' \in Seq(Conn) /\ Len(peers') = n - 1
  <2>1. \A j \in 1..n - 1 : peers'[j] \in Conn
    BY <1>1, <1>3
  <2>2. n - 1 \in Nat /\ peers' \in [1..n - 1 -> Conn]
    BY <1>1, <1>3, <2>1
  <2> QED BY <2>2
<1>5. /\ \/ EndLoop
         \/ pc' = "read" /\ i' = i + 1 /\ UNCHANGED <<fds, listening>>
  BY DEF RecvNothing
<1>6. \A j, k \in 1..n - 1 : peers'[j] = peers'[k] => j = k
  <2>1. ASSUME NEW j \in 1..n - 1, NEW k \in 1..n - 1, peers'[j] = peers'[k]
        PROVE  j = k
    <3>1. CASE j < i /\ k < i
      BY <1>1, <1>3, <2>1, <3>1
    <3>2. CASE j >= i /\ k >= i
      BY <1>1, <1>3, <2>1, <3>2
    <3>3. CASE j < i /\ k >= i
      BY <1>1, <1>3, <2>1, <3>3
    <3>4. CASE j >= i /\ k < i
      BY <1>1, <1>3, <2>1, <3>4
    <3> QED BY <1>1, <3>1, <3>2, <3>3, <3>4
  <2> QED BY <2>1
<1>7. \A j \in 1..n - 1 : peers'[j] # peers[i] /\ state'[peers'[j]] = "open"
  <2>1. \A c \in Conn : c # peers[i] => state'[c] = state[c]
    BY <1>2 DEF TypeOK
  <2>2. \A j \in 1..n - 1 : \E k \in 1..n : k # i /\ peers'[j] = peers[k]
    BY <1>1, <1>3
  <2> QED BY <1>1, <2>1, <2>2
<1>8. TypeOK'
  <2>1. fds' \in Seq([conn : Conn, pollin : BOOLEAN])
        /\ listening' \in [tcp : BOOLEAN, udp : BOOLEAN]
        /\ i' \in Nat \ {0} /\ pc' \in {"read", "send"}
    <3>1. CASE EndLoop
      BY <3>1 DEF EndLoop, Unpolled
    <3>2. CASE pc' = "read" /\ i' = i + 1 /\ UNCHANGED <<fds, listening>>
      BY <1>1, <3>2 DEF TypeOK
    <3> QED BY <1>5, <3>1, <3>2
  <2>2. state' \in [Conn -> {"none", "knocks", "heard", "open", "closed"}]
    BY <1>2 DEF TypeOK
  <2>3. /\ dialed' \in [Conn -> BOOLEAN] /\ shut' \in [Conn -> BOOLEAN]
        /\ sent' \in [Conn -> 0..MaxData] /\ data' \in [Conn -> 0..MaxData]
    BY <1>2 DEF TypeOK
  <2>4. /\ \A k \in DOMAIN peers' : state'[peers'[k]] = "open"
        /\ \A k, l \in DOMAIN peers' : peers'[k] = peers'[l] => k = l
    BY <1>3, <1>6, <1>7
  <2>5. pc' # "recv"
    BY <2>1
  <2> QED BY <1>4, <2>1, <2>2, <2>3, <2>4, <2>5 DEF TypeOK
<1>9. ReadAfterSent'
  BY <1>2 DEF ReadAfterSent
<1>10. CASE EndLoop
  BY <1>8, <1>9, <1>10, EndLoopInv
<1>11. CASE pc' = "read" /\ i' = i + 1 /\ UNCHANGED <<fds, listening>>
  <2>1. \A k \in DOMAIN fds : fds[k].conn \in Conn /\ k \in Nat
    BY Elements
  <2>2. ListedWereOpen' /\ RecvWherePolled'
    BY <1>2, <1>11, <2>1 DEF ListedWereOpen, RecvWherePolled, TypeOK
  <2>3. OnlyShiftedLeft'
    BY <1>1, <1>3, <1>11, <2>1 DEF OnlyShiftedLeft
  <2>4. \A k \in DOMAIN fds : k \in 1..n - 1 /\ k >= i => fds[k].conn # peers'[k]
    BY <1>1, <1>3, <2>1 DEF OnlyShiftedLeft
  <2>5. StillReadable'
    BY <1>1, <1>3, <1>11, <2>1, <2>4 DEF StillReadable
  <2> QED BY <1>8, <1>9, <2>2, <2>3, <2>5
<1> QED BY <1>5, <1>10, <1>11

\* Every step of the thread and of the other ends preserves the invariant.
LEMMA NextInv == Inv /\ [Next]_vars => Inv'
<1> SUFFICES ASSUME Inv, [Next]_vars
             PROVE  Inv'
  OBVIOUS
<1>1. CASE Thread
  <2>1. CASE SendAndRepeat
    BY <2>1 DEF SendAndRepeat, Inv, TypeOK, ReadAfterSent, ListedWereOpen,
       OnlyShiftedLeft, RecvWherePolled, StillReadable, Readable, envVars
  <2> QED BY <1>1, <2>1, PollInv, AcceptInv, DiscoveryInv, LookInv, RecvDataInv,
             RecvNothingInv DEF Thread
<1>2. CASE \E c \in Conn : Appear(c) \/ PeerSends(c) \/ PeerCloses(c)
  BY <1>2, EnvInv
<1>3. CASE UNCHANGED vars
  BY <1>3 DEF vars, envVars, Inv, TypeOK, ReadAfterSent, ListedWereOpen,
     OnlyShiftedLeft, RecvWherePolled, StillReadable, Readable
<1> QED BY <1>1, <1>2, <1>3 DEF Next

\* peers_ holds the open connections, each once, whatever has been removed and
\* added in whichever pass (network.cpp 263-287, 355-363).
THEOREM TypeCorrect == Spec => []TypeOK
<1>1. Inv => TypeOK
  BY DEF Inv
<1> QED BY InitInv, NextInv, <1>1, PTL DEF Spec

\* recv is called on a connection with nothing to read only when the list no
\* longer speaks of that connection (network.cpp 437-444).
THEOREM IdleRecvNeedsShift == Spec => []IdleRecvOnlyAfterShift
<1>1. Inv => IdleRecvOnlyAfterShift
  <2> SUFFICES ASSUME Inv, pc = "recv", Matches
               PROVE  Readable(peers[i])
    BY DEF IdleRecvOnlyAfterShift
  <2>1. i \in DOMAIN fds /\ i \in DOMAIN peers /\ i \in Nat
    BY DEF Inv, TypeOK, Matches
  <2> QED BY <2>1 DEF Inv, RecvWherePolled, StillReadable, Matches
<1> QED BY InitInv, NextInv, <1>1, PTL DEF Spec
=============================================================================
