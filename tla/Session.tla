------------------------------ MODULE Session ------------------------------
(***************************************************************************)
(* The whole system: the editor threads (Editor) and the network thread    *)
(* (Network) of every user, sharing the queues between them, and the links *)
(* between users.  It implements SharedText.                               *)
(***************************************************************************)
EXTENDS Editor

CONSTANTS Link,  \* bound: the connections that may be opened, each once
          Up     \* the links that are up when the users start to type

ASSUME LinkAssumption == /\ Link \subseteq {l \in User \X User : l[1] # l[2]}
                         /\ Up \subseteq Link

VARIABLES netOn, link, peers, named, waiting, wire, arriving

Net == INSTANCE Network WITH Sorted <- SortOps

netVars == <<netOn, link, peers, named, waiting, wire, arriving>>
vars == <<editorVars, netQueues, netVars>>

Init == EditorInit /\ Net!NetInit /\ lastPeerCount = newPeerCount

Next == \E u \in User :
            \/ EditorStep(u) /\ UNCHANGED netVars
            \/ /\ Net!NetworkStep(u)
               /\ UNCHANGED <<mainVars, mergeVars, clock, doc, localOps>>

Spec == Init /\ [][Next]_vars

\* The operating system runs every thread: a key that was read is handled to
\* the end, the merge loop goes round, and so does the network loop.  Nobody
\* has to press a key.
Fairness ==
    \A u \in User :
        /\ WF_vars(Hand(u) /\ UNCHANGED netVars)
        /\ WF_vars(Merge(u) /\ UNCHANGED netVars)
        /\ WF_vars(/\ Net!NetworkStep(u)
                   /\ UNCHANGED <<mainVars, mergeVars, clock, doc, localOps>>)

FairSpec == Spec /\ Fairness

-----------------------------------------------------------------------------
\* Only connected peers have a name or wait, and only issued operations travel.
TypeOK ==
    /\ EditorTypeOK
    /\ netOn \in [User -> BOOLEAN]
    /\ link \in [Link -> {"none", "backlog", "up"}]
    /\ \A u \in User :
        /\ named[u] \cup waiting[u] \subseteq peers[u]
        /\ peers[u] \subseteq Net!LinksOf(u)
        /\ arriving[u] \in Seq(issued)
    /\ \A e \in Net!Ends : \A i \in DOMAIN wire[e] : wire[e][i].ops \in Seq(issued)

(***************************************************************************)
(* The users together                                                      *)
(***************************************************************************)
\* Nothing is on its way.
AtRest ==
    /\ \A u \in User :
        /\ mainPc[u] \in {"key", "stopped"}
        /\ mergePc[u] \in {"local", "stopped"}
        /\ localOps[u] = <<>> /\ inbound[u] = <<>> /\ arriving[u] = <<>>
        /\ outbound[u] = <<>> /\ newPeerCount[u] = lastPeerCount[u]
        /\ Net!Snapshot(u) = <<>>
        /\ netOn[u] = running[u]
    /\ \A e \in Net!Ends : wire[e] = <<>>
    /\ \A l \in Link : link[l] # "backlog"

\* u and v have a connection that is open at both ends.
Connected(u, v) == \E l \in peers[u] \cap peers[v] : TRUE

\* README.md 10: "ensuring all peers converge to the same document": when
\* nothing is on its way, connected users have the same log, document and file.
ConvergedAtRest ==
    AtRest =>
        \A u, v \in User :
            Connected(u, v) => /\ opLog[u] = opLog[v]
                               /\ Text(doc[u]) = Text(doc[v])
                               /\ file[u] = file[v]

\* When nothing is on its way, the file holds the text, as long as the process
\* runs (editor.cpp 288-294 writes it after the replay, from the document).
FileIsText ==
    \A u \in User :
        AtRest /\ running[u] => file[u] = Text(doc[u])

\* The operations of one author reach every log in the order in which they were
\* typed, none left out, although they travel through three queues and a socket
\* and a user may leave in between: true of links that were up before the first
\* operation (editor.cpp 195-211, 256-262, network.cpp 346-375).
LogsHaveNoGaps ==
    \A u \in User : \A o \in opLog[u] : \A p \in issued :
        p.id[1] = o.id[1] /\ p.id[2] < o.id[2] => p \in opLog[u]

\* Every operation reaches the log of everyone.
EveryoneLearns ==
    \A u, v \in User :
        (\E o \in issued : o.id[1] = u)
            ~> (\A o \in issued : o.id[1] = u => o \in opLog[v])

\* What u has issued and what has reached u's log.
Known == [u \in User |-> opLog[u] \cup {o \in issued : o.id[1] = u}]

Shared == INSTANCE SharedText
            WITH MaxOps <- MaxOps * Cardinality(User),
                 MaxSkip <- 2 * MaxOps * Cardinality(User),
                 known <- Known

\* Threads, queues and links implement the abstract shared text: whatever is
\* proved or checked about SharedText holds of the logs of the program.
ImplementsSharedText == Shared!FreeSpec
=============================================================================
