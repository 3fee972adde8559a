------------------------------- MODULE Editor -------------------------------
(***************************************************************************)
(* The editor process of every user: class Editor (editor.cpp) with the    *)
(* key handling of class Ui (ui.cpp).  Two of the three threads of a       *)
(* process are here, the third is in Network.tla:                          *)
(*                                                                         *)
(*  main   waits for a key ("key"), handles it under doc_mutex_, hands the *)
(*         operation to the merge thread ("push") and then to the network  *)
(*         thread ("flush").                                               *)
(*  merge  takes what the main thread queued ("local"), takes what the     *)
(*         network thread queued, raising the clock ("inbound") and        *)
(*         ticking it ("tick") for each, logs the new operations and       *)
(*         replays the whole log into the document under doc_mutex_,       *)
(*         writes the file and a snapshot for joiners ("write"), and       *)
(*         looks for new peers ("peers").                                  *)
(*                                                                         *)
(* A step is what one thread does between two accesses to state it shares  *)
(* with another.  Draining local_ops_ is one step, the moment pop finds it *)
(* empty: what was pushed before is in the batch either way.  The screen   *)
(* (merge_hashes_, render) and the broadcast of cursor positions, which no *)
(* operation depends on, are left out.                                     *)
(***************************************************************************)
EXTENDS CrdtDocument

CONSTANTS User,         \* the users, positive integers
          BaseLen,      \* length of the file every user starts from
          MaxOps,       \* bound: operations each user types
          Typists,      \* bound: the users who press keys that edit
          Movers,       \* bound: the users who move the cursor
          MayQuit,      \* bound: the users who may quit
          LocalCap,     \* items local_ops_ holds (16383 in the code)
          InboundCap,   \* items inbound_ops_ holds (16383)
          OutboundCap,  \* items outbound_msgs_ holds (4095)
          SyncCap       \* items new_peer_syncs_ holds (255)

ASSUME UserAssumption == User \subseteq Nat \ {0}
ASSUME BoundAssumption == /\ BaseLen \in Nat /\ MaxOps \in Nat
                          /\ Typists \cup Movers \cup MayQuit \subseteq User
ASSUME CapAssumption == {LocalCap, InboundCap, OutboundCap, SyncCap}
                            \subseteq Nat \ {0}

VARIABLES
    \* shared by main and merge
    running,       \* running_
    clock,         \* clock_
    doc,           \* document_, under doc_mutex_
    localOps,      \* local_ops_, from main to merge
    \* main thread
    mainPc,
    opSeq,         \* op_seq_
    anchor,        \* cursor_anchor_
    fallback,      \* cursor_fallback_pos_
    pending,       \* the operation of the key just handled (pending_batch)
    \* merge thread
    mergePc,
    batch,         \* ops of the current pass
    opLog,         \* op_log_ and op_set_
    file,          \* the text in <user>_doc.txt
    lastPeerCount, \* last_peer_count_
    \* to and from the network thread
    inbound,       \* inbound_ops_
    outbound,      \* outbound_msgs_: one operation per message
    syncs,         \* new_peer_syncs_: snapshots of the log
    newPeerCount,  \* new_peer_count_
    \* history
    issued         \* every operation typed so far, here or elsewhere

mainVars  == <<mainPc, opSeq, anchor, fallback, pending, issued>>
mergeVars == <<mergePc, batch, opLog, file, lastPeerCount>>
bothVars  == <<running, clock, doc, localOps>>
netQueues == <<inbound, outbound, syncs, newPeerCount>>
editorVars == <<mainVars, mergeVars, bothVars>>

Base == [n \in 1..BaseLen |-> BaseChar(n)]

\* Mutant: a queue without a limit.
PushToAlways(queue, item, cap) == Append(queue, item)

\* push() of a queue of capacity cap: a full queue is left as it is.
PushTo(queue, item, cap) ==
    IF Len(queue) < cap THEN Append(queue, item) ELSE queue

EditorInit ==
    /\ running = [u \in User |-> TRUE]
    /\ clock = [u \in User |-> 0]
    /\ doc = [u \in User |-> LoadFromString(Base)]
    /\ localOps = [u \in User |-> <<>>]
    /\ mainPc = [u \in User |-> "key"]
    /\ opSeq = [u \in User |-> 1]
    /\ anchor = [u \in User |-> HeadID]
    /\ fallback = [u \in User |-> 0]
    /\ pending = [u \in User |-> <<>>]
    /\ mergePc = [u \in User |-> "local"]
    /\ batch = [u \in User |-> <<>>]
    /\ opLog = [u \in User |-> {}]
    /\ file = [u \in User |-> Base]
    /\ outbound = [u \in User |-> <<>>]
    /\ inbound = [u \in User |-> <<>>]
    /\ syncs = [u \in User |-> <<>>]
    /\ issued = {}

(***************************************************************************)
(* The main thread                                                         *)
(***************************************************************************)
\* Mutant: the number is followed, not the anchor.
CursorPosByNumber(u) ==
    IF IsHead(anchor[u]) THEN 0
    ELSE IF fallback[u] < VisibleCharCount(doc[u]) THEN fallback[u]
    ELSE VisibleCharCount(doc[u])

\* Where the cursor is: after its anchor, or, when the document does not show
\* the anchor, at the remembered number.
CursorPos(u) ==
    LET p == PositionOfCharID(doc[u], anchor[u])
        n == VisibleCharCount(doc[u])
    IN  IF IsHead(anchor[u]) THEN 0
        ELSE IF p >= 0 THEN p + 1
        ELSE IF fallback[u] < n THEN fallback[u] ELSE n

\* The character before position pos of a document.
CharBefore(d, pos) == IF pos > 0 THEN VisibleCharID(d, pos - 1) ELSE HeadID

\* Every key ends by anchoring the cursor again.
SetCursor(u, d, pos) ==
    /\ anchor' = [anchor EXCEPT ![u] = CharBefore(d, pos)]
    /\ fallback' = [fallback EXCEPT ![u] = pos]

\* A key that makes an operation: it is applied at once, and the cursor goes to
\* position pos of the new document.
Perform(u, op, pos) ==
    LET d == ApplyOperation(doc[u], op)
    IN  /\ doc' = [doc EXCEPT ![u] = d]
        /\ clock' = [clock EXCEPT ![u] = op.ts]
        /\ opSeq' = [opSeq EXCEPT ![u] = @ + 1]
        /\ SetCursor(u, d, pos)
        /\ pending' = [pending EXCEPT ![u] = <<op>>]
        /\ issued' = issued \cup {op}
        /\ mainPc' = [mainPc EXCEPT ![u] = "push"]
        /\ UNCHANGED <<running, localOps>>
        /\ UNCHANGED mergeVars
        /\ UNCHANGED netQueues

AtKey(u) == mainPc[u] = "key" /\ running[u]

MayType(u) == AtKey(u) /\ u \in Typists /\ opSeq[u] <= MaxOps

\* Mutant: the sequence number is not counted up.
NewIDFirst(u) == <<u, 1>>

NewID(u) == <<u, opSeq[u]>>

\* A printable key or Enter.  Every typed character is told from the others.
TypeChar(u) ==
    /\ MayType(u)
    /\ LET pos == CursorPos(u)
       IN  Perform(u, Insert(NewID(u), clock[u] + 1, CharBefore(doc[u], pos),
                             NewID(u)),
                   pos + 1)

Backspace(u) ==
    /\ MayType(u)
    /\ LET pos == CursorPos(u)
       IN  /\ pos > 0
           /\ Perform(u, Delete(NewID(u), clock[u] + 1,
                                VisibleCharID(doc[u], pos - 1)),
                      pos - 1)

ForwardDelete(u) ==
    /\ MayType(u)
    /\ LET pos == CursorPos(u)
       IN  /\ pos < VisibleCharCount(doc[u])
           /\ Perform(u, Delete(NewID(u), clock[u] + 1,
                                VisibleCharID(doc[u], pos)),
                      pos)

\* Arrows, Home and End: some position of the text.  Which one depends on the
\* line breaks, which the model does not tell apart from other characters.
MoveCursor(u) ==
    /\ AtKey(u) /\ u \in Movers
    /\ \E pos \in 0..VisibleCharCount(doc[u]) : SetCursor(u, doc[u], pos)
    /\ UNCHANGED <<mainPc, opSeq, pending, issued>>
    /\ UNCHANGED mergeVars
    /\ UNCHANGED bothVars
    /\ UNCHANGED netQueues

\* Ctrl-Q or Escape.
Quit(u) ==
    /\ AtKey(u) /\ u \in MayQuit
    /\ running' = [running EXCEPT ![u] = FALSE]
    /\ mainPc' = [mainPc EXCEPT ![u] = "stopped"]
    /\ UNCHANGED <<opSeq, anchor, fallback, pending, issued>>
    /\ UNCHANGED <<clock, doc, localOps>>
    /\ UNCHANGED mergeVars
    /\ UNCHANGED netQueues

\* pushWithRetry(local_ops_, op): the operation is given up if the queue stays
\* full.
PushLocal(u) ==
    /\ mainPc[u] = "push"
    /\ localOps' = [localOps EXCEPT ![u] = PushTo(@, pending[u][1], LocalCap)]
    /\ mainPc' = [mainPc EXCEPT ![u] = "flush"]
    /\ UNCHANGED <<opSeq, anchor, fallback, pending, issued>>
    /\ UNCHANGED <<running, clock, doc>>
    /\ UNCHANGED mergeVars
    /\ UNCHANGED netQueues

\* pushWithRetry(outbound_msgs_, ...): the batch of this key, always one
\* operation, is flushed before the next key.
FlushBatch(u) ==
    /\ mainPc[u] = "flush"
    /\ outbound' = [outbound EXCEPT ![u] = PushTo(@, pending[u], OutboundCap)]
    /\ pending' = [pending EXCEPT ![u] = <<>>]
    /\ mainPc' = [mainPc EXCEPT ![u] = "key"]
    /\ UNCHANGED <<opSeq, anchor, fallback, issued>>
    /\ UNCHANGED <<inbound, syncs, newPeerCount>>
    /\ UNCHANGED bothVars
    /\ UNCHANGED mergeVars

Key(u) == TypeChar(u) \/ Backspace(u) \/ ForwardDelete(u) \/ MoveCursor(u) \/ Quit(u)

Hand(u) == PushLocal(u) \/ FlushBatch(u)

(***************************************************************************)
(* The merge thread                                                        *)
(***************************************************************************)
GoTo(u, pc) == mergePc' = [mergePc EXCEPT ![u] = pc]

\* The top of the loop and the first drain.
DrainLocal(u) ==
    /\ mergePc[u] = "local" /\ running[u]
    /\ batch' = [batch EXCEPT ![u] = localOps[u]]
    /\ localOps' = [localOps EXCEPT ![u] = <<>>]
    /\ GoTo(u, "inbound")
    /\ UNCHANGED <<opLog, file, lastPeerCount, running, clock, doc>>
    /\ UNCHANGED mainVars
    /\ UNCHANGED netQueues

\* The next operation from the network thread is taken out: the clock and the
\* operations of this pass become time and ops.
TakeIn(u, time, ops) ==
    /\ inbound' = [inbound EXCEPT ![u] = Tail(@)]
    /\ clock' = [clock EXCEPT ![u] = time]
    /\ batch' = [batch EXCEPT ![u] = ops]
    /\ GoTo(u, "tick")
    /\ UNCHANGED <<opLog, file, lastPeerCount, running, doc, localOps>>
    /\ UNCHANGED <<outbound, syncs, newPeerCount>>
    /\ UNCHANGED mainVars

Later(s, t) == IF s < t THEN t ELSE s

\* Mutant: the clock is not raised.
ReceiveOpUntimed(u) ==
    /\ mergePc[u] = "inbound" /\ inbound[u] # <<>>
    /\ TakeIn(u, clock[u], Append(batch[u], Head(inbound[u])))

\* Mutant: what was drained before is overwritten.
ReceiveOpAlone(u) ==
    /\ mergePc[u] = "inbound" /\ inbound[u] # <<>>
    /\ LET op == Head(inbound[u]) IN TakeIn(u, Later(clock[u], op.ts), <<op>>)

\* Mutant: the operation is not kept.
ReceiveOpUnkept(u) ==
    /\ mergePc[u] = "inbound" /\ inbound[u] # <<>>
    /\ TakeIn(u, Later(clock[u], Head(inbound[u]).ts), batch[u])

\* One operation of the second drain, and the raise in clock_.update.
ReceiveOp(u) ==
    /\ mergePc[u] = "inbound" /\ inbound[u] # <<>>
    /\ LET op == Head(inbound[u])
       IN  TakeIn(u, Later(clock[u], op.ts), Append(batch[u], op))

\* The tick that ends clock_.update; the main thread may tick in between.
ReceiveTick(u) ==
    /\ mergePc[u] = "tick"
    /\ clock' = [clock EXCEPT ![u] = @ + 1]
    /\ GoTo(u, "inbound")
    /\ UNCHANGED <<batch, opLog, file, lastPeerCount, running, doc, localOps>>
    /\ UNCHANGED mainVars
    /\ UNCHANGED netQueues

\* The pass ends with log and d as the log and the document.
EndPass(u, log, d, pc) ==
    /\ opLog' = [opLog EXCEPT ![u] = log]
    /\ doc' = [doc EXCEPT ![u] = d]
    /\ batch' = [batch EXCEPT ![u] = <<>>]
    /\ GoTo(u, pc)
    /\ UNCHANGED <<file, lastPeerCount, running, clock, localOps>>
    /\ UNCHANGED mainVars
    /\ UNCHANGED netQueues

\* Mutant: new operations are applied without a replay.
MergeOpsAppended(u) ==
    /\ mergePc[u] = "inbound" /\ inbound[u] = <<>>
    /\ LET log == AddToLog(opLog[u], batch[u])
       IN  IF log # opLog[u]
           THEN EndPass(u, log, ApplyOperations(doc[u], batch[u]), "write")
           ELSE EndPass(u, log, doc[u], "peers")

\* Mutant: the log as it was before this pass is replayed.
MergeOpsStale(u) ==
    /\ mergePc[u] = "inbound" /\ inbound[u] = <<>>
    /\ LET log == AddToLog(opLog[u], batch[u])
       IN  IF log # opLog[u]
           THEN EndPass(u, log, Replay(Base, opLog[u]), "write")
           ELSE EndPass(u, log, doc[u], "peers")

\* Mutant: a pass that brought only operations of this user is not written.
MergeOpsUnwritten(u) ==
    /\ mergePc[u] = "inbound" /\ inbound[u] = <<>>
    /\ LET log == AddToLog(opLog[u], batch[u])
           foreign == {o \in log \ opLog[u] : o.id[1] # u}
       IN  IF log # opLog[u]
           THEN EndPass(u, log, Replay(Base, log),
                        IF foreign = {} THEN "peers" ELSE "write")
           ELSE EndPass(u, log, doc[u], "peers")

\* Both queues are drained: new operations are logged and the log is replayed
\* into the document, on the base content.  What the main thread has applied
\* but not yet queued, or queued after the drain, is not in it.
MergeOps(u) ==
    /\ mergePc[u] = "inbound" /\ inbound[u] = <<>>
    /\ LET log == AddToLog(opLog[u], batch[u])
       IN  IF log # opLog[u]
           THEN EndPass(u, log, Replay(Base, log), "write")
           ELSE EndPass(u, log, doc[u], "peers")

\* The file gets the document as it is by now; the snapshot is dropped when its
\* queue is full.
WriteFile(u) ==
    /\ mergePc[u] = "write"
    /\ file' = [file EXCEPT ![u] = Text(doc[u])]
    /\ syncs' = [syncs EXCEPT ![u] = PushTo(@, opLog[u], SyncCap)]
    /\ GoTo(u, "peers")
    /\ UNCHANGED <<batch, opLog, lastPeerCount, inbound, outbound, newPeerCount>>
    /\ UNCHANGED mainVars
    /\ UNCHANGED bothVars

\* A snapshot for peers that came since the last pass.
NoticePeers(u) ==
    /\ mergePc[u] = "peers"
    /\ LET joined == newPeerCount[u] > lastPeerCount[u]
       IN  syncs' = [syncs EXCEPT ![u] =
                        IF joined /\ opLog[u] # {}
                        THEN PushTo(@, opLog[u], SyncCap) ELSE @]
    /\ lastPeerCount' = [lastPeerCount EXCEPT ![u] = newPeerCount[u]]
    /\ GoTo(u, "local")
    /\ UNCHANGED <<batch, opLog, file, inbound, outbound, newPeerCount>>
    /\ UNCHANGED mainVars
    /\ UNCHANGED bothVars

\* The loop is left at its top once the user has quit.
StopMerge(u) ==
    /\ mergePc[u] = "local" /\ ~running[u]
    /\ GoTo(u, "stopped")
    /\ UNCHANGED <<batch, opLog, file, lastPeerCount>>
    /\ UNCHANGED mainVars
    /\ UNCHANGED bothVars
    /\ UNCHANGED netQueues

Merge(u) == \/ DrainLocal(u) \/ ReceiveOp(u) \/ ReceiveTick(u) \/ MergeOps(u)
            \/ WriteFile(u) \/ NoticePeers(u) \/ StopMerge(u)

EditorStep(u) == Key(u) \/ Hand(u) \/ Merge(u)

-----------------------------------------------------------------------------
\* Every queue holds issued operations, no more than its capacity of them.
EditorTypeOK ==
    /\ running \in [User -> BOOLEAN]
    /\ clock \in [User -> Nat]
    /\ mainPc \in [User -> {"key", "push", "flush", "stopped"}]
    /\ mergePc \in [User -> {"local", "inbound", "tick", "write", "peers", "stopped"}]
    /\ opSeq \in [User -> 1..MaxOps + 1]
    /\ opLog \in [User -> SUBSET issued]
    /\ pending \in [User -> Seq(issued)] /\ batch \in [User -> Seq(issued)]
    /\ localOps \in [User -> Seq(issued)] /\ inbound \in [User -> Seq(issued)]
    /\ outbound \in [User -> Seq(Seq(issued))]
    /\ syncs \in [User -> Seq(SUBSET issued)]
    /\ \A u \in User :
        /\ Len(localOps[u]) <= LocalCap /\ Len(inbound[u]) <= InboundCap
        /\ Len(outbound[u]) <= OutboundCap /\ Len(syncs[u]) <= SyncCap

(***************************************************************************)
(* Identity and time of operations                                         *)
(***************************************************************************)
\* No id is given twice, as everything that drops duplicates relies on
\* (DESIGN.md 44: "op_id: unique id (user_id:seq)").
IdsAreUnique ==
    \A u \in User : \A o, p \in issued : o.id[1] = u /\ o.id = p.id => o = p

\* What a user types is stamped later than everything in the user's log at that
\* moment, whichever thread has been ticking the clock (editor.cpp 260, ui.cpp
\* 394): causes come before effects in the sorted log.
TypedAfterLogged ==
    [][\A u \in User : \A o \in issued' \ issued :
         o.id[1] = u => \A p \in opLog[u] : p.ts < o.ts]_editorVars

(***************************************************************************)
(* The document                                                            *)
(***************************************************************************)
\* The operations the document of u shows: those of the last replay and those
\* typed since.
Shown(u) == {o \in issued : o.id \in doc[u].applied}

\* At any moment, in the middle of any pass of the merge thread, the document
\* is the replay of the operations it shows, although some were applied one by
\* one as they were typed and the others replayed in sorted order (editor.cpp
\* 185 and 281-286): the clock has been raised beyond every operation of the
\* document before it can be typed into (260).
DocumentIsReplay == \A u \in User : doc[u] = Replay(Base, Shown(u))

\* An operation typed is later than everything its author's document shows and
\* everything the author's log holds.
ClockAhead ==
    \A u \in User : \A o \in Shown(u) \cup opLog[u] : o.ts <= clock[u]

\* A key does to the text what it says, wherever the cursor is and whatever the
\* merge thread is doing: a character appears at the cursor, or the one before
\* or after it disappears, and the rest stays as it is (ui.cpp 351-403).
KeysEditAtCursor ==
    [][\A u \in User :
        LET pos == CursorPos(u)
            old == Text(doc[u])
            new == Text(doc'[u])
        IN  /\ TypeChar(u) => \E ch \in ToSet(new) \ ToSet(old) :
                                 new = InsertAt(old, pos + 1, ch)
            /\ Backspace(u) => new = RemoveAt(old, pos)
            /\ ForwardDelete(u) => new = RemoveAt(old, pos + 1)]_editorVars

\* An operation its author typed that is not in the document (a replay that did
\* not know of it yet has dropped it) is on its way to the next replay, unless a
\* full queue has refused it (editor.cpp 195, 258, 281-286).
OwnOpsComeBack ==
    \A u \in User : \A o \in issued \ Shown(u) :
        o.id[1] = u => o \in ToSet(pending[u]) \cup ToSet(localOps[u])
                                \cup ToSet(batch[u])

\* A snapshot or a duplicate never takes anything back: what a user has logged
\* stays, and what is logged is shown from the replay on.
LoggedIsShown ==
    \A u \in User : {o.id : o \in opLog[u]} \subseteq doc[u].applied

\* The cursor stays at its anchor, the character the user last saw before it,
\* whatever arrives (ui.h 58-59), unless somebody has deleted that character or
\* a replay has taken it off because its operation is not logged yet: then it
\* comes back, with an operation that is queued or in the pass under way
\* (editor.cpp 281-286, ui.cpp 279-291).
CursorStaysAtAnchor ==
    \A u \in User :
        AtKey(u) /\ CharBefore(doc[u], CursorPos(u)) # anchor[u]
            => \/ \E o \in issued : IsDelete(o) /\ o.ref = anchor[u]
               \/ \E o \in ToSet(localOps[u]) \cup ToSet(batch[u]) : o.id = anchor[u]
=============================================================================
