------------------------------ MODULE Restart ------------------------------
(***************************************************************************)
(* Crashes and restarts.  All that a process keeps is its file: the next   *)
(* process takes it as base content (editor.cpp 26-39) and counts          *)
(* operations and time from the start again, while the others go on with   *)
(* the log of the session and send it to the newcomer.                     *)
(*                                                                         *)
(* Threads are reduced to the moments at which a crash makes a difference: *)
(* a key has been handled, its operation sent, a pass of the merge thread  *)
(* has replayed the log, has begun to write, has renamed the file.  A pass *)
(* takes at most one operation of another user; one that takes more is     *)
(* several of these.  Snapshots are up to date (Session.tla has those that *)
(* are not).  A crash is one of the process: what was written stays.       *)
(***************************************************************************)
EXTENDS CrdtDocument

CONSTANTS User,     \* the users, positive integers
          BaseLen,  \* length of the file every user has at first
          MaxOps,   \* bound: operations typed
          MaxStarts \* bound: processes started after the first ones

ASSUME UserAssumption == User \subseteq Nat \ {0}
ASSUME BoundAssumption == {BaseLen, MaxOps, MaxStarts} \subseteq Nat

VARIABLES
    \* what a process has
    up,       \* it runs
    base,     \* base_content_
    clock,    \* clock_
    opSeq,    \* op_seq_
    doc,      \* document_
    unmerged, \* operations typed and not taken by the merge thread
    unsent,   \* operations typed and not sent
    opLog,    \* op_log_, op_set_
    stage,    \* of the merge thread: "idle", "replayed", "writing"
    \* what is outside
    file,     \* <user>_doc.txt
    wire,     \* operations on their way to a user
    \* history
    typed,    \* operations typed so far
    starts,   \* processes started
    agreed    \* those that run have started alike, see Start

process == <<up, base, clock, opSeq, doc, unmerged, unsent, opLog, stage>>
vars == <<process, file, wire, typed, starts, agreed>>

Init ==
    LET text == [n \in 1..BaseLen |-> BaseChar(n)]
    IN  /\ up = [u \in User |-> TRUE]
        /\ base = [u \in User |-> text] /\ file = base
        /\ clock = [u \in User |-> 0] /\ opSeq = [u \in User |-> 1]
        /\ doc = [u \in User |-> LoadFromString(text)]
        /\ unmerged = [u \in User |-> <<>>] /\ unsent = unmerged
        /\ opLog = [u \in User |-> {}] /\ wire = opLog
        /\ stage = [u \in User |-> "idle"]
        /\ typed = 0 /\ starts = 0 /\ agreed = TRUE

(***************************************************************************)
(* The main thread                                                         *)
(***************************************************************************)
Position(u) == 0..VisibleCharCount(doc[u])

CharBefore(u, pos) == IF pos = 0 THEN HeadID ELSE VisibleCharID(doc[u], pos - 1)

\* A key waits for doc_mutex_, which is held while the file is written.
MayType(u) == up[u] /\ stage[u] # "writing" /\ typed < MaxOps

\* Mutant: the sequence number is not counted up.
NewIDFirst(u) == <<u, 1>>

NewID(u) == <<u, opSeq[u]>>

\* A key, at any place of the text.
Type(u) ==
    /\ MayType(u)
    /\ LET id == NewID(u)
           ts == clock[u] + 1
       IN  \E pos \in Position(u) :
           \E op \in {Insert(id, ts, CharBefore(u, pos), <<u, typed + 1>>)}
                     \cup (IF pos = 0 THEN {}
                           ELSE {Delete(id, ts, CharBefore(u, pos))}) :
             /\ doc' = [doc EXCEPT ![u] = ApplyOperation(@, op)]
             /\ unmerged' = [unmerged EXCEPT ![u] = Append(@, op)]
             /\ unsent' = [unsent EXCEPT ![u] = Append(@, op)]
    /\ clock' = [clock EXCEPT ![u] = @ + 1]
    /\ opSeq' = [opSeq EXCEPT ![u] = @ + 1]
    /\ typed' = typed + 1
    /\ UNCHANGED <<up, base, opLog, stage, file, wire, starts, agreed>>

(***************************************************************************)
(* The network thread                                                      *)
(***************************************************************************)
Send(u) ==
    /\ up[u] /\ unsent[u] # <<>>
    /\ wire' = [v \in User |-> IF v # u /\ up[v] THEN wire[v] \cup {Head(unsent[u])}
                               ELSE wire[v]]
    /\ unsent' = [unsent EXCEPT ![u] = Tail(@)]
    /\ UNCHANGED <<up, base, clock, opSeq, doc, unmerged, opLog, stage>>
    /\ UNCHANGED <<file, typed, starts, agreed>>

(***************************************************************************)
(* The merge thread                                                        *)
(***************************************************************************)
\* Mutant: a pass that brings operations of others is not saved.
MergeOpsUnsaved(u, k, others) ==
    LET log == AddToLog(opLog[u], SubSeq(unmerged[u], 1, k) \o others)
    IN  /\ unmerged' = [unmerged EXCEPT ![u] = SubSeq(@, k + 1, Len(@))]
        /\ opLog' = [opLog EXCEPT ![u] = log]
        /\ IF log = opLog[u] THEN UNCHANGED <<doc, stage>>
           ELSE /\ doc' = [doc EXCEPT ![u] = Replay(base[u], log)]
                /\ stage' = [stage EXCEPT ![u] =
                                IF others = <<>> THEN "replayed" ELSE "idle"]

\* Mutant: only the operations of this pass are replayed.
MergeOpsOfPass(u, k, others) ==
    LET pass == SubSeq(unmerged[u], 1, k) \o others
        log  == AddToLog(opLog[u], pass)
    IN  /\ unmerged' = [unmerged EXCEPT ![u] = SubSeq(@, k + 1, Len(@))]
        /\ opLog' = [opLog EXCEPT ![u] = log]
        /\ IF log = opLog[u] THEN UNCHANGED <<doc, stage>>
           ELSE /\ doc' = [doc EXCEPT ![u] = Replay(base[u], AddToLog({}, pass))]
                /\ stage' = [stage EXCEPT ![u] = "replayed"]

\* The first k operations of this user, and those in others, are logged, and
\* the log is replayed.  Keys whose operation was queued too late are missing
\* from the document until the next pass.
MergeOps(u, k, others) ==
    LET log == AddToLog(opLog[u], SubSeq(unmerged[u], 1, k) \o others)
    IN  /\ unmerged' = [unmerged EXCEPT ![u] = SubSeq(@, k + 1, Len(@))]
        /\ opLog' = [opLog EXCEPT ![u] = log]
        /\ IF log = opLog[u] THEN UNCHANGED <<doc, stage>>
           ELSE /\ doc' = [doc EXCEPT ![u] = Replay(base[u], log)]
                /\ stage' = [stage EXCEPT ![u] = "replayed"]

\* A pass that finds only operations of this user.
MergeOwn(u) ==
    /\ up[u] /\ stage[u] = "idle"
    /\ \E k \in 1..Len(unmerged[u]) : MergeOps(u, k, <<>>)
    /\ UNCHANGED <<up, base, clock, opSeq, unsent, file, wire, typed, starts, agreed>>

\* A pass that finds an operation of another user, or one of an earlier life.
MergeOther(u) ==
    /\ up[u] /\ stage[u] = "idle"
    /\ \E op \in wire[u] :
         /\ wire' = [wire EXCEPT ![u] = @ \ {op}]
         /\ clock' = [clock EXCEPT ![u] = Max({@, op.ts}) + 1]
         /\ \E k \in 0..Len(unmerged[u]) : MergeOps(u, k, <<op>>)
    /\ UNCHANGED <<up, base, opSeq, unsent, file, typed, starts, agreed>>

\* Mutant: the file itself is opened and emptied.
BeginWriteInPlace(u) ==
    /\ up[u] /\ stage[u] = "replayed"
    /\ stage' = [stage EXCEPT ![u] = "writing"]
    /\ file' = [file EXCEPT ![u] = <<>>]
    /\ UNCHANGED <<up, base, clock, opSeq, doc, unmerged, unsent, opLog>>
    /\ UNCHANGED <<wire, typed, starts, agreed>>

\* The text is written to another file (writeFileAtomic), under doc_mutex_.
BeginWrite(u) ==
    /\ up[u] /\ stage[u] = "replayed"
    /\ stage' = [stage EXCEPT ![u] = "writing"]
    /\ UNCHANGED <<up, base, clock, opSeq, doc, unmerged, unsent, opLog>>
    /\ UNCHANGED <<file, wire, typed, starts, agreed>>

\* That file takes the place of the old one.
Rename(u) ==
    /\ up[u] /\ stage[u] = "writing"
    /\ file' = [file EXCEPT ![u] = Text(doc[u])]
    /\ stage' = [stage EXCEPT ![u] = "idle"]
    /\ UNCHANGED <<up, base, clock, opSeq, doc, unmerged, unsent, opLog>>
    /\ UNCHANGED <<wire, typed, starts, agreed>>

(***************************************************************************)
(* Crash and start                                                         *)
(***************************************************************************)
\* What a process of u begins with: the file, and everything else anew.
NewProcess(u) ==
    /\ base' = [base EXCEPT ![u] = file[u]]
    /\ doc' = [doc EXCEPT ![u] = LoadFromString(file[u])]
    /\ clock' = [clock EXCEPT ![u] = 0]
    /\ opSeq' = [opSeq EXCEPT ![u] = 1]
    /\ unmerged' = [unmerged EXCEPT ![u] = <<>>]
    /\ unsent' = [unsent EXCEPT ![u] = <<>>]
    /\ opLog' = [opLog EXCEPT ![u] = {}]
    /\ stage' = [stage EXCEPT ![u] = "idle"]

\* The process ends, by a crash or by quitting at a bad moment.  What it has
\* sent still arrives.
Crash(u) ==
    /\ up[u] /\ starts < MaxStarts
    /\ up' = [up EXCEPT ![u] = FALSE]
    /\ NewProcess(u)
    /\ wire' = [wire EXCEPT ![u] = {}]
    /\ UNCHANGED <<file, typed, starts, agreed>>

Others(u) == {v \in User \ {u} : up[v]}

\* Everything v has, or will have without anybody sending it again.
Has(v) == opLog[v] \cup ToSet(unmerged[v]) \cup wire[v]

\* A process starts from its file; the others send it what they have logged.
\* The users have started alike when whoever starts finds the others with the
\* same base content and before their first operation, or finds nobody.
Start(u) ==
    /\ ~up[u]
    /\ up' = [up EXCEPT ![u] = TRUE]
    /\ NewProcess(u)
    /\ wire' = [wire EXCEPT ![u] =
                  UNION {opLog[v] \cup ToSet(unmerged[v]) : v \in Others(u)}]
    /\ starts' = starts + 1
    /\ agreed' = \/ Others(u) = {}
                 \/ agreed /\ \A v \in Others(u) : base[v] = file[u] /\ Has(v) = {}
    /\ UNCHANGED <<file, typed>>

Next == \E u \in User : \/ Type(u) \/ Send(u)
                        \/ MergeOwn(u) \/ MergeOther(u) \/ BeginWrite(u) \/ Rename(u)
                        \/ Crash(u) \/ Start(u)

Spec == Init /\ [][Next]_vars

-----------------------------------------------------------------------------
\* Everything typed has been sent, merged and saved.
AtRest ==
    \A u \in User : up[u] => /\ unmerged[u] = <<>> /\ unsent[u] = <<>>
                             /\ wire[u] = {} /\ stage[u] = "idle"

\* Users who have started alike converge, in the first session and in every
\* later one, although ids, times and base characters are used again, and their
\* files, from which the next session starts, say the same.
SessionsConverge ==
    agreed /\ AtRest =>
        \A u, v \in User : up[u] /\ up[v] =>
            /\ Text(doc[u]) = Text(doc[v])
            /\ file[u] = Text(doc[u])

\* The characters an operation of u touches.
Touched(u, op) ==
    IF IsInsert(op) THEN {op.ch}
    ELSE {e.ch : e \in {x \in ToSet(doc[u].chars) : x.id = op.ref}}

\* What a crash can lose or bring back is what the user has typed since the last
\* pass began: outside of a pass, the file and the document differ by nothing
\* else (editor.cpp 281-294).
OnlyLatestKeysUnsaved ==
    \A u \in User : up[u] /\ stage[u] = "idle" =>
        LET saved == ToSet(file[u])
            shown == ToSet(Text(doc[u]))
        IN  (saved \ shown) \cup (shown \ saved)
              \subseteq UNION {Touched(u, op) : op \in ToSet(unmerged[u])}

\* A character that was saved leaves the file only after somebody has deleted it,
\* or for one pass, when it was saved before it was logged: whatever crashes, and
\* whatever others send after a restart (utils.cpp 60-74, editor.cpp 281-294).
SavedUntilDeleted ==
    [][\A u \in User : \A c \in ToSet(file[u]) \ ToSet(file'[u]) :
          \/ \E e \in ToSet(doc[u].chars) : e.ch = c /\ e.deleted
          \/ \E op \in ToSet(unmerged[u]) : op.ch = c]_vars

\* The operations any process still has, or that are on their way.
Circulating ==
    UNION {Has(u) \cup ToSet(unsent[u]) : u \in User}

\* op_seq_ starts again with every process (editor.h), so an id can be given out
\* twice; while the users have started alike, the operation that had it first is
\* gone by then.
IdsMeanOneOperation ==
    agreed => \A o, p \in Circulating : o.id = p.id => o = p
=============================================================================
