---------------------------- MODULE CrdtDocument ----------------------------
(***************************************************************************)
(* The replicated text of SyncText: class CrdtDocument (crdt.h, crdt.cpp)  *)
(* as operators on values.  A document is a record                         *)
(*    chars   - the entries in text order, tombstones included, the head   *)
(*              sentinel first (chars_),                                   *)
(*    index   - the position of every id in chars (id_index_),             *)
(*    applied - the ids of the operations applied (applied_ops_).          *)
(* Positions in chars are counted from 1, so the code's -1 ("not found")   *)
(* is 0 here; visible positions are counted from 0 as in the code.         *)
(*                                                                         *)
(* A user is a positive integer, so that user names are ordered as the     *)
(* code's strings are.  An operation has one id, <<user, seq>>: it stands  *)
(* for op_id ("user:seq") and, for an insertion, for new_char_id, which    *)
(* the code fills from the same two values.  ref stands for after_id (of   *)
(* an insertion) or target_id (of a deletion).                             *)
(*                                                                         *)
(* No operator here is RECURSIVE: modules with proofs use this one.        *)
(***************************************************************************)
EXTENDS Integers, Sequences, FiniteSets, SequencesExt

\* CharID::head(): the sentinel before the first character.
HeadID == <<-1, 0>>

\* CharID::is_head() looks at the user part only.
IsHead(id) == id[1] = HeadID[1]

\* The id {".base", n} of the n-th character of the loaded file.
BaseChar(n) == <<0, n>>

\* What a character shows when none was given (ch = 0).
NoChar == <<>>

\* The stamp {0, ""} of the head and of base characters.
NoStamp == [ts |-> 0, user |-> 0]

\* stampWins: later time, then smaller user name.
StampWins(a, b) ==
    \/ a.ts > b.ts
    \/ a.ts = b.ts /\ a.user < b.user

Stamp(op) == [ts |-> op.ts, user |-> op.id[1]]

Insert(id, ts, after, ch) ==
    [type |-> "insert", id |-> id, ts |-> ts, ref |-> after, ch |-> ch]
Delete(id, ts, target) ==
    [type |-> "delete", id |-> id, ts |-> ts, ref |-> target, ch |-> NoChar]

IsInsert(op) == op.type = "insert"
IsDelete(op) == op.type = "delete"

(***************************************************************************)
(* Loading and reading                                                     *)
(***************************************************************************)
LoadFromString(content) ==
    [chars |->
        <<[id |-> HeadID, ch |-> NoChar, stamp |-> NoStamp, deleted |-> TRUE]>>
        \o [n \in 1..Len(content) |->
              [id |-> BaseChar(n), ch |-> content[n], stamp |-> NoStamp,
               deleted |-> FALSE]],
     index |->
        [id \in {HeadID} \cup {BaseChar(n) : n \in 1..Len(content)} |->
            IF id = HeadID THEN 1 ELSE id[2] + 1],
     applied |-> {}]

\* findByID: 0 for an id the document does not hold.
FindByID(d, id) == IF id \in DOMAIN d.index THEN d.index[id] ELSE 0

\* The entries toString, visibleCharID and visibleCharCount count.  (A loop,
\* so that proofs can unfold it.)
Visible(d) ==
    LET upTo[n \in 0..Len(d.chars)] ==
            IF n = 0 THEN <<>>
            ELSE IF IsHead(d.chars[n].id) \/ d.chars[n].deleted THEN upTo[n - 1]
            ELSE Append(upTo[n - 1], d.chars[n])
    IN  upTo[Len(d.chars)]

\* toString
Text(d) == LET v == Visible(d) IN [i \in 1..Len(v) |-> v[i].ch]

VisibleCharCount(d) == Len(Visible(d))

\* Mutant: tombstones are counted.
VisibleCharIDOfAll(d, pos) ==
    IF 0 <= pos /\ pos + 2 <= Len(d.chars) THEN d.chars[pos + 2].id ELSE HeadID

\* visibleCharID: the head when pos is negative or past the end.
VisibleCharID(d, pos) ==
    LET v == Visible(d)
    IN  IF 0 <= pos /\ pos < Len(v) THEN v[pos + 1].id ELSE HeadID

\* positionOfCharID: -1 for an unknown or deleted character, 0 for the head.
PositionOfCharID(d, id) ==
    LET i == FindByID(d, id)
    IN  IF IsHead(id) THEN 0
        ELSE IF i = 0 \/ d.chars[i].deleted THEN -1
        ELSE Cardinality({j \in 2..i-1 : ~d.chars[j].deleted})

(***************************************************************************)
(* Applying an operation                                                   *)
(***************************************************************************)
\* Mutant: the entries moved to the right keep their old index.
ReindexNewOnly(index, id, chars, pos) ==
    [i \in DOMAIN index \cup {id} |-> IF i = id THEN pos ELSE index[i]]

\* The index after entry was put at position pos: the entries from pos on
\* are indexed again, the others keep their place.
Reindex(index, id, chars, pos) ==
    LET moved == pos..Len(chars)
    IN  [i \in DOMAIN index \cup {id} |->
            IF \E k \in moved : chars[k].id = i
            THEN Max({k \in moved : chars[k].id = i})
            ELSE index[i]]

\* Mutant: no scan.
ScanEndAtAnchor(chars, anchor, incoming) == anchor + 1

\* Mutant: the scan starts at the anchor itself.
ScanEndFromAnchor(chars, anchor, incoming) ==
    Min({i \in anchor .. Len(chars) + 1 :
            i = Len(chars) + 1 \/ ~StampWins(chars[i].stamp, incoming)})

\* The RGA scan: from the anchor to the right past every entry whose stamp
\* beats the incoming one, whatever that entry's own anchor is.
ScanEnd(chars, anchor, incoming) ==
    Min({i \in anchor + 1 .. Len(chars) + 1 :
            \/ i = Len(chars) + 1
            \/ ~StampWins(chars[i].stamp, incoming)})

\* An unknown anchor falls back to the head.
AnchorOf(d, id) == LET i == FindByID(d, id) IN IF i = 0 THEN 1 ELSE i

ApplyInsert(d, op) ==
    LET pos   == ScanEnd(d.chars, AnchorOf(d, op.ref), Stamp(op))
        chars == InsertAt(d.chars, pos,
                          [id |-> op.id, ch |-> op.ch, stamp |-> Stamp(op),
                           deleted |-> FALSE])
    IN  [d EXCEPT !.chars = chars,
                  !.index = Reindex(@, op.id, chars, pos)]

\* A deletion marks its target and stamps it, when its stamp beats the
\* target's; an unknown target is ignored.
ApplyDelete(d, op) ==
    LET i == FindByID(d, op.ref)
    IN  IF i # 0 /\ StampWins(Stamp(op), d.chars[i].stamp)
        THEN [d EXCEPT !.chars[i].deleted = TRUE,
                       !.chars[i].stamp = Stamp(op)]
        ELSE d

\* applyOperation: the id is remembered first, whatever comes of the rest.
ApplyOperation(d, op) ==
    LET e == [d EXCEPT !.applied = @ \cup {op.id}]
    IN  IF op.id \in d.applied THEN d
        ELSE IF IsInsert(op) THEN ApplyInsert(e, op)
        ELSE ApplyDelete(e, op)

\* applyOperations: one after the other.
ApplyOperations(d, ops) ==
    LET after[n \in 0..Len(ops)] ==
            IF n = 0 THEN d ELSE ApplyOperation(after[n - 1], ops[n])
    IN  after[Len(ops)]

(***************************************************************************)
(* The merge thread's log (editor.cpp): a set of operations, because the   *)
(* comparison below orders operations of different ids totally and the log *)
(* is sorted every time it has changed.                                    *)
(***************************************************************************)
\* Mutant: by user before time.
BeforeByUser(a, b) ==
    \/ a.id[1] < b.id[1]
    \/ a.id[1] = b.id[1] /\ a.ts < b.ts
    \/ a.id[1] = b.id[1] /\ a.ts = b.ts /\ a.id[2] < b.id[2]

\* The comparison of std::sort: time, user, op_id (sequence numbers below 10,
\* where the order of the strings is that of the numbers).
Before(a, b) ==
    \/ a.ts < b.ts
    \/ a.ts = b.ts /\ a.id[1] < b.id[1]
    \/ a.ts = b.ts /\ a.id[1] = b.id[1] /\ a.id[2] < b.id[2]

SortOps(log) ==
    [i \in 1..Cardinality(log) |->
        CHOOSE o \in log : Cardinality({p \in log : Before(p, o)}) = i - 1]

\* Mutant: the log holds the operations of the last pass only.
AddToLogAnew(log, ops) == ToSet(ops)

\* op_set_/op_log_: an operation whose id is known already, from the log or
\* from earlier in the same pass, is dropped.
AddToLog(log, ops) ==
    log \cup {ops[i] : i \in {k \in DOMAIN ops :
        \A p \in log \cup {ops[j] : j \in 1..k-1} : p.id # ops[k].id}}

\* What the merge thread makes of a log: every operation replayed, in sorted
\* order, on the base content.
Replay(base, log) == ApplyOperations(LoadFromString(base), SortOps(log))
=============================================================================
