----------------------------- MODULE SharedText -----------------------------
(***************************************************************************)
(* What SyncText promises, without threads, queues or sockets: users issue *)
(* operations on characters they know of, stamped later than everything    *)
(* they know, and come to know each other's operations in any order.  The  *)
(* text of a user is a function of what the user knows: the replay of the  *)
(* known operations on the common base content.                            *)
(*                                                                         *)
(* Delivery is left entirely free (no order between operations, not even   *)
(* those of one user), so what holds here holds whatever the network does; *)
(* Session.tla shows that the threads and links of the program implement   *)
(* this specification.                                                     *)
(***************************************************************************)
EXTENDS CrdtDocument

CONSTANTS User,     \* the users, positive integers
          BaseLen,  \* length of the file every user started from
          MaxOps,   \* bound: operations issued in a behaviour of Spec
          MaxSkip   \* bound: how far a timestamp may run ahead of the known

ASSUME UserAssumption == User \subseteq Nat \ {0}
ASSUME BoundAssumption == /\ BaseLen \in Nat
                          /\ MaxOps \in Nat
                          /\ MaxSkip \in Nat

VARIABLES issued,   \* every operation issued so far
          known     \* known[u]: the operations u has

vars == <<issued, known>>

Base == [n \in 1..BaseLen |-> BaseChar(n)]

View(u) == Replay(Base, known[u])

\* The characters a set of operations speaks of: those of the file and those
\* inserted, deleted or not.
CharsOf(ops) ==
    {BaseChar(n) : n \in 1..BaseLen} \cup {o.id : o \in {p \in ops : IsInsert(p)}}

LatestTime(ops) == Max({0} \cup {o.ts : o \in ops})

NextID(u) == <<u, Cardinality({o \in issued : o.id[1] = u}) + 1>>

Init == /\ issued = {}
        /\ known = [u \in User |-> {}]

\* What u can issue at time ts.  The operation may refer to a character u sees
\* no more: the program's document can run behind the log.
NewOps(u, ts) ==
    {Insert(NextID(u), ts, r, NextID(u)) : r \in {HeadID} \cup CharsOf(known[u])}
    \cup {Delete(NextID(u), ts, r) : r \in CharsOf(known[u])}

Record(u, op) ==
    /\ issued' = issued \cup {op}
    /\ known' = [known EXCEPT ![u] = @ \cup {op}]

\* u issues an operation, later than everything u knows.
IssueFreely(u) ==
    \E op \in issued' \ issued :
        /\ op.ts \in Nat /\ op.ts > LatestTime(known[u])
        /\ op \in NewOps(u, op.ts)
        /\ Record(u, op)

\* The same within bounds.
Issue(u) ==
    /\ Cardinality(issued) < MaxOps
    /\ \E ts \in LatestTime(known[u]) + 1 .. LatestTime(known[u]) + 1 + MaxSkip :
         \E op \in NewOps(u, ts) : Record(u, op)

\* u comes to know some operations of others.
Learn(u) ==
    /\ \E ops \in SUBSET (issued \ known[u]) :
         /\ ops # {}
         /\ known' = [known EXCEPT ![u] = @ \cup ops]
    /\ UNCHANGED issued

Next == \E u \in User : Issue(u) \/ Learn(u)

Spec == Init /\ [][Next]_vars

\* The promise itself, without the bounds.
FreeNext == \E u \in User : IssueFreely(u) \/ Learn(u)

FreeSpec == Init /\ [][FreeNext]_vars

(***************************************************************************)
(* Reference definitions: what the text should be, without replaying.      *)
(***************************************************************************)
IDs(d) == [i \in 1..Len(d.chars) |-> d.chars[i].id]

VisibleIDs(d) == LET v == Visible(d) IN [i \in 1..Len(v) |-> v[i].id]

\* The character an insertion or a base character hangs on, as far as ops
\* tell: an insertion on a character not yet known hangs on the head.
Parent(ops, id) ==
    IF id[1] = 0
    THEN IF id[2] = 1 THEN HeadID ELSE BaseChar(id[2] - 1)
    ELSE LET op == CHOOSE o \in ops : o.id = id
         IN  IF op.ref \in CharsOf(ops) THEN op.ref ELSE HeadID

BirthStamp(ops, id) ==
    IF id[1] <= 0 THEN NoStamp ELSE Stamp(CHOOSE o \in ops : o.id = id)

\* The head and what ops have put behind it.
TreeOf(ops) == {HeadID} \cup CharsOf(ops)

\* The way from the head to a character in the tree of anchors.
Branches(ops) ==
    LET branch[id \in TreeOf(ops)] ==
            IF id = HeadID THEN {id} ELSE {id} \cup branch[Parent(ops, id)]
    IN  branch

\* a comes before b in the tree: a parent before its children, and of two
\* branches the one whose first character has the winning stamp.
TreePrecedes(ops, branch, a, b) ==
    \/ a # b /\ a \in branch[b]
    \/ \E x \in branch[a] \ {HeadID}, y \in branch[b] \ {HeadID} :
         /\ x # y /\ Parent(ops, x) = Parent(ops, y)
         /\ StampWins(BirthStamp(ops, x), BirthStamp(ops, y))

\* The order of a text is that of the tree.
InTreeOrder(ops, ids) ==
    LET branch == Branches(ops)
    IN  \A i, j \in DOMAIN ids : i < j <=> TreePrecedes(ops, branch, ids[i], ids[j])

\* No deletion carries the timestamp of an insertion.
NoTie(ops) ==
    \A d, i \in ops : IsDelete(d) /\ IsInsert(i) => d.ts # i.ts

\* Orders in which a set of insertions can be applied as they arrive: each
\* after the character it refers to.
CausalOrders(ops) ==
    {s \in SetToSeqs(ops) :
        \A i, j \in DOMAIN s : s[i].ref = s[j].id => j < i}

(***************************************************************************)
(* Properties                                                              *)
(***************************************************************************)
\* Whatever subset of the operations has arrived, and in whatever order, the
\* text shows exactly the characters of the file and of the known insertions
\* that no known deletion names, each of them once (crdt.cpp 156-203: a
\* deletion is effective only when its stamp beats the target's, an insertion
\* only once per op_id).
TextIsInsertedMinusDeleted ==
    \A u \in User :
        LET v == VisibleIDs(View(u))
            deleted == {o.ref : o \in {p \in known[u] : IsDelete(p)}}
        IN  /\ ToSet(v) = CharsOf(known[u]) \ deleted
            /\ Len(v) = Cardinality(ToSet(v))

\* id_index_ gives every entry its position, and the head stays first, through
\* any sequence of insertions and deletions (crdt.h 112-114).
IndexInSync ==
    \A u \in User :
        LET d == View(u)
        IN  /\ d.chars[1].id = HeadID /\ d.chars[1].deleted
            /\ DOMAIN d.index = ToSet(IDs(d))
            /\ \A i \in 1..Len(d.chars) : d.index[d.chars[i].id] = i

\* A character stands to the right of the character it was typed after, as
\* soon as both are known (crdt.cpp 161-172), although a replay that meets the
\* insertion first would put it after the head.
AnchorComesFirst ==
    \A u \in User :
        LET d == View(u)
        IN  \A o \in known[u] :
                IsInsert(o) /\ o.ref \in CharsOf(known[u])
                    => FindByID(d, o.ref) < FindByID(d, o.id)

\* Replaying the sorted log yields the order of the tree of anchors, in which
\* the order of two characters depends on nothing else that is known: the scan
\* of crdt.cpp 165-172 is right as long as no deletion shares its timestamp
\* with an insertion.
OrderIsTreeOrder ==
    \A u \in User : NoTie(known[u]) => InTreeOrder(known[u], IDs(View(u)))

\* Insertions commute: applied as they arrive, in any order that respects who
\* refers to whom, they give the order of the same tree (crdt.cpp 165-166: "so
\* concurrent inserts after the same anchor converge identically everywhere").
InsertsCommute ==
    \A u \in User :
        (\A o \in known[u] : IsInsert(o)) =>
            \A s \in CausalOrders(known[u]) :
                InTreeOrder(known[u], IDs(ApplyOperations(LoadFromString(Base), s)))
=============================================================================
