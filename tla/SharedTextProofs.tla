-------------------------- MODULE SharedTextProofs --------------------------
(***************************************************************************)
(* Proofs about SharedText, for any number of users, operations and        *)
(* characters: what DocumentProofs shows of the replay of a log holds of   *)
(* every user's view, because what users know always is a log, in which    *)
(* operations are timed after those that made the characters they refer    *)
(* to.                                                                     *)
(***************************************************************************)
EXTENDS SharedText, DocumentProofs

Own(ops, u) == {o \in ops : o.id[1] = u}

\* Users know operations that were issued.
Types ==
    /\ issued \subseteq Op /\ IsFiniteSet(issued)
    /\ known \in [User -> SUBSET issued]

\* The operations of a user are numbered from 1 on.
Numbered ==
    \A o \in issued : o.id[1] \in User /\ o.id[2] <= Cardinality(Own(issued, o.id[1]))

IDsAreUnique == \A o, p \in issued : o.id = p.id => o = p

\* An operation refers to a character that was there, and is timed after it.
RefersToOlder ==
    \A o \in issued :
        /\ o.ref \in Spoken(BaseLen, issued)
        /\ \A p \in issued : IsInsert(p) /\ p.id = o.ref => p.ts < o.ts

\* Users know what they issued themselves, and so issue it at different times.
OwnAreKnown == \A u \in User : Own(issued, u) \subseteq known[u]

OwnTimesDiffer ==
    \A o, p \in issued : o.id[1] = p.id[1] /\ o.ts = p.ts => o = p

Inv == /\ Types /\ Numbered /\ IDsAreUnique /\ RefersToOlder
       /\ OwnAreKnown /\ OwnTimesDiffer

LEMMA InitInv == Init => Inv
<1> SUFFICES ASSUME Init
             PROVE  Inv
  OBVIOUS
<1>1. issued = {} /\ known = [u \in User |-> {}] /\ IsFiniteSet({})
  BY FS_EmptySet DEF Init
<1> QED BY <1>1 DEF Inv, Types, Numbered, IDsAreUnique, RefersToOlder, OwnAreKnown,
                    OwnTimesDiffer, Own

\* No operation a user knows has a later time than the latest.
LEMMA LatestTimeIsLatest ==
    ASSUME NEW ops, ops \subseteq Op, IsFiniteSet(ops)
    PROVE  LatestTime(ops) \in Nat /\ \A o \in ops : o.ts <= LatestTime(ops)
BY LatestIsLatest DEF LatestTime

\* The next number of a user is new.
LEMMA NextIDIsNew ==
    ASSUME Inv, NEW u \in User
    PROVE  /\ NextID(u) \in (Nat \ {0}) \X Nat /\ NextID(u)[1] = u
           /\ NextID(u)[2] = Cardinality(Own(issued, u)) + 1
           /\ \A o \in issued : o.id # NextID(u)
           /\ NextID(u) # HeadID /\ \A n : NextID(u) # BaseChar(n)
<1>1. IsFiniteSet(Own(issued, u))
  BY FS_Subset DEF Own, Inv, Types
<1>2. Cardinality(Own(issued, u)) \in Nat
  BY <1>1, FS_CardinalityType
<1>3. NextID(u) = <<u, Cardinality(Own(issued, u)) + 1>>
  BY DEF NextID, Own
<1>4. u \in Nat \ {0}
  BY UserAssumption
<1>5. \A o \in issued : o.id # NextID(u)
  <2> SUFFICES ASSUME NEW o \in issued, o.id = NextID(u)
               PROVE  FALSE
    OBVIOUS
  <2>1. o.id[1] = u /\ o.id[2] = Cardinality(Own(issued, u)) + 1
    BY <1>3
  <2> QED BY <1>2, <2>1 DEF Inv, Numbered
<1> QED BY <1>2, <1>3, <1>4, <1>5 DEF HeadID, BaseChar

LEMMA IssueInv ==
    ASSUME Inv, NEW u \in User, IssueFreely(u)
    PROVE  Inv'
<1> DEFINE id == NextID(u)
<1>1. /\ known[u] \subseteq issued /\ known[u] \subseteq Op
      /\ IsFiniteSet(known[u]) /\ issued \subseteq Op
  BY FS_Subset DEF Inv, Types
<1>2. LatestTime(known[u]) \in Nat /\ \A o \in known[u] : o.ts <= LatestTime(known[u])
  BY <1>1, LatestTimeIsLatest
<1>3. /\ id \in (Nat \ {0}) \X Nat /\ id[1] = u
      /\ id[2] = Cardinality(Own(issued, u)) + 1
      /\ \A o \in issued : o.id # id
      /\ id # HeadID /\ \A n : id # BaseChar(n)
  BY NextIDIsNew
<1>4. PICK op : /\ op.ts \in Nat /\ op.ts > LatestTime(known[u])
                /\ op \in NewOps(u, op.ts)
                /\ Record(u, op)
  BY DEF IssueFreely
<1> DEFINE ts == op.ts
<1>typed. /\ op \in {Insert(id, ts, r, id) : r \in {HeadID} \cup CharsOf(known[u])}
                   \cup {Delete(id, ts, r) : r \in CharsOf(known[u])}
          /\ issued' = issued \cup {op}
          /\ known' = [known EXCEPT ![u] = @ \cup {op}]
  BY <1>4 DEF NewOps, Record
<1>5. ts \in Nat \ {0} /\ \A o \in known[u] : o.ts < ts
  BY <1>1, <1>2, <1>4 DEF Op
<1> HIDE DEF id, ts
<1>6. {HeadID} \cup CharsOf(known[u]) = Spoken(BaseLen, known[u])
  BY DEF CharsOf, Spoken
<1>7. Spoken(BaseLen, known[u]) \subseteq ID
  <2>1. HeadID \in ID /\ \A n \in 1..BaseLen : BaseChar(n) \in ID
    BY BoundAssumption DEF HeadID, BaseChar, ID
  <2>2. \A o \in known[u] : o.id \in ID
    BY <1>1 DEF Op, ID
  <2> QED BY <2>1, <2>2 DEF Spoken
<1>8. /\ op \in Op /\ op.id = id /\ op.ts = ts
      /\ op.ref \in Spoken(BaseLen, known[u])
  <2>1. id \in Glyph
    BY <1>3 DEF Glyph, ID
  <2>2. NoChar \in Glyph
    BY DEF Glyph
  <2>3. PICK r \in Spoken(BaseLen, known[u]) :
            op = Insert(id, ts, r, id) \/ op = Delete(id, ts, r)
    BY <1>6, <1>typed
  <2>4. r \in ID
    BY <1>7, <2>3
  <2> QED BY <1>3, <1>5, <2>1, <2>2, <2>3, <2>4 DEF Insert, Delete, Op
<1>9. Spoken(BaseLen, known[u]) \subseteq Spoken(BaseLen, issued)
  BY <1>1 DEF Spoken
<1>10. Types'
  <2>1. issued' \subseteq Op /\ IsFiniteSet(issued')
    BY <1>typed, <1>8, FS_AddElement DEF Inv, Types
  <2>2. known' \in [User -> SUBSET issued']
    BY <1>typed DEF Inv, Types
  <2> QED BY <2>1, <2>2 DEF Types
<1>11. \A o \in issued' : o \in issued \/ o = op
  BY <1>typed
<1>12. IDsAreUnique'
  BY <1>3, <1>8, <1>11 DEF Inv, IDsAreUnique
<1>13. Numbered'
  <2>1. ASSUME NEW v \in User
        PROVE  /\ IsFiniteSet(Own(issued, v))
               /\ Cardinality(Own(issued, v)) \in Nat
               /\ Own(issued', v) = IF v = u THEN Own(issued, v) \cup {op}
                                    ELSE Own(issued, v)
    <3>1. IsFiniteSet(Own(issued, v))
      BY FS_Subset DEF Own, Inv, Types
    <3>2. op.id[1] = u
      BY <1>3, <1>8
    <3> QED BY <1>typed, <3>1, <3>2, FS_CardinalityType DEF Own
  <2>2. op \notin Own(issued, u)
    BY <1>3, <1>8 DEF Own
  <2>3. Cardinality(Own(issued', u)) = Cardinality(Own(issued, u)) + 1
    BY <2>1, <2>2, FS_AddElement
  <2>4. \A v \in User : Cardinality(Own(issued, v)) <= Cardinality(Own(issued', v))
    BY <2>1, <2>3
  <2>5. ASSUME NEW o \in issued'
        PROVE  o.id[1] \in User /\ o.id[2] <= Cardinality(Own(issued', o.id[1]))
    <3>1. CASE o \in issued
      <4>1. /\ o.id[1] \in User /\ o.id[2] \in Nat
            /\ o.id[2] <= Cardinality(Own(issued, o.id[1]))
        BY <1>1, <3>1 DEF Inv, Numbered, Op
      <4>2. /\ Cardinality(Own(issued, o.id[1])) \in Nat
            /\ Cardinality(Own(issued, o.id[1])) <= Cardinality(Own(issued', o.id[1]))
            /\ Cardinality(Own(issued', o.id[1])) \in Nat
        BY <2>1, <2>3, <2>4, <4>1
      <4> QED BY <4>1, <4>2
    <3>2. CASE o = op
      BY <1>3, <1>8, <2>1, <2>3, <3>2
    <3> QED BY <1>11, <3>1, <3>2
  <2> QED BY <2>5 DEF Numbered
<1>14. RefersToOlder'
  <2>1. Spoken(BaseLen, issued) \subseteq Spoken(BaseLen, issued')
    BY <1>typed DEF Spoken
  <2>2. id \notin Spoken(BaseLen, issued)
    BY <1>3 DEF Spoken
  <2>3. ASSUME NEW o \in issued'
        PROVE  /\ o.ref \in Spoken(BaseLen, issued')
               /\ \A p \in issued' : IsInsert(p) /\ p.id = o.ref => p.ts < o.ts
    <3>1. o.ref \in Spoken(BaseLen, issued)
      BY <1>8, <1>9, <1>11 DEF Inv, RefersToOlder
    <3>2. ASSUME NEW p \in issued', IsInsert(p), p.id = o.ref
          PROVE  p.ts < o.ts
      <4>1. p \in issued
        BY <1>8, <1>11, <2>2, <3>1, <3>2
      <4>2. CASE o \in issued
        BY <3>2, <4>1, <4>2 DEF Inv, RefersToOlder
      <4>3. CASE o = op
        <5>1. PICK q \in known[u] : q.id = op.ref
          BY <1>3, <1>8, <3>2, <4>1, <4>3, <1>1, UserAssumption
             DEF Spoken, HeadID, BaseChar, Op
        <5>2. q = p
          BY <1>1, <3>2, <4>1, <4>3, <5>1 DEF Inv, IDsAreUnique
        <5> QED BY <1>5, <1>8, <4>3, <5>2
      <4> QED BY <1>11, <4>2, <4>3
    <3> QED BY <2>1, <3>1, <3>2
  <2> QED BY <2>3 DEF RefersToOlder
<1>15. OwnAreKnown'
  <2> SUFFICES ASSUME NEW v \in User, NEW o \in issued', o.id[1] = v
               PROVE  o \in known'[v]
    BY DEF OwnAreKnown, Own
  <2>1. known[v] \subseteq known'[v] /\ op \in known'[u]
    BY <1>typed DEF Inv, Types
  <2> QED BY <1>3, <1>8, <1>11, <2>1 DEF Inv, OwnAreKnown, Own
<1>16. OwnTimesDiffer'
  <2>1. ASSUME NEW o \in issued, o.id[1] = op.id[1]
        PROVE  o.ts < op.ts
    BY <1>3, <1>5, <1>8, <2>1 DEF Inv, OwnAreKnown, Own
  <2>2. \A o \in issued : o.ts \in Nat
    BY <1>1 DEF Op
  <2>3. \A o \in issued : o.id[1] = op.id[1] => o.ts # op.ts
    BY <1>5, <1>8, <2>1, <2>2
  <2> QED BY <1>11, <2>3 DEF Inv, OwnTimesDiffer
<1> QED BY <1>10, <1>12, <1>13, <1>14, <1>15, <1>16 DEF Inv

LEMMA LearnInv ==
    ASSUME Inv, NEW u \in User, Learn(u)
    PROVE  Inv'
<1>1. /\ issued' = issued /\ known' \in [User -> SUBSET issued]
      /\ \A v \in User : known[v] \subseteq known'[v]
  BY DEF Learn, Inv, Types
<1> QED BY <1>1 DEF Inv, Types, Numbered, IDsAreUnique, RefersToOlder, OwnAreKnown,
                    OwnTimesDiffer, Own

LEMMA StepInv == Inv /\ [FreeNext]_vars => Inv'
<1> SUFFICES ASSUME Inv, [FreeNext]_vars
             PROVE  Inv'
  OBVIOUS
<1>1. CASE FreeNext
  BY <1>1, IssueInv, LearnInv DEF FreeNext
<1>2. CASE UNCHANGED vars
  BY <1>2 DEF vars, Inv, Types, Numbered, IDsAreUnique, RefersToOlder, OwnAreKnown,
              OwnTimesDiffer, Own
<1> QED BY <1>1, <1>2

LEMMA InvHolds == FreeSpec => []Inv
BY InitInv, StepInv, PTL DEF FreeSpec

\* Issuing within the bounds is issuing.
LEMMA IssueIsFree ==
    ASSUME Inv, NEW u \in User, Issue(u)
    PROVE  IssueFreely(u)
<1>1. known[u] \subseteq Op /\ IsFiniteSet(known[u])
  BY FS_Subset DEF Inv, Types
<1>2. LatestTime(known[u]) \in Nat
  BY <1>1, LatestTimeIsLatest
<1>3. PICK ts \in LatestTime(known[u]) + 1 .. LatestTime(known[u]) + 1 + MaxSkip :
        \E op \in NewOps(u, ts) : Record(u, op)
  BY DEF Issue
<1>4. PICK op \in NewOps(u, ts) : Record(u, op)
  BY <1>3
<1>5. ts \in Nat /\ ts > LatestTime(known[u])
  BY <1>2, BoundAssumption
<1>6. op.ts = ts /\ op.id = NextID(u)
  BY <1>4 DEF NewOps, Insert, Delete
<1>7. op \in issued' \ issued
  BY <1>4, <1>6, NextIDIsNew DEF Record
<1> QED BY <1>4, <1>5, <1>6, <1>7 DEF IssueFreely

\* What holds of the promise without bounds holds of every bounded instance
\* that TLC checks.
THEOREM BoundedIsFree == Spec => FreeSpec
<1>1. Init => Inv
  BY InitInv
<1>2. Inv /\ [Next]_vars => [FreeNext]_vars
  BY IssueIsFree DEF Next, FreeNext
<1> QED BY <1>1, <1>2, StepInv, PTL DEF Spec, FreeSpec

\* What a user knows is a log, and the user's view the replay of it.
LEMMA KnownIsLog ==
    ASSUME Inv, NEW u \in User
    PROVE  IsLog(known[u]) /\ IsTimely(known[u]) /\ known[u] \subseteq issued
<1>1. known[u] \in SUBSET issued
  BY DEF Inv, Types
<1>2. IsFiniteSet(known[u])
  BY <1>1, FS_Subset DEF Inv, Types
<1>3. IsTimely(known[u])
  BY <1>1 DEF IsTimely, Inv, RefersToOlder
<1> QED BY <1>1, <1>2, <1>3 DEF IsLog, Inv, Types, IDsAreUnique

LEMMA BaseIsText == Base \in Seq(Glyph) /\ Len(Base) = BaseLen
<1>1. \A n \in 1..BaseLen : BaseChar(n) \in Glyph
  BY BoundAssumption DEF BaseChar, Glyph, ID
<1>2. Base = [n \in 1..BaseLen |-> Base[n]] /\ \A n \in 1..BaseLen : Base[n] \in Glyph
  BY <1>1 DEF Base
<1> QED BY <1>2, BoundAssumption, IsASeq

\* The index agrees with the text in every user's view, after any operations in
\* any order (crdt.h 112-114, crdt.cpp 174-203).
THEOREM IndexCorrect == FreeSpec => []IndexInSync
<1>1. Inv => IndexInSync
  <2> SUFFICES ASSUME Inv, NEW u \in User
               PROVE  LET d == View(u)
                      IN  /\ d.chars[1].id = HeadID /\ d.chars[1].deleted
                          /\ DOMAIN d.index = ToSet(IDs(d))
                          /\ \A i \in 1..Len(d.chars) : d.index[d.chars[i].id] = i
    BY DEF IndexInSync
  <2> DEFINE d == View(u)
  <2>1. InSync(d)
    BY KnownIsLog, BaseIsText, ReplayIsDocument DEF View
  <2> HIDE DEF d
  <2>2. \A id : id \in ToSet(IDs(d)) <=> \E i \in 1..Len(d.chars) : d.chars[i].id = id
    BY DEF ToSet, IDs
  <2>3. DOMAIN d.index = ToSet(IDs(d))
    BY <2>1, <2>2 DEF InSync
  <2> QED BY <2>1, <2>3 DEF InSync, d
<1> QED BY <1>1, InvHolds, PTL

\* In every user's view a character stands behind the character it was typed
\* after, as soon as both are known, in whatever order they came (crdt.cpp
\* 161-172, editor.cpp 274-286).
THEOREM AnchorsFirst == FreeSpec => []AnchorComesFirst
<1>1. Inv => AnchorComesFirst
  <2> SUFFICES ASSUME Inv, NEW u \in User, NEW o \in known[u],
                      IsInsert(o), o.ref \in CharsOf(known[u])
               PROVE  FindByID(View(u), o.ref) < FindByID(View(u), o.id)
    BY DEF AnchorComesFirst
  <2> DEFINE d == View(u)
  <2>1. IsLog(known[u]) /\ IsTimely(known[u])
    BY KnownIsLog
  <2>2. o.ref \in Spoken(BaseLen, known[u]) /\ o.id \in Spoken(BaseLen, known[u])
    BY DEF Spoken, CharsOf
  <2>3. /\ DOMAIN d.index = Spoken(BaseLen, known[u])
        /\ d.index[o.ref] < d.index[o.id]
    BY <2>1, <2>2, BaseIsText, ReplayIsDocument, ReplayPlaced DEF View
  <2> QED BY <2>2, <2>3 DEF FindByID
<1> QED BY <1>1, InvHolds, PTL

\* Every user sees the characters of the file and of the insertions the user
\* knows that no known deletion names, each once, whatever has arrived and in
\* whatever order (crdt.cpp 156-203).
THEOREM TextCorrect == FreeSpec => []TextIsInsertedMinusDeleted
<1>1. Inv => TextIsInsertedMinusDeleted
  <2> SUFFICES ASSUME Inv, NEW u \in User
               PROVE  LET v == VisibleIDs(View(u))
                          deleted == {o.ref : o \in {p \in known[u] : IsDelete(p)}}
                      IN  /\ ToSet(v) = CharsOf(known[u]) \ deleted
                          /\ Len(v) = Cardinality(ToSet(v))
    BY DEF TextIsInsertedMinusDeleted
  <2> DEFINE w == Visible(View(u))
             v == VisibleIDs(View(u))
             deleted == {o.ref : o \in {p \in known[u] : IsDelete(p)}}
  <2>1. IsLog(known[u]) /\ IsTimely(known[u])
    BY KnownIsLog
  <2>2. /\ w \in Seq(Entry)
        /\ \A id : (\E j \in 1..Len(w) : w[j].id = id)
                     <=> /\ id \in Spoken(BaseLen, known[u]) /\ id # HeadID
                         /\ \A o \in known[u] : IsDelete(o) => o.ref # id
        /\ \A j, k \in 1..Len(w) : w[j].id = w[k].id => j = k
    BY <2>1, BaseIsText, ReplayShows DEF View
  <2>3. v = [i \in 1..Len(w) |-> w[i].id]
    BY DEF VisibleIDs
  <2>4. Len(w) \in Nat
    BY <2>2
  <2> HIDE DEF w, v
  <2>5. Len(v) = Len(w) /\ DOMAIN v = 1..Len(w)
    BY <2>3, <2>4
  <2>6. \A id : id \in CharsOf(known[u]) <=> id \in Spoken(BaseLen, known[u]) /\ id # HeadID
    <3>1. \A n : BaseChar(n) # HeadID
      BY DEF BaseChar, HeadID
    <3>2. \A o \in known[u] : o.id # HeadID
      BY <2>1 DEF IsLog, Op, HeadID
    <3> QED BY <3>1, <3>2 DEF CharsOf, Spoken
  <2>7. \A id : id \in ToSet(v) <=> \E j \in 1..Len(w) : w[j].id = id
    <3>1. \A id : id \in ToSet(v) <=> \E j \in DOMAIN v : v[j] = id
      BY DEF ToSet
    <3>2. \A j \in 1..Len(w) : v[j] = w[j].id
      BY <2>3
    <3>3. \A id : id \in ToSet(v) <=> \E j \in 1..Len(w) : v[j] = id
      BY <2>5, <3>1, Zenon
    <3> QED BY <3>2, <3>3, Zenon
  <2>8. ToSet(v) = CharsOf(known[u]) \ deleted
    <3>1. \A id : id \in deleted <=> \E o \in known[u] : IsDelete(o) /\ o.ref = id
      BY DEF deleted
    <3>2. ASSUME NEW id
          PROVE  id \in ToSet(v) <=> id \in CharsOf(known[u]) /\ id \notin deleted
      <4>1. id \in ToSet(v) <=> \E j \in 1..Len(w) : w[j].id = id
        BY <2>7
      <4>2. (\E j \in 1..Len(w) : w[j].id = id)
              <=> /\ id \in Spoken(BaseLen, known[u]) /\ id # HeadID
                  /\ \A o \in known[u] : IsDelete(o) => o.ref # id
        BY <2>2
      <4>3. id \in CharsOf(known[u]) <=> id \in Spoken(BaseLen, known[u]) /\ id # HeadID
        BY <2>6
      <4> QED BY <3>1, <4>1, <4>2, <4>3, Zenon
    <3> HIDE DEF deleted
    <3>3. \A id : id \in ToSet(v) <=> id \in CharsOf(known[u]) \ deleted
      BY <3>2, Zenon
    <3> QED BY <3>3, Zenon
  <2>9. v \in Surjection(1..Len(w), ToSet(v)) /\ v \in Injection(1..Len(w), ToSet(v))
    BY <2>2, <2>3, <2>7 DEF Surjection, Injection, IsInjective
  <2>10. IsFiniteSet(1..Len(w)) /\ Cardinality(1..Len(w)) = Len(w)
    <3>1. /\ IsFiniteSet(1..Len(w))
          /\ Cardinality(1..Len(w)) = IF 1 > Len(w) THEN 0 ELSE Len(w) - 1 + 1
      BY <2>4, FS_Interval
    <3> QED BY <2>4, <3>1
  <2>11. Cardinality(ToSet(v)) = Len(w)
    BY <2>9, <2>10, FS_Surjection
  <2> QED BY <2>5, <2>8, <2>11 DEF v
<1> QED BY <1>1, InvHolds, PTL

(***************************************************************************)
(* The tree of anchors                                                     *)
(***************************************************************************)
Stamps == [ts : Nat, user : Nat]

\* Winning is an order.
LEMMA WinsIsOrder ==
    ASSUME NEW a \in Stamps, NEW b \in Stamps, NEW c \in Stamps
    PROVE  /\ ~StampWins(a, a)
           /\ StampWins(a, b) => ~StampWins(b, a)
           /\ StampWins(a, b) /\ StampWins(b, c) => StampWins(a, c)
           /\ a # b => StampWins(a, b) \/ StampWins(b, a)
BY DEF Stamps, StampWins

\* No two insertions have the same stamp.
StampsDiffer(ops) ==
    \A o, p \in ops : IsInsert(o) /\ IsInsert(p) /\ o.ts = p.ts /\ o.id[1] = p.id[1] => o = p

\* What the users know of each other's insertions and deletions.
IsGrown(ops) == IsLog(ops) /\ IsTimely(ops) /\ StampsDiffer(ops)

Beats(ops, a, b) == StampWins(BirthStamp(ops, a), BirthStamp(ops, b))

\* The tree has the head, the file, and what was inserted.
LEMMA TreeHas ==
    ASSUME NEW ops, IsLog(ops), NEW c \in TreeOf(ops)
    PROVE  /\ ops \subseteq Op
           /\ \/ c = HeadID
              \/ \E n \in 1..BaseLen : c = BaseChar(n)
              \/ \E o \in ops : IsInsert(o) /\ c = o.id
           /\ HeadID \notin CharsOf(ops)
<1>1. ops \subseteq Op
  BY DEF IsLog
<1>2. \A o \in ops : o.id # HeadID
  BY <1>1 DEF Op, HeadID
<1>3. \A n : BaseChar(n) # HeadID
  BY DEF BaseChar, HeadID
<1> QED BY <1>1, <1>2, <1>3 DEF TreeOf, CharsOf

LEMMA InsertionIsItsOwn ==
    ASSUME NEW ops, IsLog(ops), NEW o \in ops
    PROVE  (CHOOSE p \in ops : p.id = o.id) = o
BY DEF IsLog

\* The stamps that characters are born with.
LEMMA BirthIs ==
    ASSUME NEW ops, IsLog(ops)
    PROVE  /\ \A c \in TreeOf(ops) : BirthStamp(ops, c) \in Stamps
           /\ BirthStamp(ops, HeadID) = NoStamp
           /\ \A n : BirthStamp(ops, BaseChar(n)) = NoStamp
           /\ \A o \in ops : BirthStamp(ops, o.id) = Stamp(o) /\ Stamp(o) \in Stamps
<1>1. HeadID[1] = -1 /\ \A n : BaseChar(n)[1] = 0
  BY DEF HeadID, BaseChar
<1>2. BirthStamp(ops, HeadID) = NoStamp
  BY <1>1 DEF BirthStamp
<1>3. \A n : BirthStamp(ops, BaseChar(n)) = NoStamp
  BY <1>1 DEF BirthStamp
<1>4. ASSUME NEW o \in ops
      PROVE  BirthStamp(ops, o.id) = Stamp(o) /\ Stamp(o) \in Stamps
  <2>1. o \in Op /\ ~(o.id[1] <= 0)
    BY DEF IsLog, Op
  <2>2. BirthStamp(ops, o.id) = Stamp(CHOOSE p \in ops : p.id = o.id)
    BY <2>1 DEF BirthStamp
  <2> QED BY <2>1, <2>2, InsertionIsItsOwn DEF Stamp, Stamps, Op
<1>5. NoStamp \in Stamps
  BY DEF NoStamp, Stamps
<1> QED BY <1>2, <1>3, <1>4, <1>5, TreeHas

\* The parents: what was inserted hangs on what it refers to, if that is there;
\* each character of the file hangs on the one before it.
LEMMA ParentIs ==
    ASSUME NEW ops, IsLog(ops)
    PROVE  /\ \A c \in TreeOf(ops) \ {HeadID} : Parent(ops, c) \in TreeOf(ops)
           /\ \A n \in 1..BaseLen :
                 Parent(ops, BaseChar(n)) = IF n = 1 THEN HeadID ELSE BaseChar(n - 1)
           /\ \A o \in ops :
                 Parent(ops, o.id) = IF o.ref \in TreeOf(ops) THEN o.ref ELSE HeadID
<1>1. ASSUME NEW n \in 1..BaseLen
      PROVE  /\ Parent(ops, BaseChar(n)) = IF n = 1 THEN HeadID ELSE BaseChar(n - 1)
             /\ Parent(ops, BaseChar(n)) \in TreeOf(ops)
  <2>1. Parent(ops, BaseChar(n)) = IF n = 1 THEN HeadID ELSE BaseChar(n - 1)
    BY DEF Parent, BaseChar
  <2>2. n # 1 => n - 1 \in 1..BaseLen
    BY BoundAssumption
  <2> QED BY <2>1, <2>2 DEF TreeOf, CharsOf
<1>2. ASSUME NEW o \in ops
      PROVE  /\ Parent(ops, o.id) = IF o.ref \in TreeOf(ops) THEN o.ref ELSE HeadID
             /\ Parent(ops, o.id) \in TreeOf(ops)
  <2>1. o.id[1] # 0
    BY DEF IsLog, Op
  <2> DEFINE own == CHOOSE p \in ops : p.id = o.id
  <2>2. Parent(ops, o.id) = IF own.ref \in CharsOf(ops) THEN own.ref ELSE HeadID
    BY <2>1 DEF Parent
  <2>3. own = o
    BY InsertionIsItsOwn
  <2> QED BY <2>2, <2>3 DEF TreeOf
<1> QED BY <1>1, <1>2, TreeHas

\* A parent's stamp never wins over that of a child.
LEMMA ParentIsOlder ==
    ASSUME NEW ops, IsGrown(ops), NEW c \in TreeOf(ops), c # HeadID
    PROVE  ~Beats(ops, Parent(ops, c), c)
<1>0. IsLog(ops)
  BY DEF IsGrown
<1>1. CASE \E n \in 1..BaseLen : c = BaseChar(n)
  <2>1. BirthStamp(ops, c) = NoStamp /\ BirthStamp(ops, Parent(ops, c)) = NoStamp
    BY <1>0, <1>1, BirthIs, ParentIs
  <2> QED BY <2>1 DEF Beats, StampWins, NoStamp
<1>2. CASE \E o \in ops : IsInsert(o) /\ c = o.id
  <2>1. PICK o \in ops : IsInsert(o) /\ c = o.id
    BY <1>2
  <2> DEFINE p == Parent(ops, c)
  <2>2. p = IF o.ref \in TreeOf(ops) THEN o.ref ELSE HeadID
    BY <1>0, <2>1, ParentIs
  <2>3. p \in TreeOf(ops)
    BY <1>0, ParentIs
  <2>4. BirthStamp(ops, c) = Stamp(o) /\ o.ts \in Nat \ {0}
    BY <1>0, <2>1, BirthIs DEF IsLog, Op
  <2>5. BirthStamp(ops, p).ts < o.ts
    <3>1. CASE \E q \in ops : IsInsert(q) /\ p = q.id
      <4>1. PICK q \in ops : IsInsert(q) /\ p = q.id
        BY <3>1
      <4>2. p = o.ref
        BY <1>0, <2>2, <4>1 DEF IsLog, Op, HeadID
      <4>3. q.ts < o.ts
        BY <4>1, <4>2 DEF IsGrown, IsTimely
      <4>4. BirthStamp(ops, p) = Stamp(q)
        BY <1>0, <4>1, BirthIs
      <4> QED BY <4>3, <4>4 DEF Stamp
    <3>2. CASE p = HeadID \/ \E n \in 1..BaseLen : p = BaseChar(n)
      <4>1. BirthStamp(ops, p) = NoStamp
        BY <1>0, <3>2, BirthIs
      <4> QED BY <2>4, <4>1 DEF NoStamp
    <3> QED BY <1>0, <2>3, <3>1, <3>2, TreeHas
  <2>6. BirthStamp(ops, p).ts \in Nat
    BY <1>0, <2>3, BirthIs DEF Stamps
  <2> QED BY <2>4, <2>5, <2>6 DEF Beats, StampWins, Stamp
<1> QED BY <1>0, <1>1, <1>2, TreeHas

\* Of an insertion and another character, one wins.
LEMMA OneBeatsTheOther ==
    ASSUME NEW ops, IsGrown(ops), NEW o \in ops, IsInsert(o),
           NEW c \in TreeOf(ops), c # o.id
    PROVE  Beats(ops, o.id, c) \/ Beats(ops, c, o.id)
<1>0. IsLog(ops)
  BY DEF IsGrown
<1>1. BirthStamp(ops, o.id) = Stamp(o) /\ o.ts \in Nat \ {0} /\ Stamp(o) \in Stamps
  BY <1>0, BirthIs DEF IsLog, Op
<1>2. BirthStamp(ops, c) # Stamp(o)
  <2>1. CASE \E p \in ops : IsInsert(p) /\ c = p.id
    <3>1. PICK p \in ops : IsInsert(p) /\ c = p.id
      BY <2>1
    <3>2. o.ts # p.ts \/ o.id[1] # p.id[1]
      BY <3>1 DEF IsGrown, StampsDiffer
    <3>3. BirthStamp(ops, c) = Stamp(p)
      BY <1>0, <3>1, BirthIs
    <3> QED BY <3>2, <3>3 DEF Stamp
  <2>2. CASE c = HeadID \/ \E n \in 1..BaseLen : c = BaseChar(n)
    <3>1. BirthStamp(ops, c) = NoStamp
      BY <1>0, <2>2, BirthIs
    <3> QED BY <1>1, <3>1 DEF NoStamp, Stamp
  <2> QED BY <1>0, <2>1, <2>2, TreeHas
<1>3. BirthStamp(ops, c) \in Stamps
  BY <1>0, BirthIs
<1> QED BY <1>1, <1>2, <1>3, WinsIsOrder DEF Beats

\* Winning is an order of the characters.
LEMMA BeatsIsOrder ==
    ASSUME NEW ops, IsLog(ops), NEW a \in TreeOf(ops), NEW b \in TreeOf(ops),
           NEW c \in TreeOf(ops)
    PROVE  /\ ~(Beats(ops, a, b) /\ Beats(ops, b, a))
           /\ Beats(ops, a, b) /\ Beats(ops, b, c) => Beats(ops, a, c)
<1>1. /\ BirthStamp(ops, a) \in Stamps /\ BirthStamp(ops, b) \in Stamps
      /\ BirthStamp(ops, c) \in Stamps
  BY BirthIs
<1> QED BY <1>1, WinsIsOrder DEF Beats

(***************************************************************************)
(* The way to the head                                                     *)
(***************************************************************************)
\* What every set holds that has this character and with each of its characters
\* the parent.
Upwards(ops, S) == \A c \in S \ {HeadID} : Parent(ops, c) \in S

Least(ops, id) ==
    {a \in TreeOf(ops) : \A S \in SUBSET TreeOf(ops) : id \in S /\ Upwards(ops, S) => a \in S}

LEMMA LeastIs ==
    ASSUME NEW ops, IsLog(ops), NEW id \in TreeOf(ops)
    PROVE  Least(ops, id) = IF id = HeadID THEN {id}
                            ELSE {id} \cup Least(ops, Parent(ops, id))
<1>1. CASE id = HeadID
  <2>1. {id} \in SUBSET TreeOf(ops) /\ Upwards(ops, {id})
    BY <1>1 DEF Upwards
  <2>2. id \in Least(ops, id)
    BY DEF Least
  <2>3. \A a \in Least(ops, id) : a \in {id}
    BY <2>1, Zenon DEF Least
  <2> QED BY <1>1, <2>2, <2>3
<1>2. CASE id # HeadID
  <2> DEFINE p == Parent(ops, id)
             T == {id} \cup Least(ops, p)
  <2>1. p \in TreeOf(ops)
    BY <1>2, ParentIs
  <2>2. p \in Least(ops, p)
    BY <2>1 DEF Least
  <2>3. Upwards(ops, Least(ops, p))
    <3> SUFFICES ASSUME NEW c \in Least(ops, p), c # HeadID
                 PROVE  Parent(ops, c) \in Least(ops, p)
      BY DEF Upwards
    <3>1. c \in TreeOf(ops)
      BY DEF Least
    <3>2. Parent(ops, c) \in TreeOf(ops)
      BY <3>1, ParentIs
    <3>3. ASSUME NEW S \in SUBSET TreeOf(ops), p \in S, Upwards(ops, S)
          PROVE  Parent(ops, c) \in S
      <4>1. c \in S
        BY <3>3 DEF Least
      <4> QED BY <3>3, <4>1 DEF Upwards
    <3> QED BY <3>2, <3>3 DEF Least
  <2>4. T \in SUBSET TreeOf(ops) /\ Upwards(ops, T)
    BY <2>2, <2>3 DEF Upwards, Least
  <2>5. \A a \in Least(ops, id) : a \in T
    <3> HIDE DEF p
    <3> QED BY <2>4 DEF Least
  <2>6. \A a \in Least(ops, p) : a \in Least(ops, id)
    <3> SUFFICES ASSUME NEW a \in Least(ops, p), NEW S \in SUBSET TreeOf(ops),
                        id \in S, Upwards(ops, S)
                 PROVE  a \in S
      BY DEF Least
    <3>1. p \in S
      BY <1>2 DEF Upwards
    <3> QED BY <3>1 DEF Least
  <2>7. id \in Least(ops, id)
    BY DEF Least
  <2> QED BY <1>2, <2>5, <2>6, <2>7
<1> QED BY <1>1, <1>2

\* The branches of the tree exist.
LEMMA BranchesExist ==
    ASSUME NEW ops, IsLog(ops)
    PROVE  \A id \in TreeOf(ops) :
              Branches(ops)[id] = IF id = HeadID THEN {id}
                                  ELSE {id} \cup Branches(ops)[Parent(ops, id)]
<1> DEFINE F(f) == f = [id \in TreeOf(ops) |->
                IF id = HeadID THEN {id} ELSE {id} \cup f[Parent(ops, id)]]
           g == [id \in TreeOf(ops) |-> Least(ops, id)]
<1>1. \A id \in TreeOf(ops) :
          g[id] = IF id = HeadID THEN {id} ELSE {id} \cup g[Parent(ops, id)]
  <2> SUFFICES ASSUME NEW id \in TreeOf(ops)
               PROVE  g[id] = IF id = HeadID THEN {id} ELSE {id} \cup g[Parent(ops, id)]
    OBVIOUS
  <2>1. Least(ops, id) = IF id = HeadID THEN {id} ELSE {id} \cup Least(ops, Parent(ops, id))
    BY LeastIs
  <2>2. id # HeadID => Parent(ops, id) \in TreeOf(ops)
    BY ParentIs
  <2> QED BY <2>1, <2>2
<1>2. g = [id \in TreeOf(ops) |-> g[id]]
  OBVIOUS
<1>3. F(g)
  <2> HIDE DEF g
  <2> QED BY <1>1, <1>2
<1>4. Branches(ops) = CHOOSE f : F(f)
  BY DEF Branches
<1>5. F(CHOOSE f : F(f))
  <2> HIDE DEF F, g
  <2> QED BY <1>3
<1>6. F(Branches(ops))
  BY <1>4, <1>5
<1> QED BY <1>6

(***************************************************************************)
(* Texts in the order of the tree                                          *)
(***************************************************************************)
\* Behind its parent a character has only characters before it whose stamps win
\* over its own.
InTree(ops, d) ==
    /\ DOMAIN d.index \subseteq TreeOf(ops)
    /\ \A c \in DOMAIN d.index \ {HeadID} :
          /\ Parent(ops, c) \in DOMAIN d.index
          /\ d.index[Parent(ops, c)] < d.index[c]
          /\ \A e \in DOMAIN d.index :
                d.index[Parent(ops, c)] < d.index[e] /\ d.index[e] < d.index[c]
                   => Beats(ops, e, c)

\* Positions tell characters apart.
LEMMA PlacesDiffer ==
    ASSUME NEW d, InSync(d), NEW a \in DOMAIN d.index, NEW b \in DOMAIN d.index
    PROVE  /\ d.index[a] \in Nat /\ d.index[a] > 0
           /\ d.index[a] = d.index[b] => a = b
           /\ a # HeadID => d.index[a] > 1
BY Places

\* What is known of the branch of one character: it leads to the left, from each
\* character to its parent, to the head.
Leads(ops, d, c) ==
    LET branch == Branches(ops)[c]
    IN  /\ c \in branch /\ HeadID \in branch
        /\ \A s \in branch : /\ s \in TreeOf(ops) /\ d.index[s] <= d.index[c]
                             /\ s # HeadID => Parent(ops, s) \in branch

LEMMA BranchesLead ==
    ASSUME NEW ops, IsLog(ops), NEW d, InSync(d), InTree(ops, d),
           DOMAIN d.index = TreeOf(ops)
    PROVE  \A c \in TreeOf(ops) : Leads(ops, d, c)
<1> DEFINE T == {d.index[c] : c \in {e \in TreeOf(ops) : ~Leads(ops, d, e)}}
<1> SUFFICES ASSUME T # {}
             PROVE  FALSE
  OBVIOUS
<1>1. T \in SUBSET Nat
  BY PlacesDiffer
<1>2. PICK m \in T : \A n \in T : m <= n
  <2> HIDE DEF T
  <2> QED BY <1>1, LeastNatural
<1>3. PICK c \in TreeOf(ops) : ~Leads(ops, d, c) /\ d.index[c] = m
  BY <1>2
<1>4. \A e \in TreeOf(ops) : d.index[e] < d.index[c] => Leads(ops, d, e)
  <2> SUFFICES ASSUME NEW e \in TreeOf(ops), d.index[e] < d.index[c], ~Leads(ops, d, e)
               PROVE  FALSE
    OBVIOUS
  <2>1. d.index[e] \in T
    OBVIOUS
  <2>2. d.index[e] \in Nat /\ d.index[c] \in Nat
    BY PlacesDiffer
  <2> HIDE DEF T
  <2> QED BY <1>2, <1>3, <2>1, <2>2
<1> HIDE DEF T
<1>5. Branches(ops)[c] = IF c = HeadID THEN {c} ELSE {c} \cup Branches(ops)[Parent(ops, c)]
  BY BranchesExist
<1>6. CASE c = HeadID
  <2>1. Branches(ops)[c] = {c}
    BY <1>5, <1>6
  <2>2. d.index[c] <= d.index[c]
    BY PlacesDiffer
  <2> QED BY <1>3, <1>6, <2>1, <2>2 DEF Leads
<1>7. CASE c # HeadID
  <2> DEFINE p == Parent(ops, c)
             up == Branches(ops)[p]
  <2>1. p \in TreeOf(ops) /\ d.index[p] < d.index[c]
    BY <1>7 DEF InTree
  <2>2. Leads(ops, d, p)
    BY <1>4, <2>1
  <2>3. Branches(ops)[c] = {c} \cup up
    BY <1>5, <1>7
  <2>4. /\ p \in up /\ HeadID \in up
        /\ \A s \in up : /\ s \in TreeOf(ops) /\ d.index[s] <= d.index[p]
                         /\ s # HeadID => Parent(ops, s) \in up
    BY <2>2 DEF Leads
  <2>5. \A s \in up : d.index[s] <= d.index[c]
    <3> SUFFICES ASSUME NEW s \in up PROVE d.index[s] <= d.index[c]
      OBVIOUS
    <3>1. s \in TreeOf(ops) /\ d.index[s] <= d.index[p]
      BY <2>4
    <3>2. d.index[s] \in Nat /\ d.index[p] \in Nat /\ d.index[c] \in Nat
      BY <2>1, <3>1, PlacesDiffer
    <3> QED BY <2>1, <3>1, <3>2
  <2>6. d.index[c] <= d.index[c]
    BY PlacesDiffer
  <2> HIDE DEF p, up
  <2>7. Leads(ops, d, c)
    BY <2>3, <2>4, <2>5, <2>6 DEF Leads, p
  <2> QED BY <1>3, <2>7
<1> QED BY <1>6, <1>7

\* Of two characters with one parent, all that hangs on the first stands before
\* all that hangs on the second.
LEMMA SiblingsApart ==
    ASSUME NEW ops, IsGrown(ops), NEW d, InSync(d), InTree(ops, d),
           DOMAIN d.index = TreeOf(ops),
           NEW a \in TreeOf(ops), NEW b \in TreeOf(ops),
           NEW x \in Branches(ops)[a] \ {HeadID}, NEW y \in Branches(ops)[b] \ {HeadID},
           Parent(ops, x) = Parent(ops, y), d.index[x] < d.index[y]
    PROVE  d.index[a] < d.index[b]
<1> DEFINE branch == Branches(ops)
           at(c) == d.index[c]
           T == {at(s) : s \in {c \in branch[a] : x \in branch[c] /\ at(y) <= at(c)}}
<1>0. IsLog(ops)
  BY DEF IsGrown
<1>1. Leads(ops, d, a) /\ Leads(ops, d, b)
  BY <1>0, BranchesLead
<1>2. x \in TreeOf(ops) /\ y \in TreeOf(ops) /\ at(y) <= at(b)
  BY <1>1 DEF Leads
<1>3. \A c \in TreeOf(ops) : at(c) \in Nat
  BY PlacesDiffer
<1> SUFFICES ASSUME ~(at(a) < at(b))
             PROVE  FALSE
  OBVIOUS
<1>4. at(y) <= at(a)
  BY <1>2, <1>3
<1>5. at(a) \in T
  BY <1>1, <1>4 DEF Leads
<1>6. T \in SUBSET Nat
  BY <1>1, <1>3 DEF Leads
<1>7. PICK m \in T : \A n \in T : m <= n
  <2> HIDE DEF T
  <2> QED BY <1>5, <1>6, LeastNatural
<1>8. PICK s \in branch[a] : x \in branch[s] /\ at(y) <= at(s) /\ at(s) = m
  BY <1>7
<1> DEFINE p == Parent(ops, s)
<1>9. s \in TreeOf(ops) /\ s # x
  BY <1>1, <1>2, <1>3, <1>8 DEF Leads
<1>10. s # HeadID
  <2>1. branch[HeadID] = {HeadID}
    BY <1>0, BranchesExist DEF TreeOf
  <2> QED BY <1>8, <2>1
<1>11. p \in TreeOf(ops) /\ p \in branch[a] /\ at(p) < at(s)
  BY <1>0, <1>1, <1>8, <1>9, <1>10, ParentIs DEF Leads, InTree
<1>12. x \in branch[p]
  <2>1. branch[s] = {s} \cup branch[p]
    BY <1>0, <1>9, <1>10, BranchesExist
  <2> QED BY <1>8, <1>9, <2>1
<1>13. at(x) <= at(p)
  BY <1>0, <1>11, <1>12, BranchesLead DEF Leads
<1>14. at(p) < at(y)
  <2> SUFFICES ASSUME at(y) <= at(p)
               PROVE  FALSE
    BY <1>2, <1>3, <1>11
  <2>1. at(p) \in T
    BY <1>11, <1>12
  <2>2. at(s) <= at(p)
    <3> HIDE DEF T
    <3> QED BY <1>7, <1>8, <2>1
  <2> QED BY <1>3, <1>9, <1>11, <2>2
<1> DEFINE r == Parent(ops, x)
<1>15. r \in TreeOf(ops) /\ at(r) < at(x)
  BY <1>0, <1>2, ParentIs DEF InTree
<1>16. Beats(ops, p, y)
  <2>1. at(r) < at(p)
    BY <1>2, <1>3, <1>11, <1>13, <1>15
  <2> QED BY <1>2, <1>11, <1>14, <2>1 DEF InTree
<1>17. s # y
  <2> SUFFICES ASSUME s = y
               PROVE  FALSE
    OBVIOUS
  <2>1. at(p) < at(x)
    BY <1>15
  <2> QED BY <1>2, <1>3, <1>11, <1>13, <2>1
<1>18. Beats(ops, y, s)
  <2>1. at(y) < at(s)
    BY <1>2, <1>3, <1>8, <1>9, <1>17, PlacesDiffer
  <2> QED BY <1>2, <1>9, <1>10, <1>14, <2>1 DEF InTree
<1>19. Beats(ops, p, s)
  BY <1>0, <1>2, <1>9, <1>11, <1>16, <1>18, BeatsIsOrder
<1> QED BY <1>9, <1>10, <1>19, ParentIsOlder

\* A text in which characters stand like this is in the order of the tree.
LEMMA OrderIsOfTree ==
    ASSUME NEW ops, IsGrown(ops), NEW d, InSync(d), InTree(ops, d),
           DOMAIN d.index = TreeOf(ops),
           NEW a \in TreeOf(ops), NEW b \in TreeOf(ops)
    PROVE  d.index[a] < d.index[b] <=> TreePrecedes(ops, Branches(ops), a, b)
<1> DEFINE branch == Branches(ops)
           at(c) == d.index[c]
<1>0. IsLog(ops)
  BY DEF IsGrown
<1>1. Leads(ops, d, a) /\ Leads(ops, d, b)
  BY <1>0, BranchesLead
<1>2. \A c \in TreeOf(ops) : at(c) \in Nat
  BY PlacesDiffer
<1>3. \A c \in TreeOf(ops) : c # HeadID =>
          /\ branch[c] = {c} \cup branch[Parent(ops, c)]
          /\ Parent(ops, c) \in TreeOf(ops) /\ at(Parent(ops, c)) < at(c)
  BY <1>0, ParentIs, BranchesExist DEF InTree
<1>4. \A c \in TreeOf(ops) : Leads(ops, d, c)
  BY <1>0, BranchesLead
<1>5. ASSUME NEW x \in TreeOf(ops), NEW y \in TreeOf(ops), x # HeadID, y # HeadID,
             Parent(ops, x) = Parent(ops, y), at(x) < at(y)
      PROVE  Beats(ops, x, y)
  <2>1. at(Parent(ops, y)) < at(x)
    BY <1>3, <1>5
  <2> QED BY <1>5, <2>1 DEF InTree
<1>6. ASSUME TreePrecedes(ops, branch, a, b)
      PROVE  at(a) < at(b)
  <2>1. CASE a # b /\ a \in branch[b]
    <3>1. at(a) <= at(b) /\ at(a) # at(b)
      BY <1>1, <2>1, PlacesDiffer DEF Leads
    <3> QED BY <1>2, <3>1
  <2>2. CASE \E x \in branch[a] \ {HeadID}, y \in branch[b] \ {HeadID} :
                /\ x # y /\ Parent(ops, x) = Parent(ops, y) /\ Beats(ops, x, y)
    <3>1. PICK x \in branch[a] \ {HeadID}, y \in branch[b] \ {HeadID} :
                /\ x # y /\ Parent(ops, x) = Parent(ops, y) /\ Beats(ops, x, y)
      BY <2>2
    <3>2. x \in TreeOf(ops) /\ y \in TreeOf(ops)
      BY <1>1 DEF Leads
    <3>3. ~(at(y) < at(x))
      <4>1. at(y) < at(x) => Beats(ops, y, x)
        BY <1>5, <3>1, <3>2
      <4> QED BY <1>0, <3>1, <3>2, <4>1, BeatsIsOrder
    <3>4. at(x) < at(y)
      BY <1>2, <3>1, <3>2, <3>3, PlacesDiffer
    <3> QED BY <3>1, <3>4, SiblingsApart
  <2> QED BY <1>6, <2>1, <2>2 DEF TreePrecedes, Beats
<1>7. ASSUME at(a) < at(b), a \notin branch[b]
      PROVE  TreePrecedes(ops, branch, a, b)
  <2> DEFINE X == {at(s) : s \in {c \in branch[a] : c \notin branch[b]}}
  <2>1. X \in SUBSET Nat /\ at(a) \in X
    BY <1>1, <1>2, <1>7 DEF Leads
  <2>2. PICK m \in X : \A n \in X : m <= n
    <3> HIDE DEF X
    <3> QED BY <2>1, LeastNatural
  <2>3. PICK x \in branch[a] : x \notin branch[b] /\ at(x) = m
    BY <2>2
  <2> DEFINE r == Parent(ops, x)
  <2>4. x \in TreeOf(ops) /\ x # HeadID
    BY <1>1, <2>3 DEF Leads
  <2>5. r \in branch[a] /\ r \in TreeOf(ops) /\ at(r) < at(x)
    BY <1>1, <1>3, <2>3, <2>4 DEF Leads
  <2>6. r \in branch[b]
    <3> SUFFICES ASSUME r \notin branch[b]
                 PROVE  FALSE
      OBVIOUS
    <3>1. at(r) \in X
      BY <2>5
    <3>2. at(x) <= at(r)
      <4> HIDE DEF X
      <4> QED BY <2>2, <2>3, <3>1
    <3> QED BY <1>2, <2>4, <2>5, <3>2
  <2> DEFINE Y == {at(s) : s \in {c \in branch[b] : r \in branch[c] /\ c # r}}
  <2>7. r # b
    <3> SUFFICES ASSUME r = b
                 PROVE  FALSE
      OBVIOUS
    <3>1. at(b) <= at(a)
      BY <1>1, <2>5 DEF Leads
    <3> QED BY <1>2, <1>7, <3>1
  <2>8. Y \in SUBSET Nat /\ at(b) \in Y
    BY <1>1, <1>2, <2>6, <2>7 DEF Leads
  <2>9. PICK k \in Y : \A n \in Y : k <= n
    <3> HIDE DEF Y
    <3> QED BY <2>8, LeastNatural
  <2>10. PICK y \in branch[b] : r \in branch[y] /\ y # r /\ at(y) = k
    BY <2>9
  <2> DEFINE q == Parent(ops, y)
  <2>11. y \in TreeOf(ops) /\ y # HeadID
    <3>1. branch[HeadID] = {HeadID}
      BY <1>0, BranchesExist DEF TreeOf
    <3> QED BY <1>1, <2>10, <3>1 DEF Leads
  <2>12. q \in branch[b] /\ q \in TreeOf(ops) /\ at(q) < at(y) /\ r \in branch[q]
    BY <1>1, <1>3, <2>10, <2>11 DEF Leads
  <2>13. q = r
    <3> SUFFICES ASSUME q # r
                 PROVE  FALSE
      OBVIOUS
    <3>1. at(q) \in Y
      BY <2>12
    <3>2. at(y) <= at(q)
      <4> HIDE DEF Y
      <4> QED BY <2>9, <2>10, <3>1
    <3> QED BY <1>2, <2>11, <2>12, <3>2
  <2>14. x # y
    BY <2>3, <2>10
  <2> HIDE DEF r, q, X, Y
  <2>15. Parent(ops, x) = Parent(ops, y)
    BY <2>13 DEF r, q
  <2>16. at(x) < at(y)
    <3> SUFFICES ASSUME ~(at(x) < at(y))
                 PROVE  FALSE
      OBVIOUS
    <3>1. at(y) < at(x)
      BY <1>2, <2>4, <2>11, <2>14, PlacesDiffer
    <3>2. at(b) < at(a)
      BY <2>3, <2>4, <2>10, <2>11, <2>15, <3>1, SiblingsApart
    <3> QED BY <1>2, <1>7, <3>2
  <2>17. Beats(ops, x, y)
    BY <1>5, <2>4, <2>11, <2>15, <2>16
  <2> QED BY <2>3, <2>4, <2>10, <2>11, <2>14, <2>15, <2>17 DEF TreePrecedes, Beats
<1>8. ASSUME at(a) < at(b), a \in branch[b]
      PROVE  TreePrecedes(ops, branch, a, b)
  <2>1. a # b
    BY <1>2, <1>8
  <2> QED BY <1>8, <2>1 DEF TreePrecedes
<1> QED BY <1>6, <1>7, <1>8

\* The text is that of the tree.
IsTextOf(ops, d) == InSync(d) /\ InTree(ops, d) /\ DOMAIN d.index = TreeOf(ops)

LEMMA TextIsInTreeOrder ==
    ASSUME NEW ops, IsGrown(ops), NEW d, IsTextOf(ops, d)
    PROVE  InTreeOrder(ops, IDs(d))
<1>0. InSync(d) /\ InTree(ops, d) /\ DOMAIN d.index = TreeOf(ops)
  BY DEF IsTextOf
<1>1. Len(d.chars) \in Nat
  BY <1>0, Places
<1>2. DOMAIN IDs(d) = 1..Len(d.chars) /\ \A i \in 1..Len(d.chars) : IDs(d)[i] = d.chars[i].id
  BY DEF IDs
<1>3. \A i \in 1..Len(d.chars) : /\ d.chars[i].id \in TreeOf(ops)
                                  /\ d.index[d.chars[i].id] = i
  BY <1>0 DEF InSync
<1> SUFFICES ASSUME NEW i \in 1..Len(d.chars), NEW j \in 1..Len(d.chars)
             PROVE  i < j <=> TreePrecedes(ops, Branches(ops), IDs(d)[i], IDs(d)[j])
  BY <1>2 DEF InTreeOrder
<1> QED BY <1>0, <1>2, <1>3, OrderIsOfTree

(***************************************************************************)
(* What the scan does                                                      *)
(***************************************************************************)
LEMMA LoadedInTree ==
    ASSUME NEW ops, IsLog(ops)
    PROVE  InTree(ops, LoadFromString(Base))
<1> DEFINE d == LoadFromString(Base)
<1>1. /\ DOMAIN d.index = {HeadID} \cup {BaseChar(n) : n \in 1..BaseLen}
      /\ d.index[HeadID] = 1
      /\ \A n \in 1..BaseLen : d.index[BaseChar(n)] = n + 1
  <2>1. d.index = [id \in {HeadID} \cup {BaseChar(n) : n \in 1..BaseLen} |->
                      IF id = HeadID THEN 1 ELSE id[2] + 1]
    BY BaseIsText DEF LoadFromString
  <2>2. \A n : BaseChar(n) # HeadID /\ BaseChar(n)[2] = n
    BY DEF BaseChar, HeadID
  <2> HIDE DEF d
  <2> QED BY <2>1, <2>2
<1> HIDE DEF d
<1>2. DOMAIN d.index \subseteq TreeOf(ops)
  BY <1>1 DEF TreeOf, CharsOf
<1>3. ASSUME NEW n \in 1..BaseLen
      PROVE  LET p == Parent(ops, BaseChar(n))
             IN  p \in DOMAIN d.index /\ d.index[p] = n
  <2>1. Parent(ops, BaseChar(n)) = IF n = 1 THEN HeadID ELSE BaseChar(n - 1)
    BY ParentIs
  <2>2. n # 1 => n - 1 \in 1..BaseLen /\ (n - 1) + 1 = n
    BY BoundAssumption
  <2> QED BY <1>1, <2>1, <2>2
<1>4. \A e \in DOMAIN d.index : d.index[e] \in Nat
  BY <1>1, BoundAssumption
<1>5. ASSUME NEW c \in DOMAIN d.index \ {HeadID}
      PROVE  /\ Parent(ops, c) \in DOMAIN d.index
             /\ d.index[Parent(ops, c)] < d.index[c]
             /\ \A e \in DOMAIN d.index :
                   ~(d.index[Parent(ops, c)] < d.index[e] /\ d.index[e] < d.index[c])
  <2>1. PICK n \in 1..BaseLen : c = BaseChar(n)
    BY <1>1
  <2>2. Parent(ops, c) \in DOMAIN d.index /\ d.index[Parent(ops, c)] = n /\ d.index[c] = n + 1
    BY <1>1, <1>3, <2>1
  <2> QED BY <1>4, <2>2, BoundAssumption
<1> QED BY <1>2, <1>5 DEF InTree, d

\* The scan compares with the stamps that characters were born with.
ScanSees(ops, d, op) ==
    \A x \in EntriesOf(d) : StampWins(x.stamp, Stamp(op)) <=> Beats(ops, x.id, op.id)

LEMMA ScanStops ==
    ASSUME NEW chars \in Seq(Entry), NEW a \in 1..Len(chars), NEW incoming
    PROVE  LET pos == ScanEnd(chars, a, incoming)
           IN  /\ \A k \in 1..Len(chars) :
                     a < k /\ k < pos => StampWins(chars[k].stamp, incoming)
               /\ pos <= Len(chars) => ~StampWins(chars[pos].stamp, incoming)
<1> DEFINE T == {i \in a + 1 .. Len(chars) + 1 :
                    \/ i = Len(chars) + 1
                    \/ ~StampWins(chars[i].stamp, incoming)}
<1>1. T \in SUBSET Nat /\ Len(chars) + 1 \in T
  OBVIOUS
<1>2. Min(T) \in T /\ \A n \in T : Min(T) <= n
  <2> HIDE DEF T
  <2> QED BY <1>1, MinOfNaturals
<1>3. ScanEnd(chars, a, incoming) = Min(T)
  BY DEF ScanEnd
<1>4. ASSUME NEW k \in 1..Len(chars), a < k, k < Min(T)
      PROVE  StampWins(chars[k].stamp, incoming)
  <2>1. k \notin T
    <3> HIDE DEF T
    <3>1. Min(T) \in Nat
      BY <1>1, <1>2
    <3> QED BY <1>2, <1>4, <3>1
  <2> QED BY <1>4, <2>1
<1>5. Min(T) <= Len(chars) => ~StampWins(chars[Min(T)].stamp, incoming)
  BY <1>2
<1> QED BY <1>3, <1>4, <1>5

\* An insertion goes to its place in the tree.
LEMMA InsertInTree ==
    ASSUME NEW ops, IsGrown(ops), NEW d, InSync(d), InTree(ops, d),
           NEW op \in ops, IsInsert(op), op.id \notin d.applied,
           op.ref \in TreeOf(ops) => op.ref \in DOMAIN d.index,
           ScanSees(ops, d, op)
    PROVE  InTree(ops, ApplyOperation(d, op))
<1> DEFINE e      == [d EXCEPT !.applied = @ \cup {op.id}]
           anchor == AnchorOf(e, op.ref)
           pos    == ScanEnd(e.chars, anchor, Stamp(op))
           entry  == NewEntry(op)
           n      == PutIn(e, pos, entry)
           at(c)  == d.index[c]
<1>0. IsLog(ops) /\ op \in Op
  BY DEF IsGrown, IsLog
<1>1. /\ InSync(e) /\ e.chars = d.chars /\ e.index = d.index
      /\ e.applied = d.applied \cup {op.id}
  BY RememberKeepsSync
<1> HIDE DEF e
<1>2. ApplyOperation(d, op) = n
  BY DEF ApplyOperation, ApplyInsert, PutIn, NewEntry, e
<1>3. /\ anchor \in 1..Len(d.chars) /\ d.chars \in Seq(Entry) /\ Len(d.chars) \in Nat
      /\ anchor = IF op.ref \in DOMAIN d.index THEN at(op.ref) ELSE 1
  BY <1>1, Places DEF AnchorOf, FindByID, InSync, IsDocument
<1> DEFINE p == Parent(ops, op.id)
<1>4. p \in DOMAIN d.index /\ anchor = at(p)
  <2>1. p = IF op.ref \in TreeOf(ops) THEN op.ref ELSE HeadID
    BY <1>0, ParentIs
  <2>2. HeadID \in DOMAIN d.index /\ at(HeadID) = 1
    BY Places
  <2>3. DOMAIN d.index \subseteq TreeOf(ops)
    BY DEF InTree
  <2> HIDE DEF anchor, p
  <2> QED BY <1>3, <2>1, <2>2, <2>3
<1> HIDE DEF anchor
<1>5. pos \in anchor + 1..Len(d.chars) + 1
  BY <1>1, <1>3, ScanEndInRange
<1>6. /\ \A k \in 1..Len(d.chars) :
             anchor < k /\ k < pos => StampWins(d.chars[k].stamp, Stamp(op))
      /\ pos <= Len(d.chars) => ~StampWins(d.chars[pos].stamp, Stamp(op))
  BY <1>1, <1>3, ScanStops
<1> HIDE DEF pos
<1>7. pos \in 2..Len(e.chars) + 1
  BY <1>1, <1>3, <1>5
<1>8. entry \in Entry /\ entry.id = op.id
  BY <1>0 DEF NewEntry, Entry, Op, Stamp, ID
<1>9. op.id \notin DOMAIN d.index /\ op.id # HeadID
  <2>1. op.id[1] > 0
    BY <1>0 DEF Op
  <2>2. HeadID \in DOMAIN d.index
    BY Places
  <2> QED BY <2>1, <2>2 DEF InSync
<1> HIDE DEF entry
<1>10. /\ n.index[op.id] = pos
       /\ \A id : id \in DOMAIN n.index <=> id \in DOMAIN d.index \/ id = op.id
       /\ \A id \in DOMAIN d.index :
             n.index[id] = IF at(id) < pos THEN at(id) ELSE at(id) + 1
  <2>1. /\ InSync(e) /\ pos \in 2..Len(e.chars) + 1 /\ entry \in Entry
        /\ entry.id \notin DOMAIN e.index
        /\ entry.id[1] > 0 => entry.id \in e.applied
    <3> HIDE DEF n
    <3> QED BY <1>1, <1>7, <1>8, <1>9
  <2>2. /\ n.index[entry.id] = pos
        /\ \A id : id \in DOMAIN n.index <=> id \in DOMAIN e.index \/ id = entry.id
        /\ \A id \in DOMAIN e.index :
              n.index[id] = IF e.index[id] < pos THEN e.index[id] ELSE e.index[id] + 1
    BY <2>1, PutInSync
  <2> HIDE DEF n
  <2> QED BY <1>1, <1>8, <2>2
<1> HIDE DEF n, p
<1>11. /\ \A c \in DOMAIN d.index : at(c) \in 1..Len(d.chars) /\ d.chars[at(c)].id = c
       /\ \A c \in DOMAIN d.index : c \in TreeOf(ops)
       /\ op.id \in TreeOf(ops)
  BY Places DEF InTree, TreeOf, CharsOf
<1>12. ASSUME NEW c \in DOMAIN d.index, anchor < at(c), at(c) < pos
       PROVE  Beats(ops, c, op.id)
  BY <1>6, <1>11, <1>12 DEF ScanSees, EntriesOf
<1>13. ASSUME NEW c \in DOMAIN d.index, at(c) = pos
       PROVE  Beats(ops, op.id, c)
  <2>1. ~Beats(ops, c, op.id)
    BY <1>6, <1>11, <1>13 DEF ScanSees, EntriesOf
  <2> QED BY <1>9, <1>11, <2>1, OneBeatsTheOther
<1>14. DOMAIN n.index \subseteq TreeOf(ops)
  BY <1>10, <1>11
<1>15. ASSUME NEW c \in DOMAIN n.index \ {HeadID}
       PROVE  /\ Parent(ops, c) \in DOMAIN n.index
              /\ n.index[Parent(ops, c)] < n.index[c]
              /\ \A f \in DOMAIN n.index :
                    n.index[Parent(ops, c)] < n.index[f] /\ n.index[f] < n.index[c]
                       => Beats(ops, f, c)
  <2>1. CASE c = op.id
    <3>1. p \in DOMAIN n.index /\ n.index[p] = at(p) /\ n.index[c] = pos
      BY <1>3, <1>4, <1>5, <1>10, <1>11, <2>1
    <3>2. ASSUME NEW f \in DOMAIN n.index, n.index[p] < n.index[f], n.index[f] < pos
          PROVE  Beats(ops, f, op.id)
      <4>1. f \in DOMAIN d.index /\ at(f) < pos /\ n.index[f] = at(f)
        BY <1>3, <1>5, <1>10, <1>11, <3>2
      <4> QED BY <1>4, <1>12, <3>1, <3>2, <4>1
    <3> QED BY <1>3, <1>4, <1>5, <2>1, <3>1, <3>2 DEF p
  <2>2. CASE c \in DOMAIN d.index
    <3> DEFINE q == Parent(ops, c)
    <3>1. /\ q \in DOMAIN d.index /\ at(q) < at(c)
          /\ \A f \in DOMAIN d.index : at(q) < at(f) /\ at(f) < at(c) => Beats(ops, f, c)
      BY <2>2 DEF InTree
    <3> HIDE DEF q
    <3>2. q \in DOMAIN n.index /\ n.index[q] < n.index[c]
      BY <1>3, <1>5, <1>10, <1>11, <2>2, <3>1
    <3>3. ASSUME NEW f \in DOMAIN n.index, n.index[q] < n.index[f], n.index[f] < n.index[c]
          PROVE  Beats(ops, f, c)
      <4>1. CASE f \in DOMAIN d.index
        <5>1. at(q) < at(f) /\ at(f) < at(c)
          BY <1>3, <1>5, <1>10, <1>11, <2>2, <3>1, <3>3, <4>1
        <5> QED BY <3>1, <4>1, <5>1
      <4>2. CASE f = op.id
        <5>1. at(q) < pos /\ pos <= at(c)
          BY <1>3, <1>5, <1>10, <1>11, <2>2, <3>1, <3>3, <4>2
        <5> DEFINE z == d.chars[pos].id
        <5>2. z \in DOMAIN d.index /\ at(z) = pos
          <6>1. pos \in 1..Len(d.chars)
            BY <1>3, <1>5, <1>11, <2>2, <5>1
          <6> QED BY <6>1 DEF InSync
        <5> HIDE DEF z
        <5>3. Beats(ops, op.id, z)
          BY <1>13, <5>2
        <5>4. CASE at(z) = at(c)
          BY <2>2, <4>2, <5>2, <5>3, <5>4, PlacesDiffer
        <5>5. CASE at(z) # at(c)
          <6>1. Beats(ops, z, c)
            BY <1>3, <1>5, <1>11, <2>2, <3>1, <5>1, <5>2, <5>5
          <6> QED BY <1>0, <1>11, <2>2, <4>2, <5>2, <5>3, <6>1, BeatsIsOrder
        <5> QED BY <5>4, <5>5
      <4> QED BY <1>10, <4>1, <4>2
    <3> QED BY <3>2, <3>3 DEF q
  <2> QED BY <1>10, <2>1, <2>2
<1>16. InTree(ops, n)
  BY <1>14, <1>15 DEF InTree
<1> QED BY <1>2, <1>16

(***************************************************************************)
(* Sequences of operations that make the tree                              *)
(***************************************************************************)
\* Operations of a set in an order in which they can be applied to d: each
\* insertion comes after what it refers to, as far as that is in the set, and is
\* timed after the deletions before it.
Causal(ops, d, s) ==
    /\ Fresh(d, s) /\ \A k \in 1..Len(s) : s[k] \in ops
    /\ \A k \in 1..Len(s) :
          IsInsert(s[k]) /\ s[k].ref \in TreeOf(ops) => There(d, s, k - 1, s[k].ref)
    /\ \A j, k \in 1..Len(s) :
          j < k /\ IsDelete(s[j]) /\ IsInsert(s[k]) => s[j].ts < s[k].ts

\* A character has the stamp it was born with, or that of a deletion of it.
Stamped(ops, s, n, t) ==
    \A x \in EntriesOf(t) :
        \/ x.stamp = BirthStamp(ops, x.id)
        \/ \E k \in 1..n : IsDelete(s[k]) /\ s[k].ref = x.id /\ x.stamp = Stamp(s[k])

\* After n operations the text is in the order of the tree.
Grown(ops, d, s, n, t) == Placed(d, s, n, t) /\ InTree(ops, t) /\ Stamped(ops, s, n, t)

\* The scan of an insertion does not see that characters were deleted: it stops
\* before a character born earlier whether or not that is deleted by now.
LEMMA StampedSees ==
    ASSUME NEW ops, IsGrown(ops), NEW d, NEW s, Causal(ops, d, s),
           NEW n \in Nat, n < Len(s), IsInsert(s[n + 1]),
           NEW t, Grown(ops, d, s, n, t)
    PROVE  ScanSees(ops, t, s[n + 1])
<1> DEFINE op == s[n + 1]
<1>0. Len(s) \in Nat /\ n + 1 \in 1..Len(s)
  BY DEF Causal, Fresh
<1>1. IsLog(ops) /\ op \in ops
  BY <1>0 DEF IsGrown, Causal
<1>2. /\ BirthStamp(ops, op.id) = Stamp(op) /\ op.ts \in Nat \ {0}
      /\ Stamp(op).ts = op.ts
  BY <1>1, BirthIs DEF IsLog, Op, Stamp
<1> SUFFICES ASSUME NEW x \in EntriesOf(t)
             PROVE  StampWins(x.stamp, Stamp(op)) <=> Beats(ops, x.id, op.id)
  BY DEF ScanSees
<1>3. CASE x.stamp = BirthStamp(ops, x.id)
  BY <1>2, <1>3 DEF Beats
<1>4. CASE \E k \in 1..n : IsDelete(s[k]) /\ s[k].ref = x.id /\ x.stamp = Stamp(s[k])
  <2>1. PICK k \in 1..n : IsDelete(s[k]) /\ s[k].ref = x.id /\ x.stamp = Stamp(s[k])
    BY <1>4
  <2>2. k \in 1..Len(s) /\ k < n + 1
    BY <1>0
  <2>3. s[k] \in ops /\ s[k].ts < op.ts
    BY <1>0, <2>1, <2>2 DEF Causal
  <2>4. x.stamp.ts = s[k].ts /\ s[k].ts \in Nat
    BY <1>1, <2>1, <2>3 DEF Stamp, IsLog, Op
  <2>5. ~StampWins(x.stamp, Stamp(op))
    BY <1>2, <2>3, <2>4 DEF StampWins
  <2>6. x.id \in TreeOf(ops)
    BY DEF Grown, Placed, InSync, InTree, EntriesOf
  <2>7. BirthStamp(ops, x.id).ts \in Nat /\ BirthStamp(ops, x.id).ts < op.ts
    <3>1. CASE \E p \in ops : IsInsert(p) /\ x.id = p.id
      <4>1. PICK p \in ops : IsInsert(p) /\ x.id = p.id
        BY <3>1
      <4>2. p.ts < s[k].ts
        BY <2>1, <2>3, <4>1 DEF IsGrown, IsTimely
      <4>3. BirthStamp(ops, x.id) = Stamp(p) /\ p.ts \in Nat
        BY <1>1, <4>1, BirthIs DEF IsLog, Op
      <4> QED BY <1>2, <2>3, <2>4, <4>2, <4>3 DEF Stamp
    <3>2. CASE x.id = HeadID \/ \E m \in 1..BaseLen : x.id = BaseChar(m)
      <4>1. BirthStamp(ops, x.id) = NoStamp
        BY <1>1, <3>2, BirthIs
      <4> QED BY <1>2, <4>1 DEF NoStamp
    <3> QED BY <1>1, <2>6, <3>1, <3>2, TreeHas
  <2>8. ~Beats(ops, x.id, op.id)
    BY <1>2, <2>7 DEF Beats, StampWins
  <2> QED BY <2>5, <2>8
<1> QED BY <1>3, <1>4 DEF Grown, Stamped

LEMMA GrownNext ==
    ASSUME NEW ops, IsGrown(ops), NEW d, NEW s, Causal(ops, d, s),
           NEW n \in Nat, n < Len(s), NEW t, Grown(ops, d, s, n, t)
    PROVE  Grown(ops, d, s, n + 1, ApplyOperation(t, s[n + 1]))
<1> DEFINE op == s[n + 1]
           e  == [t EXCEPT !.applied = @ \cup {op.id}]
           u  == ApplyOperation(t, op)
<1>0. Len(s) \in Nat /\ n + 1 \in 1..Len(s) /\ Fresh(d, s)
  BY DEF Causal, Fresh
<1>1. /\ Placed(d, s, n, t) /\ InSync(t) /\ InTree(ops, t) /\ Stamped(ops, s, n, t)
      /\ IsLog(ops)
  BY DEF Grown, Placed, IsGrown
<1>2. op \in ops /\ op \in Op /\ op.id \notin t.applied
  <2>1. op \in ops /\ op.id \notin d.applied /\ op \in Op
    BY <1>0, <1>1 DEF Causal, Fresh, IsLog
  <2>2. \A k \in 1..n : s[k].id # op.id
    BY <1>0 DEF Fresh
  <2> QED BY <1>1, <2>1, <2>2 DEF Placed
<1>3. Placed(d, s, n + 1, u)
  BY <1>0, <1>1, PlacedNext
<1>4. InTree(ops, u)
  <2>1. CASE IsInsert(op)
    <3>1. op.ref \in TreeOf(ops) => op.ref \in DOMAIN t.index
      <4>1. op.ref \in TreeOf(ops) => There(d, s, (n + 1) - 1, op.ref)
        BY <1>0, <2>1 DEF Causal
      <4> QED BY <1>1, <4>1 DEF Placed
    <3>2. ScanSees(ops, t, op)
      BY <2>1, StampedSees
    <3> HIDE DEF op
    <3> QED BY <1>1, <1>2, <2>1, <3>1, <3>2, InsertInTree
  <2>2. CASE ~IsInsert(op)
    <3>1. InSync(e) /\ e.index = t.index
      BY <1>1, RememberKeepsSync
    <3>2. u = ApplyDelete(e, op)
      BY <1>2, <2>2 DEF ApplyOperation
    <3> HIDE DEF e, u, op
    <3>3. u.index = t.index
      BY <1>2, <3>1, <3>2, DeleteKeepsSync
    <3> QED BY <1>1, <3>3 DEF InTree
  <2> QED BY <2>1, <2>2
<1>5. Stamped(ops, s, n + 1, u)
  <2>1. Changed(t, op, u)
    BY <1>1, <1>2, ApplyChanges
  <2>2. BirthStamp(ops, op.id) = Stamp(op)
    BY <1>1, <1>2, BirthIs
  <2>3. n + 1 \in 1..n + 1 /\ \A k \in 1..n : k \in 1..n + 1
    OBVIOUS
  <2> HIDE DEF u
  <2> SUFFICES ASSUME NEW x \in EntriesOf(u)
               PROVE  \/ x.stamp = BirthStamp(ops, x.id)
                      \/ \E k \in 1..n + 1 : /\ IsDelete(s[k]) /\ s[k].ref = x.id
                                             /\ x.stamp = Stamp(s[k])
    BY DEF Stamped
  <2>4. CASE x \in EntriesOf(t)
    BY <1>1, <2>3, <2>4 DEF Stamped
  <2>5. CASE x.id = op.id /\ x.stamp = Stamp(op)
    BY <2>2, <2>5
  <2>6. CASE IsDelete(op) /\ x.id = op.ref /\ x.stamp = Stamp(op)
    BY <2>3, <2>6
  <2> QED BY <2>1, <2>4, <2>5, <2>6 DEF Changed
<1> QED BY <1>3, <1>4, <1>5 DEF Grown

\* All of them make the whole tree.
LEMMA CausalMakesTree ==
    ASSUME NEW ops, IsGrown(ops), NEW s, Causal(ops, LoadFromString(Base), s),
           \A o \in ops : \E k \in 1..Len(s) : s[k] = o
    PROVE  IsTextOf(ops, ApplyOperations(LoadFromString(Base), s))
<1> DEFINE d == LoadFromString(Base)
           f == Steps(d, s)
           T == {n \in Nat : n <= Len(s) => Grown(ops, d, s, n, f[n])}
<1>0. Len(s) \in Nat /\ IsLog(ops) /\ \A k \in 1..Len(s) : s[k] \in ops
  BY DEF Causal, Fresh, IsGrown
<1>1. f = [n \in 0..Len(s) |-> IF n = 0 THEN d ELSE ApplyOperation(f[n - 1], s[n])]
  BY <1>0, StepsExist
<1> HIDE DEF f
<1>2. f[0] = d /\ \A n \in Nat : n < Len(s) => f[n + 1] = ApplyOperation(f[n], s[n + 1])
  <2>1. \A n \in 0..Len(s) :
           f[n] = IF n = 0 THEN d ELSE ApplyOperation(f[n - 1], s[n])
    BY <1>1, Zenon
  <2> QED BY <1>0, <2>1
<1>3. /\ InSync(d) /\ Unmarked(d) /\ InTree(ops, d)
      /\ DOMAIN d.index = {HeadID} \cup {BaseChar(n) : n \in 1..BaseLen}
  BY <1>0, BaseIsText, LoadInSync, LoadUnmarked, LoadedInTree
<1> HIDE DEF d
<1>4. 0 \in T
  <2>1. Placed(d, s, 0, d)
    BY <1>3 DEF Placed, There
  <2>2. \A x \in EntriesOf(d) : x.stamp = NoStamp /\ x.id \in DOMAIN d.index
    BY <1>3 DEF Unmarked, EntriesOf, InSync
  <2>3. Stamped(ops, s, 0, d)
    BY <1>0, <1>3, <2>2, BirthIs DEF Stamped
  <2> QED BY <1>2, <1>3, <2>1, <2>3 DEF Grown
<1>5. ASSUME NEW n \in T
      PROVE  n + 1 \in T
  <2>1. n \in Nat /\ n + 1 \in Nat
    OBVIOUS
  <2> SUFFICES ASSUME n + 1 <= Len(s)
               PROVE  Grown(ops, d, s, n + 1, f[n + 1])
    BY <2>1
  <2>2. n < Len(s) /\ Grown(ops, d, s, n, f[n]) /\ Causal(ops, d, s)
    BY <1>0, <2>1 DEF d
  <2> QED BY <1>2, <2>1, <2>2, GrownNext
<1>6. T = Nat
  <2> HIDE DEF T
  <2> QED BY <1>4, <1>5, Induct DEF T
<1> DEFINE r == f[Len(s)]
<1>7. Grown(ops, d, s, Len(s), r)
  BY <1>0, <1>6
<1>8. r = ApplyOperations(d, s)
  BY ApplyIsLastStep DEF f
<1> HIDE DEF r
<1>9. \A c : c \in DOMAIN r.index <=> c \in TreeOf(ops)
  <2>1. \A c : c \in DOMAIN r.index <=> There(d, s, Len(s), c)
    BY <1>7 DEF Grown, Placed
  <2>2. \A c : (\E k \in 1..Len(s) : IsInsert(s[k]) /\ s[k].id = c)
                 <=> \E o \in ops : IsInsert(o) /\ o.id = c
    BY <1>0
  <2> QED BY <1>3, <2>1, <2>2 DEF There, TreeOf, CharsOf
<1> QED BY <1>7, <1>8, <1>9 DEF IsTextOf, Grown, Placed, d

\* The replay of what a user knows is the text of its tree, unless a deletion has
\* the timestamp of an insertion: then the replay may apply the deletion first.
LEMMA ReplayMakesTree ==
    ASSUME NEW ops, IsGrown(ops), NoTie(ops)
    PROVE  IsTextOf(ops, Replay(Base, ops))
<1> DEFINE d == LoadFromString(Base)
           s == SortOps(ops)
<1>0. IsLog(ops) /\ IsTimely(ops)
  BY DEF IsGrown
<1>1. /\ Fresh(d, s) /\ Len(s) \in Nat
      /\ \A k \in 1..Len(s) : s[k] \in ops
      /\ \A o \in ops : \E k \in 1..Len(s) : s[k] = o
      /\ \A k \in 1..Len(s) :
            s[k].ref \in Spoken(BaseLen, ops) => There(d, s, k - 1, s[k].ref)
  BY <1>0, BaseIsText, SortedIsFresh, SortedInTime
<1>2. \A j, k \in 1..Len(s) : j < k => Before(s[j], s[k])
  BY <1>0, SortEnumerates
<1>3. TreeOf(ops) = Spoken(BaseLen, ops)
  BY DEF TreeOf, CharsOf, Spoken
<1> HIDE DEF d, s
<1>4. ASSUME NEW j \in 1..Len(s), NEW k \in 1..Len(s), j < k,
             IsDelete(s[j]), IsInsert(s[k])
      PROVE  s[j].ts < s[k].ts
  <2>1. s[j].ts \in Nat /\ s[k].ts \in Nat
    BY <1>0, <1>1 DEF IsLog, Op
  <2>2. s[j].ts # s[k].ts
    BY <1>1, <1>4 DEF NoTie
  <2> QED BY <1>2, <1>4, <2>1, <2>2 DEF Before
<1>5. Causal(ops, d, s)
  BY <1>1, <1>3, <1>4 DEF Causal
<1> QED BY <1>1, <1>5, CausalMakesTree DEF Replay, d, s

\* So is what insertions make that are applied as they arrive, each after the one
\* it refers to.
LEMMA ArrivalMakesTree ==
    ASSUME NEW ops, IsGrown(ops), \A o \in ops : IsInsert(o), NEW s \in CausalOrders(ops)
    PROVE  IsTextOf(ops, ApplyOperations(LoadFromString(Base), s))
<1> DEFINE d == LoadFromString(Base)
           n == Cardinality(ops)
<1>0. IsLog(ops) /\ IsFiniteSet(ops) /\ n \in Nat
  BY FS_CardinalityType DEF IsGrown, IsLog
<1>1. /\ s \in [1..n -> ops]
      /\ \A i, j \in 1..n : i # j => s[i] # s[j]
      /\ \A i, j \in 1..n : s[i].ref = s[j].id => j < i
  BY DEF CausalOrders, SetToSeqs
<1>2. d.applied = {} /\ DOMAIN d.index = {HeadID} \cup {BaseChar(m) : m \in 1..BaseLen}
  BY BaseIsText, LoadInSync
<1> HIDE DEF d
<1>3. s \in Seq(ops) /\ Len(s) = n
  BY <1>0, <1>1
<1>4. \A o \in ops : \E k \in 1..n : s[k] = o
  <2>1. IsFiniteSet(1..n) /\ Cardinality(1..n) = n
    <3>1. /\ IsFiniteSet(1..n)
          /\ Cardinality(1..n) = IF 1 > n THEN 0 ELSE n - 1 + 1
      BY <1>0, FS_Interval
    <3> QED BY <1>0, <3>1
  <2>2. s \in Injection(1..n, ops)
    BY <1>1 DEF Injection, IsInjective
  <2>3. s \in Surjection(1..n, ops)
    BY <1>0, <2>1, <2>2, FS_Injection
  <2> QED BY <2>3 DEF Surjection
<1>5. Fresh(d, s)
  <2>1. s \in Seq(Op)
    BY <1>0, <1>3, SeqMonotonic DEF IsLog
  <2>2. \A j, k \in 1..n : s[j].id = s[k].id => j = k
    BY <1>0, <1>1 DEF IsLog
  <2> QED BY <1>2, <1>3, <2>1, <2>2 DEF Fresh
<1>6. ASSUME NEW k \in 1..n, s[k].ref \in TreeOf(ops)
      PROVE  There(d, s, k - 1, s[k].ref)
  <2>1. CASE \E o \in ops : s[k].ref = o.id
    <3>1. PICK j \in 1..n : s[k].ref = s[j].id
      BY <1>4, <2>1
    <3>2. j \in 1..k - 1 /\ IsInsert(s[j])
      BY <1>0, <1>1, <3>1
    <3> QED BY <3>1, <3>2 DEF There
  <2>2. CASE s[k].ref \in DOMAIN d.index
    BY <2>2 DEF There
  <2> QED BY <1>0, <1>2, <1>6, <2>1, <2>2, TreeHas
<1>7. \A k \in 1..n : s[k] \in ops /\ ~IsDelete(s[k])
  BY <1>1 DEF IsInsert, IsDelete
<1>8. Causal(ops, d, s)
  BY <1>3, <1>5, <1>6, <1>7 DEF Causal
<1> QED BY <1>3, <1>4, <1>8, CausalMakesTree DEF d

(***************************************************************************)
(* Two users, or one user at two times                                     *)
(***************************************************************************)
\* Everything that is referred to is known.
Closed(ops) == \A o \in ops : IsInsert(o) => o.ref \in TreeOf(ops)

\* What has the same id is the same operation.
Agree(ops, pps) == \A o \in ops, p \in pps : o.id = p.id => o = p

LEMMA CommonCharacters ==
    ASSUME NEW ops, IsLog(ops), Closed(ops), NEW pps, IsLog(pps), Closed(pps),
           Agree(ops, pps), NEW c \in TreeOf(ops), c \in TreeOf(pps)
    PROVE  /\ BirthStamp(ops, c) = BirthStamp(pps, c)
           /\ c # HeadID => /\ Parent(ops, c) = Parent(pps, c)
                            /\ Parent(ops, c) \in TreeOf(ops)
                            /\ Parent(ops, c) \in TreeOf(pps)
<1>1. CASE \E o \in ops : IsInsert(o) /\ c = o.id
  <2>1. PICK o \in ops : IsInsert(o) /\ c = o.id
    BY <1>1
  <2>2. o \in pps
    <3>1. o \in Op
      BY DEF IsLog
    <3>2. c # HeadID /\ \A n : c # BaseChar(n)
      BY <2>1, <3>1 DEF Op, HeadID, BaseChar
    <3>3. PICK p \in pps : c = p.id
      BY <3>2, TreeHas
    <3> QED BY <2>1, <3>3 DEF Agree
  <2>3. o.ref \in TreeOf(ops) /\ o.ref \in TreeOf(pps)
    BY <2>1, <2>2 DEF Closed
  <2> QED BY <2>1, <2>2, <2>3, BirthIs, ParentIs
<1>2. CASE \E n \in 1..BaseLen : c = BaseChar(n)
  BY <1>2, BirthIs, ParentIs
<1>3. CASE c = HeadID
  BY <1>3, BirthIs
<1> QED BY <1>1, <1>2, <1>3, TreeHas

LEMMA SameBranches ==
    ASSUME NEW ops, IsLog(ops), Closed(ops), NEW pps, IsLog(pps), Closed(pps),
           Agree(ops, pps), NEW d, IsTextOf(ops, d)
    PROVE  \A c \in TreeOf(ops) : c \in TreeOf(pps) => Branches(ops)[c] = Branches(pps)[c]
<1> DEFINE Both == {c \in TreeOf(ops) : c \in TreeOf(pps)}
           T == {d.index[c] : c \in {e \in Both : Branches(ops)[e] # Branches(pps)[e]}}
<1> SUFFICES ASSUME T # {}
             PROVE  FALSE
  OBVIOUS
<1>0. InSync(d) /\ InTree(ops, d) /\ DOMAIN d.index = TreeOf(ops)
  BY DEF IsTextOf
<1>1. T \in SUBSET Nat
  BY <1>0, PlacesDiffer
<1>2. PICK m \in T : \A n \in T : m <= n
  <2> HIDE DEF T
  <2> QED BY <1>1, LeastNatural
<1>3. PICK c \in Both : Branches(ops)[c] # Branches(pps)[c] /\ d.index[c] = m
  BY <1>2
<1>4. /\ Branches(ops)[c] = IF c = HeadID THEN {c}
                            ELSE {c} \cup Branches(ops)[Parent(ops, c)]
      /\ Branches(pps)[c] = IF c = HeadID THEN {c}
                            ELSE {c} \cup Branches(pps)[Parent(pps, c)]
  BY BranchesExist
<1>5. c # HeadID
  BY <1>3, <1>4
<1> DEFINE p == Parent(ops, c)
<1>6. p = Parent(pps, c) /\ p \in Both /\ d.index[p] < d.index[c]
  BY <1>0, <1>5, CommonCharacters DEF InTree
<1>7. d.index[p] \in Nat /\ d.index[c] \in Nat
  BY <1>0, <1>6, PlacesDiffer
<1>8. d.index[p] \notin T
  <2> HIDE DEF T
  <2> QED BY <1>2, <1>3, <1>6, <1>7
<1>9. Branches(ops)[p] = Branches(pps)[p]
  BY <1>6, <1>8
<1> QED BY <1>3, <1>4, <1>5, <1>6, <1>9

\* Whoever knows both characters and what they hang on has them in the same order.
LEMMA SameOrder ==
    ASSUME NEW ops, IsGrown(ops), Closed(ops), NEW pps, IsGrown(pps), Closed(pps),
           Agree(ops, pps), NEW d, IsTextOf(ops, d), NEW e, IsTextOf(pps, e),
           NEW a \in TreeOf(ops), a \in TreeOf(pps),
           NEW b \in TreeOf(ops), b \in TreeOf(pps),
           d.index[a] < d.index[b]
    PROVE  e.index[a] < e.index[b]
<1>0. /\ IsLog(ops) /\ InSync(d) /\ InTree(ops, d) /\ DOMAIN d.index = TreeOf(ops)
      /\ IsLog(pps) /\ InSync(e) /\ InTree(pps, e) /\ DOMAIN e.index = TreeOf(pps)
  BY DEF IsGrown, IsTextOf
<1>1. /\ Branches(ops)[a] = Branches(pps)[a] /\ Branches(ops)[b] = Branches(pps)[b]
  BY <1>0, SameBranches
<1>2. \A s : s \in Branches(ops)[a] \/ s \in Branches(ops)[b]
               => s \in TreeOf(ops) /\ s \in TreeOf(pps)
  BY <1>0, <1>1, BranchesLead DEF Leads
<1>3. TreePrecedes(ops, Branches(ops), a, b)
  BY <1>0, OrderIsOfTree
<1>4. TreePrecedes(pps, Branches(pps), a, b)
  <2>1. CASE a # b /\ a \in Branches(ops)[b]
    BY <1>1, <2>1 DEF TreePrecedes
  <2>2. CASE \E x \in Branches(ops)[a] \ {HeadID}, y \in Branches(ops)[b] \ {HeadID} :
                /\ x # y /\ Parent(ops, x) = Parent(ops, y) /\ Beats(ops, x, y)
    <3>1. PICK x \in Branches(ops)[a] \ {HeadID}, y \in Branches(ops)[b] \ {HeadID} :
                /\ x # y /\ Parent(ops, x) = Parent(ops, y) /\ Beats(ops, x, y)
      BY <2>2
    <3>2. /\ Parent(ops, x) = Parent(pps, x) /\ Parent(ops, y) = Parent(pps, y)
          /\ BirthStamp(ops, x) = BirthStamp(pps, x) /\ BirthStamp(ops, y) = BirthStamp(pps, y)
      BY <1>0, <1>2, <3>1, CommonCharacters
    <3>3. Parent(pps, x) = Parent(pps, y) /\ Beats(pps, x, y)
      BY <3>1, <3>2 DEF Beats
    <3> QED BY <1>1, <3>1, <3>3 DEF TreePrecedes, Beats
  <2> QED BY <1>3, <2>1, <2>2 DEF TreePrecedes, Beats
<1> QED BY <1>0, <1>4, OrderIsOfTree

(***************************************************************************)
(* What users see                                                          *)
(***************************************************************************)
LEMMA KnownIsGrown ==
    ASSUME Inv, NEW u \in User
    PROVE  IsGrown(known[u])
<1>1. IsLog(known[u]) /\ IsTimely(known[u]) /\ known[u] \subseteq issued
  BY KnownIsLog
<1> QED BY <1>1 DEF IsGrown, StampsDiffer, Inv, OwnTimesDiffer

\* Every user's text is in the order of the tree of what the user knows: parents
\* first, of two branches the one that begins with the winning stamp, as long as
\* no deletion shares its timestamp with an insertion (crdt.cpp 161-203: the scan
\* compares with stamps that deletions have changed).
THEOREM OrderCorrect == FreeSpec => []OrderIsTreeOrder
<1>1. Inv => OrderIsTreeOrder
  BY KnownIsGrown, ReplayMakesTree, TextIsInTreeOrder DEF OrderIsTreeOrder, View
<1> QED BY <1>1, InvHolds, PTL

\* Insertions give the order of that tree too when they are applied as they
\* arrive, each after the one it refers to (crdt.cpp 161-175).
THEOREM InsertionsCommute == FreeSpec => []InsertsCommute
<1>1. Inv => InsertsCommute
  <2> SUFFICES ASSUME Inv, NEW u \in User, \A o \in known[u] : IsInsert(o),
                      NEW s \in CausalOrders(known[u])
               PROVE  InTreeOrder(known[u],
                                  IDs(ApplyOperations(LoadFromString(Base), s)))
    BY DEF InsertsCommute
  <2> QED BY KnownIsGrown, ArrivalMakesTree, TextIsInTreeOrder
<1> QED BY <1>1, InvHolds, PTL

\* What u knows names nothing u does not know, and has no tie.
Settled(u) == Closed(known[u]) /\ NoTie(known[u])

PlaceOf(u, id) == FindByID(View(u), id)

\* Two users whose knowledge is complete in that sense have the characters both
\* know in the same order, however much one of them knows that the other does not.
UsersAgreeOnOrder ==
    \A u, v \in User :
        Settled(u) /\ Settled(v) =>
            \A a, b \in TreeOf(known[u]) \cap TreeOf(known[v]) :
                PlaceOf(u, a) < PlaceOf(u, b) <=> PlaceOf(v, a) < PlaceOf(v, b)

\* No step changes the order in which a user has two characters, if what the user
\* knows is complete before it and after it.
OrderStays ==
    \A u \in User :
        Settled(u) /\ Settled(u)' =>
            \A a, b \in TreeOf(known[u]) :
                PlaceOf(u, a) < PlaceOf(u, b) => PlaceOf(u, a)' < PlaceOf(u, b)'

ShowsTree(u) ==
    /\ IsGrown(known[u]) /\ Closed(known[u])
    /\ IsTextOf(known[u], View(u))
    /\ DOMAIN View(u).index = TreeOf(known[u])

LEMMA SettledShowsTree == Inv => \A u \in User : Settled(u) => ShowsTree(u)
BY KnownIsGrown, ReplayMakesTree DEF Settled, ShowsTree, View, IsTextOf

LEMMA OthersAgree ==
    ASSUME Inv, NEW u \in User, NEW v \in User
    PROVE  Agree(known[u], known[v])
BY KnownIsLog DEF Agree, Inv, IDsAreUnique

\* Users who know different operations show what they have in common in the same
\* order (crdt.cpp 165-166: "converge identically everywhere").
THEOREM OrderIsShared == FreeSpec => []UsersAgreeOnOrder
<1>1. ASSUME Inv, NEW u \in User, NEW v \in User, Settled(u), Settled(v),
             NEW a \in TreeOf(known[u]), a \in TreeOf(known[v]),
             NEW b \in TreeOf(known[u]), b \in TreeOf(known[v]),
             PlaceOf(u, a) < PlaceOf(u, b)
      PROVE  PlaceOf(v, a) < PlaceOf(v, b)
  <2>1. /\ PlaceOf(u, a) = View(u).index[a] /\ PlaceOf(u, b) = View(u).index[b]
        /\ PlaceOf(v, a) = View(v).index[a] /\ PlaceOf(v, b) = View(v).index[b]
    BY <1>1, SettledShowsTree DEF ShowsTree, PlaceOf, FindByID
  <2>2. /\ ShowsTree(u) /\ ShowsTree(v) /\ Agree(known[u], known[v])
    BY <1>1, SettledShowsTree, OthersAgree
  <2> QED BY <1>1, <2>1, <2>2, SameOrder DEF ShowsTree
<1>2. Inv => UsersAgreeOnOrder
  BY <1>1 DEF UsersAgreeOnOrder
<1> QED BY <1>2, InvHolds, PTL

\* No operation moves the characters that are there past each other, whoever
\* issued it and whenever it comes (editor.cpp 274-286: every batch is a new replay
\* of the whole log).
THEOREM OrderIsKept == FreeSpec => [][OrderStays]_vars
<1> DEFINE TreesShown == \A u \in User : Settled(u) => ShowsTree(u)
<1>1. ASSUME Inv, TreesShown, TreesShown', [FreeNext]_vars
      PROVE  OrderStays
  <2> SUFFICES ASSUME NEW u \in User, Settled(u), Settled(u)',
                      NEW a \in TreeOf(known[u]), NEW b \in TreeOf(known[u]),
                      PlaceOf(u, a) < PlaceOf(u, b)
               PROVE  PlaceOf(u, a)' < PlaceOf(u, b)'
    BY DEF OrderStays
  <2> DEFINE ops == known[u]
             pps == known'[u]
             d   == View(u)
             e   == Replay(Base, pps)
  <2>1. ops \subseteq pps
    BY <1>1 DEF FreeNext, IssueFreely, Record, Learn, vars, Inv, Types
  <2>2. /\ IsGrown(ops) /\ Closed(ops) /\ IsTextOf(ops, d)
        /\ DOMAIN d.index = TreeOf(ops)
    BY <1>1 DEF ShowsTree
  <2>3. ShowsTree(u)'
    BY <1>1
  <2>4. /\ IsGrown(pps) /\ Closed(pps) /\ IsTextOf(pps, e)
        /\ DOMAIN e.index = TreeOf(pps)
    BY <2>3 DEF ShowsTree, View
  <2>5. Agree(ops, pps)
    BY <2>1, <2>4 DEF Agree, IsGrown, IsLog
  <2>6. /\ a \in TreeOf(ops) /\ a \in TreeOf(pps)
        /\ b \in TreeOf(ops) /\ b \in TreeOf(pps)
    BY <2>1 DEF TreeOf, CharsOf
  <2>7. /\ PlaceOf(u, a) = d.index[a] /\ PlaceOf(u, b) = d.index[b]
        /\ PlaceOf(u, a)' = e.index[a] /\ PlaceOf(u, b)' = e.index[b]
    BY <2>2, <2>4, <2>6 DEF PlaceOf, FindByID, View
  <2>8. d.index[a] < d.index[b]
    BY <2>7
  <2> HIDE DEF ops, pps, d, e
  <2>9. e.index[a] < e.index[b]
    BY <2>2, <2>4, <2>5, <2>6, <2>8, SameOrder
  <2> QED BY <2>7, <2>9
<1>2. Inv => TreesShown
  BY SettledShowsTree
<1> HIDE DEF TreesShown
<1> QED BY <1>1, <1>2, InvHolds, PTL DEF FreeSpec
=============================================================================
