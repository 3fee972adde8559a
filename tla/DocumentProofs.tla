--------------------------- MODULE DocumentProofs ---------------------------
(***************************************************************************)
(* Lemmas about the operators of CrdtDocument, for texts and logs of any   *)
(* size: what the scan, the insertion and the index do, what a sequence of *)
(* operations keeps, and that sorting a log gives every operation of it    *)
(* once, in order.                                                         *)
(*                                                                         *)
(* Induction is by way of the least element of a set of numbers, which     *)
(* follows from the well-foundedness of < and needs no operator as a       *)
(* parameter.                                                              *)
(***************************************************************************)
EXTENDS CrdtDocument, FiniteSetTheorems, SequenceTheorems, TLAPS

(***************************************************************************)
(* Numbers                                                                 *)
(***************************************************************************)
Less == {ss \in Nat \X Nat : ss[1] < ss[2]}

LEMMA LessIsWellFounded == IsWellFoundedOn(Less, Nat)
BY NatLessThanWellFounded, Zenon DEF OpToRel, Less

\* Every non-empty set of numbers has a least one.
LEMMA LeastNatural ==
    ASSUME NEW T \in SUBSET Nat, T # {}
    PROVE  \E m \in T : \A n \in T : m <= n
<1>1. PICK m \in T : \A n \in T : ~(<<n, m>> \in Less)
  BY LessIsWellFounded, WFMin
<1>2. ASSUME NEW n \in T
      PROVE  m <= n
  <2>1. <<n, m>> \in Nat \X Nat /\ m \in Nat /\ n \in Nat
    OBVIOUS
  <2>2. n < m => <<n, m>> \in Less
    BY <2>1 DEF Less
  <2> QED BY <1>1, <2>1, <2>2
<1> QED BY <1>2

\* Induction: what holds of 0 and of the successor of each is all numbers.
LEMMA Induct ==
    ASSUME NEW T \in SUBSET Nat, 0 \in T, \A n \in T : n + 1 \in T
    PROVE  T = Nat
<1> SUFFICES ASSUME T # Nat PROVE FALSE
  OBVIOUS
<1>1. PICK m \in Nat \ T : \A n \in Nat \ T : m <= n
  BY LeastNatural
<1>2. m # 0 /\ m - 1 \in Nat
  BY <1>1
<1>3. m - 1 \in T
  BY <1>1, <1>2
<1> QED BY <1>1, <1>3

\* What Min and Max are on the sets they are used on here.
LEMMA MinOfNaturals ==
    ASSUME NEW T \in SUBSET Nat, T # {}
    PROVE  Min(T) \in T /\ \A n \in T : Min(T) <= n
BY LeastNatural DEF Min

LEMMA MaxOfSingleton ==
    ASSUME NEW n \in Nat
    PROVE  Max({n}) = n
BY DEF Max

\* A finite set of numbers is bounded.
LEMMA FiniteIsBounded ==
    ASSUME NEW S \in SUBSET Nat, IsFiniteSet(S)
    PROVE  \E b \in Nat : \A x \in S : x <= b
<1> DEFINE T == {n \in Nat : \A R \in SUBSET Nat :
                    IsFiniteSet(R) /\ Cardinality(R) = n
                        => \E b \in Nat : \A x \in R : x <= b}
<1>1. 0 \in T
  BY FS_EmptySet
<1>2. ASSUME NEW n \in T
      PROVE  n + 1 \in T
  <2> SUFFICES ASSUME NEW R \in SUBSET Nat, IsFiniteSet(R), Cardinality(R) = n + 1
               PROVE  \E b \in Nat : \A x \in R : x <= b
    OBVIOUS
  <2>1. PICK x \in R : TRUE
    <3>1. Cardinality(R) # 0
      BY Z3
    <3> QED BY <3>1, FS_EmptySet
  <2>2. IsFiniteSet(R \ {x}) /\ Cardinality(R \ {x}) = n
    <3>1. /\ IsFiniteSet(R \ {x})
          /\ Cardinality(R \ {x}) = Cardinality(R) - 1
      BY <2>1, FS_RemoveElement, Zenon
    <3> QED BY <3>1
  <2>3. PICK b \in Nat : \A y \in R \ {x} : y <= b
    BY <2>2
  <2>4. x + b \in Nat /\ \A y \in R : y <= x + b
    BY <2>1, <2>3
  <2> QED BY <2>4
<1>3. T = Nat
  <2> HIDE DEF T
  <2> QED BY <1>1, <1>2, Induct DEF T
<1>4. Cardinality(S) \in Nat
  BY FS_CardinalityType
<1> QED BY <1>3, <1>4

LEMMA MaxOfNaturals ==
    ASSUME NEW S \in SUBSET Nat, IsFiniteSet(S), S # {}
    PROVE  Max(S) \in S /\ \A x \in S : x <= Max(S)
<1> DEFINE Bounds == {b \in Nat : \A x \in S : x <= b}
<1>1. Bounds # {}
  BY FiniteIsBounded
<1>2. PICK m \in Bounds : \A b \in Bounds : m <= b
  BY <1>1, LeastNatural
<1>3. m \in S
  <2> SUFFICES ASSUME m \notin S PROVE FALSE
    OBVIOUS
  <2>1. \A x \in S : x <= m - 1
    BY <1>2
  <2>2. m - 1 \in Nat
    <3>1. PICK x \in S : TRUE
      OBVIOUS
    <3> QED BY <1>2, <2>1, <3>1
  <2> QED BY <1>2, <2>1, <2>2
<1> QED BY <1>2, <1>3 DEF Max

(***************************************************************************)
(* One operation after the other                                           *)
(***************************************************************************)
\* The documents between the operations.
Steps(d, ops) ==
    CHOOSE f : f = [n \in 0..Len(ops) |->
                      IF n = 0 THEN d ELSE ApplyOperation(f[n - 1], ops[n])]

LEMMA ApplyIsLastStep ==
    ASSUME NEW d, NEW ops
    PROVE  ApplyOperations(d, ops) = Steps(d, ops)[Len(ops)]
BY DEF ApplyOperations, Steps

\* There are such documents, whatever the operations.
LEMMA StepsExist ==
    ASSUME NEW d, NEW ops, Len(ops) \in Nat
    PROVE  Steps(d, ops) = [n \in 0..Len(ops) |->
               IF n = 0 THEN d ELSE ApplyOperation(Steps(d, ops)[n - 1], ops[n])]
<1> DEFINE F(f, m) == f = [n \in 0..m |->
                IF n = 0 THEN d ELSE ApplyOperation(f[n - 1], ops[n])]
           T == {m \in Nat : \E f : F(f, m)}
<1>1. 0 \in T
  <2>1. F([n \in 0..0 |-> d], 0)
    OBVIOUS
  <2> QED BY <2>1
<1>2. ASSUME NEW m \in T
      PROVE  m + 1 \in T
  <2>1. PICK f : F(f, m)
    OBVIOUS
  <2> DEFINE g == [n \in 0..m + 1 |->
                IF n = m + 1 THEN ApplyOperation(f[m], ops[m + 1]) ELSE f[n]]
  <2>2. \A n \in 0..m : f[n] = IF n = 0 THEN d ELSE ApplyOperation(f[n - 1], ops[n])
    BY <2>1
  <2>3. \A n \in 0..m + 1 : g[n] = IF n = 0 THEN d ELSE ApplyOperation(g[n - 1], ops[n])
    <3> SUFFICES ASSUME NEW n \in 0..m + 1
                 PROVE  g[n] = IF n = 0 THEN d ELSE ApplyOperation(g[n - 1], ops[n])
      OBVIOUS
    <3>1. CASE n = m + 1
      <4>1. n # 0 /\ n - 1 = m /\ m # m + 1 /\ m \in 0..m + 1
        BY <3>1
      <4>2. g[n - 1] = f[m] /\ g[n] = ApplyOperation(f[m], ops[m + 1])
        BY <3>1, <4>1
      <4> QED BY <3>1, <4>1, <4>2
    <3>2. CASE n # m + 1
      <4>1. n \in 0..m /\ (n # 0 => n - 1 \in 0..m /\ n - 1 # m + 1)
        BY <3>2
      <4>2. g[n] = f[n] /\ (n # 0 => g[n - 1] = f[n - 1])
        BY <3>2, <4>1
      <4> QED BY <2>2, <4>1, <4>2
    <3> QED BY <3>1, <3>2
  <2>4. g = [n \in 0..m + 1 |->
                IF n = 0 THEN d ELSE ApplyOperation(g[n - 1], ops[n])]
    <3>1. g = [n \in 0..m + 1 |-> g[n]]
      OBVIOUS
    <3> HIDE DEF g
    <3> QED BY <2>3, <3>1
  <2>5. \E h : F(h, m + 1)
    <3> HIDE DEF g
    <3> QED BY <2>4
  <2> HIDE DEF F
  <2> QED BY <2>5
<1>3. T = Nat
  <2> HIDE DEF T
  <2> QED BY <1>1, <1>2, Induct DEF T
<1>4. \E f : F(f, Len(ops))
  BY <1>3
<1> QED BY <1>4 DEF Steps

(***************************************************************************)
(* Documents                                                               *)
(***************************************************************************)
ID == Int \X Int

\* What characters look like in the modules that use CrdtDocument.
Glyph == ID \cup {NoChar}

Entry == [id : ID, ch : Glyph, stamp : [ts : Nat, user : Nat], deleted : BOOLEAN]

\* Operations, numbered from a user who is a positive integer.
Op == [type : {"insert", "delete"}, id : (Nat \ {0}) \X Nat, ts : Nat \ {0},
       ref : ID, ch : Glyph]

IsDocument(d) ==
    /\ DOMAIN d = {"chars", "index", "applied"}
    /\ d.chars \in Seq(Entry)

\* The index agrees with the text, the head is first, and an id that is not of
\* the file is in the text only if it was applied.
InSync(d) ==
    /\ IsDocument(d)
    /\ Len(d.chars) > 0 /\ d.chars[1].id = HeadID /\ d.chars[1].deleted
    /\ \A id : id \in DOMAIN d.index <=> \E i \in 1..Len(d.chars) : d.chars[i].id = id
    /\ \A i \in 1..Len(d.chars) : d.index[d.chars[i].id] = i
    /\ \A i \in 1..Len(d.chars) :
           d.chars[i].id[1] > 0 => d.chars[i].id \in d.applied

\* The scan ends behind the anchor, at the latest at the end.
LEMMA ScanEndInRange ==
    ASSUME NEW chars \in Seq(Entry), NEW anchor \in 1..Len(chars), NEW incoming
    PROVE  ScanEnd(chars, anchor, incoming) \in anchor + 1..Len(chars) + 1
<1> DEFINE T == {i \in anchor + 1 .. Len(chars) + 1 :
                    \/ i = Len(chars) + 1
                    \/ ~StampWins(chars[i].stamp, incoming)}
<1>1. T \in SUBSET Nat /\ Len(chars) + 1 \in T
  OBVIOUS
<1>2. Min(T) \in T
  BY <1>1, MinOfNaturals
<1> QED BY <1>2 DEF ScanEnd

\* Where the elements of a sequence are after one more is put in.
Moved(S, s, pos, e) ==
    /\ InsertAt(s, pos, e) \in Seq(S)
    /\ Len(InsertAt(s, pos, e)) = Len(s) + 1
    /\ \A k \in 1..Len(s) + 1 :
          InsertAt(s, pos, e)[k] = IF k < pos THEN s[k]
                                   ELSE IF k = pos THEN e ELSE s[k - 1]

LEMMA InsertAtMoves ==
    ASSUME NEW S, NEW s \in Seq(S), NEW pos \in 1..Len(s) + 1, NEW e \in S
    PROVE  Moved(S, s, pos, e)
<1> DEFINE left == SubSeq(s, 1, pos - 1)
           right == SubSeq(s, pos, Len(s))
           put == left \o <<e>>
<1>0. Len(s) \in Nat /\ \A k \in 1..Len(s) : s[k] \in S
  OBVIOUS
<1>1. /\ left \in Seq(S) /\ Len(left) = pos - 1
      /\ \A k \in 1..pos - 1 : left[k] = s[k]
  BY <1>0
<1>2. /\ right \in Seq(S) /\ Len(right) = Len(s) - pos + 1
      /\ \A k \in 1..Len(s) - pos + 1 : right[k] = s[k + pos - 1]
  BY <1>0
<1>3. InsertAt(s, pos, e) = put \o right
  BY DEF InsertAt
<1> HIDE DEF left, right
<1>4. /\ put \in Seq(S) /\ Len(put) = pos
      /\ \A k \in 1..pos - 1 : put[k] = s[k]
      /\ put[pos] = e
  BY <1>0, <1>1
<1> HIDE DEF put
<1>5. /\ put \o right \in Seq(S) /\ Len(put \o right) = Len(s) + 1
      /\ \A k \in 1..Len(s) + 1 :
            (put \o right)[k] = IF k <= pos THEN put[k] ELSE right[k - pos]
  <2>1. Len(put) + Len(right) = Len(s) + 1
    BY <1>0, <1>2, <1>4
  <2>2. put \in Seq(S) /\ right \in Seq(S)
    BY <1>2, <1>4
  <2>3. /\ put \o right \in Seq(S)
        /\ Len(put \o right) = Len(put) + Len(right)
        /\ \A k \in 1..Len(put) + Len(right) :
              (put \o right)[k] = IF k <= Len(put) THEN put[k] ELSE right[k - Len(put)]
    BY <2>2, ConcatProperties, Zenon
  <2>4. Len(put) = pos
    BY <1>4
  <2> QED BY <2>1, <2>3, <2>4, Zenon
<1>6. \A k \in pos + 1..Len(s) + 1 : right[k - pos] = s[k - 1]
  BY <1>0, <1>2
<1> QED BY <1>0, <1>3, <1>4, <1>5, <1>6 DEF Moved

\* The document after an entry was put in at a position.
PutIn(d, pos, e) ==
    [d EXCEPT !.chars = InsertAt(@, pos, e),
              !.index = Reindex(@, e.id, InsertAt(d.chars, pos, e), pos)]

\* An entry with a new id keeps text and index in agreement, and moves those
\* from its position on one to the right.
LEMMA PutInSync ==
    ASSUME NEW d, InSync(d), NEW pos \in 2..Len(d.chars) + 1, NEW e \in Entry,
           e.id \notin DOMAIN d.index, e.id[1] > 0 => e.id \in d.applied
    PROVE  /\ InSync(PutIn(d, pos, e))
           /\ PutIn(d, pos, e).applied = d.applied
           /\ PutIn(d, pos, e).index[e.id] = pos
           /\ \A id : id \in DOMAIN PutIn(d, pos, e).index
                        <=> id \in DOMAIN d.index \/ id = e.id
           /\ \A id \in DOMAIN d.index :
                 PutIn(d, pos, e).index[id] =
                    IF d.index[id] < pos THEN d.index[id] ELSE d.index[id] + 1
<1> DEFINE chars == InsertAt(d.chars, pos, e)
           index == Reindex(d.index, e.id, chars, pos)
           f     == PutIn(d, pos, e)
<1>0. /\ d.chars \in Seq(Entry) /\ Len(d.chars) \in Nat
      /\ \A k \in 1..Len(d.chars) : /\ d.chars[k].id \in DOMAIN d.index
                                     /\ d.index[d.chars[k].id] = k
  BY DEF InSync, IsDocument
<1>1. /\ chars \in Seq(Entry) /\ Len(chars) = Len(d.chars) + 1
      /\ \A k \in 1..Len(d.chars) + 1 :
            chars[k] = IF k < pos THEN d.chars[k]
                       ELSE IF k = pos THEN e ELSE d.chars[k - 1]
  <2> DEFINE old == d.chars
  <2>1. old \in Seq(Entry) /\ pos \in 1..Len(old) + 1
    BY <1>0
  <2> HIDE DEF old
  <2>2. Moved(Entry, old, pos, e)
    BY <2>1, InsertAtMoves
  <2> QED BY <2>2 DEF old, Moved
<1>2. /\ DOMAIN f = {"chars", "index", "applied"}
      /\ f.chars = chars /\ f.index = index /\ f.applied = d.applied
  BY DEF InSync, IsDocument, PutIn
<1> HIDE DEF chars
<1>3. DOMAIN index = DOMAIN d.index \cup {e.id}
  BY DEF Reindex
<1>4. \A k, l \in 1..Len(chars) : chars[k].id = chars[l].id => k = l
  <2>1. \A k \in 1..Len(chars) :
            IF k = pos THEN chars[k].id \notin DOMAIN d.index
            ELSE /\ chars[k].id \in DOMAIN d.index
                 /\ d.index[chars[k].id] = IF k < pos THEN k ELSE k - 1
    <3> SUFFICES ASSUME NEW k \in 1..Len(chars)
                 PROVE  IF k = pos THEN chars[k].id \notin DOMAIN d.index
                        ELSE /\ chars[k].id \in DOMAIN d.index
                             /\ d.index[chars[k].id] = IF k < pos THEN k ELSE k - 1
      OBVIOUS
    <3>1. CASE k = pos
      BY <3>1, <1>0, <1>1
    <3>2. CASE k < pos
      <4>1. k \in 1..Len(d.chars) /\ chars[k] = d.chars[k]
        BY <3>2, <1>0, <1>1
      <4> QED BY <3>2, <4>1, <1>0
    <3>3. CASE k > pos
      <4>1. k - 1 \in 1..Len(d.chars) /\ chars[k] = d.chars[k - 1]
        BY <3>3, <1>0, <1>1
      <4> QED BY <3>3, <4>1, <1>0
    <3> QED BY <3>1, <3>2, <3>3, <1>0, <1>1
  <2> SUFFICES ASSUME NEW k \in 1..Len(chars), NEW l \in 1..Len(chars),
                      chars[k].id = chars[l].id
               PROVE  k = l
    OBVIOUS
  <2>2. k = pos <=> l = pos
    BY <2>1
  <2>3. CASE k # pos
    <3>1. (IF k < pos THEN k ELSE k - 1) = (IF l < pos THEN l ELSE l - 1)
      BY <2>1, <2>2, <2>3
    <3> QED BY <1>0, <1>1, <2>2, <2>3, <3>1
  <2> QED BY <2>2, <2>3
<1>5. \A k \in 1..Len(chars) : chars[k].id \in DOMAIN index
  <2> SUFFICES ASSUME NEW k \in 1..Len(chars)
               PROVE  chars[k].id \in DOMAIN d.index \cup {e.id}
    BY <1>3
  <2>1. CASE k < pos
    <3>1. k \in 1..Len(d.chars) /\ chars[k] = d.chars[k]
      BY <2>1, <1>0, <1>1
    <3> QED BY <3>1, <1>0
  <2>2. CASE k = pos
    BY <2>2, <1>0, <1>1
  <2>3. CASE k > pos
    <3>1. k - 1 \in 1..Len(d.chars) /\ chars[k] = d.chars[k - 1]
      BY <2>3, <1>0, <1>1
    <3> QED BY <3>1, <1>0
  <2> QED BY <2>1, <2>2, <2>3, <1>0, <1>1
<1>6. \A k \in pos..Len(chars) : index[chars[k].id] = k
  <2> SUFFICES ASSUME NEW k \in pos..Len(chars)
               PROVE  index[chars[k].id] = k
    OBVIOUS
  <2>1. {l \in pos..Len(chars) : chars[l].id = chars[k].id} = {k}
    BY <1>0, <1>1, <1>4
  <2>2. Max({k}) = k
    BY <1>0, <1>1, MaxOfSingleton
  <2>3. chars[k].id \in DOMAIN d.index \cup {e.id}
    BY <1>0, <1>1, <1>3, <1>5
  <2> QED BY <2>1, <2>2, <2>3 DEF Reindex
<1>7. \A k \in 1..pos - 1 : index[chars[k].id] = k
  <2> SUFFICES ASSUME NEW k \in 1..pos - 1
               PROVE  index[chars[k].id] = k
    OBVIOUS
  <2>1. k \in 1..Len(d.chars) /\ k \in 1..Len(chars) /\ chars[k] = d.chars[k]
    BY <1>0, <1>1
  <2>2. ~ \E l \in pos..Len(chars) : chars[l].id = chars[k].id
    BY <1>0, <1>1, <1>4, <2>1
  <2>3. d.index[chars[k].id] = k
    BY <2>1 DEF InSync
  <2>4. chars[k].id \in DOMAIN d.index \cup {e.id}
    BY <2>1, <1>3, <1>5
  <2> QED BY <2>2, <2>3, <2>4 DEF Reindex
<1>8. \A k \in 1..Len(chars) : index[chars[k].id] = k
  BY <1>0, <1>1, <1>6, <1>7
<1> HIDE DEF index
<1>9. \A id : id \in DOMAIN index <=> \E k \in 1..Len(chars) : chars[k].id = id
  <2>1. ASSUME NEW id \in DOMAIN d.index
        PROVE  \E k \in 1..Len(chars) : chars[k].id = id
    <3>1. PICK k \in 1..Len(d.chars) : d.chars[k].id = id
      BY DEF InSync
    <3>2. CASE k < pos
      <4>1. k \in 1..Len(chars) /\ chars[k] = d.chars[k]
        BY <3>1, <3>2, <1>0, <1>1
      <4> QED BY <3>1, <4>1
    <3>3. CASE k >= pos
      <4>1. k + 1 \in 1..Len(chars) /\ chars[k + 1] = d.chars[k]
        BY <3>1, <3>3, <1>0, <1>1
      <4> QED BY <3>1, <4>1
    <3> QED BY <3>2, <3>3, <1>0
  <2>2. pos \in 1..Len(chars) /\ chars[pos].id = e.id
    BY <1>0, <1>1
  <2> QED BY <2>1, <2>2, <1>3, <1>5
<1>10. chars[1].id = HeadID /\ chars[1].deleted
  BY <1>0, <1>1 DEF InSync
<1>11. \A k \in 1..Len(chars) : chars[k].id[1] > 0 => chars[k].id \in d.applied
  <2> SUFFICES ASSUME NEW k \in 1..Len(chars)
               PROVE  chars[k].id[1] > 0 => chars[k].id \in d.applied
    OBVIOUS
  <2>1. CASE k < pos
    <3>1. k \in 1..Len(d.chars) /\ chars[k] = d.chars[k]
      BY <2>1, <1>0, <1>1
    <3> QED BY <3>1 DEF InSync
  <2>2. CASE k = pos
    BY <2>2, <1>0, <1>1
  <2>3. CASE k > pos
    <3>1. k - 1 \in 1..Len(d.chars) /\ chars[k] = d.chars[k - 1]
      BY <2>3, <1>0, <1>1
    <3> QED BY <3>1 DEF InSync
  <2> QED BY <2>1, <2>2, <2>3, <1>0, <1>1
<1>12. InSync(f)
  <2> HIDE DEF f
  <2> QED BY <1>0, <1>1, <1>2, <1>8, <1>9, <1>10, <1>11 DEF InSync, IsDocument
<1>13. index[e.id] = pos
  BY <1>0, <1>1, <1>8
<1>14. ASSUME NEW id \in DOMAIN d.index
       PROVE  index[id] = IF d.index[id] < pos THEN d.index[id] ELSE d.index[id] + 1
  <2>1. PICK k \in 1..Len(d.chars) : d.chars[k].id = id /\ d.index[id] = k
    BY DEF InSync
  <2>2. CASE k < pos
    <3>1. k \in 1..Len(chars) /\ chars[k] = d.chars[k]
      BY <2>1, <2>2, <1>0, <1>1
    <3> QED BY <2>1, <2>2, <3>1, <1>8
  <2>3. CASE k >= pos
    <3>1. k + 1 \in 1..Len(chars) /\ chars[k + 1] = d.chars[k]
      BY <2>3, <1>0, <1>1
    <3> QED BY <2>1, <2>3, <3>1, <1>0, <1>8
  <2> QED BY <2>2, <2>3, <1>0
<1> QED BY <1>2, <1>3, <1>12, <1>13, <1>14

(***************************************************************************)
(* Operations                                                              *)
(***************************************************************************)
\* What an operation does to the places of the entries: an insertion of a new
\* id comes somewhere behind its anchor, if that is there, and no two entries
\* change their order.
Keeps(d, op, n) ==
    /\ InSync(n)
    /\ n.applied = d.applied \cup {op.id}
    /\ \A id : id \in DOMAIN n.index
                 <=> \/ id \in DOMAIN d.index
                     \/ id = op.id /\ IsInsert(op) /\ op.id \notin d.applied
    /\ \A a, b \in DOMAIN d.index :
           d.index[a] < d.index[b] => n.index[a] < n.index[b]
    /\ IsInsert(op) /\ op.id \notin d.applied /\ op.ref \in DOMAIN d.index
           => n.index[op.ref] < n.index[op.id]

\* Places are positions.
LEMMA Places ==
    ASSUME NEW d, InSync(d)
    PROVE  /\ Len(d.chars) \in Nat
           /\ HeadID \in DOMAIN d.index /\ d.index[HeadID] = 1
           /\ \A id \in DOMAIN d.index : /\ d.index[id] \in 1..Len(d.chars)
                                         /\ d.chars[d.index[id]].id = id
BY DEF InSync, IsDocument

\* The id is remembered first.
LEMMA RememberKeepsSync ==
    ASSUME NEW d, InSync(d), NEW id
    PROVE  LET n == [d EXCEPT !.applied = @ \cup {id}]
           IN  /\ InSync(n)
               /\ n.chars = d.chars /\ n.index = d.index
               /\ n.applied = d.applied \cup {id}
<1> DEFINE n == [d EXCEPT !.applied = @ \cup {id}]
<1>1. /\ DOMAIN n = {"chars", "index", "applied"}
      /\ n.chars = d.chars /\ n.index = d.index /\ n.applied = d.applied \cup {id}
  BY DEF InSync, IsDocument
<1> HIDE DEF n
<1>2. InSync(n)
  BY <1>1 DEF InSync, IsDocument
<1> QED BY <1>1, <1>2 DEF n

\* A deletion leaves every entry where it is.
LEMMA DeleteKeepsSync ==
    ASSUME NEW d, InSync(d), NEW op \in Op
    PROVE  LET n == ApplyDelete(d, op)
           IN  InSync(n) /\ n.index = d.index /\ n.applied = d.applied
<1> DEFINE i == FindByID(d, op.ref)
           n == [d EXCEPT !.chars[i].deleted = TRUE, !.chars[i].stamp = Stamp(op)]
           e == [d.chars[i] EXCEPT !.deleted = TRUE, !.stamp = Stamp(op)]
<1>1. CASE i # 0
  <2>1. i \in 1..Len(d.chars) /\ Len(d.chars) \in Nat
    BY <1>1, Places DEF FindByID
  <2>2. d.chars[i] \in Entry /\ d.chars \in Seq(Entry)
    BY <2>1 DEF InSync, IsDocument
  <2>3. Stamp(op) \in [ts : Nat, user : Nat]
    BY DEF Stamp, Op
  <2>4. e \in Entry /\ e.id = d.chars[i].id /\ e.deleted
    BY <2>2, <2>3 DEF Entry
  <2>5. /\ DOMAIN n = {"chars", "index", "applied"}
        /\ n.chars = [d.chars EXCEPT ![i] = e]
        /\ n.index = d.index /\ n.applied = d.applied
    <3> HIDE DEF i
    <3> QED BY <2>1, <2>2 DEF InSync, IsDocument
  <2> HIDE DEF n, e, i
  <2>6. /\ n.chars \in Seq(Entry) /\ Len(n.chars) = Len(d.chars)
        /\ \A k \in 1..Len(d.chars) :
              n.chars[k].id = d.chars[k].id /\ (d.chars[k].deleted => n.chars[k].deleted)
    BY <2>1, <2>2, <2>4, <2>5, ExceptSeq
  <2>7. InSync(n)
    BY <2>1, <2>5, <2>6 DEF InSync, IsDocument
  <2> QED BY <2>5, <2>7 DEF ApplyDelete, i, n
<1>2. CASE i = 0
  BY <1>2 DEF ApplyDelete
<1> QED BY <1>1, <1>2

\* applyOperation keeps text and index in agreement.
LEMMA ApplyKeeps ==
    ASSUME NEW d, InSync(d), NEW op \in Op
    PROVE  Keeps(d, op, ApplyOperation(d, op))
<1> DEFINE e == [d EXCEPT !.applied = @ \cup {op.id}]
           new == op.id \notin d.applied
<1>1. /\ InSync(e) /\ e.chars = d.chars /\ e.index = d.index
      /\ e.applied = d.applied \cup {op.id}
  BY RememberKeepsSync
<1>2. op.id \in ID /\ op.id[1] > 0 /\ Stamp(op) \in [ts : Nat, user : Nat]
  BY DEF Op, ID, Stamp
<1> HIDE DEF e
<1>3. CASE ~new
  BY <1>3 DEF ApplyOperation, Keeps
<1>4. CASE new /\ IsInsert(op)
  <2> DEFINE anchor == AnchorOf(e, op.ref)
             pos    == ScanEnd(e.chars, anchor, Stamp(op))
             entry  == [id |-> op.id, ch |-> op.ch, stamp |-> Stamp(op),
                        deleted |-> FALSE]
             n      == PutIn(e, pos, entry)
  <2>1. ApplyOperation(d, op) = n
    BY <1>4 DEF ApplyOperation, ApplyInsert, PutIn, e
  <2>2. anchor \in 1..Len(e.chars) /\ e.chars \in Seq(Entry)
    BY <1>1, Places DEF AnchorOf, FindByID, InSync, IsDocument
  <2>3. op.ref \in DOMAIN e.index => anchor = e.index[op.ref]
    BY <1>1, Places DEF AnchorOf, FindByID
  <2> HIDE DEF anchor
  <2>4. pos \in anchor + 1..Len(e.chars) + 1
    BY <2>2, ScanEndInRange
  <2> HIDE DEF pos
  <2>5. pos \in 2..Len(e.chars) + 1
    BY <2>2, <2>4
  <2>6. entry \in Entry /\ entry.id = op.id
    BY <1>2 DEF Entry, Op
  <2> HIDE DEF entry
  <2>7. op.id \notin DOMAIN e.index
    BY <1>1, <1>2, <1>4 DEF InSync
  <2>8. /\ InSync(n) /\ n.applied = e.applied /\ n.index[op.id] = pos
        /\ \A id : id \in DOMAIN n.index <=> id \in DOMAIN e.index \/ id = op.id
        /\ \A id \in DOMAIN e.index :
              n.index[id] = IF e.index[id] < pos THEN e.index[id] ELSE e.index[id] + 1
    BY <1>1, <2>5, <2>6, <2>7, PutInSync
  <2> HIDE DEF n
  <2>9. \A a, b \in DOMAIN d.index :
            d.index[a] < d.index[b] => n.index[a] < n.index[b]
    BY <1>1, <2>2, <2>5, <2>8, Places
  <2>10. op.ref \in DOMAIN d.index => n.index[op.ref] < n.index[op.id]
    BY <1>1, <2>2, <2>3, <2>4, <2>8
  <2> QED BY <1>1, <1>4, <2>1, <2>8, <2>9, <2>10 DEF Keeps
<1>5. CASE new /\ ~IsInsert(op)
  <2>1. ApplyOperation(d, op) = ApplyDelete(e, op)
    BY <1>5 DEF ApplyOperation, e
  <2> QED BY <1>1, <1>5, <2>1, DeleteKeepsSync DEF Keeps
<1> QED BY <1>3, <1>4, <1>5

(***************************************************************************)
(* Sequences of operations                                                 *)
(***************************************************************************)
\* Operations that the document has not applied, each with an id of its own.
Fresh(d, ops) ==
    /\ ops \in Seq(Op)
    /\ \A k \in 1..Len(ops) : ops[k].id \notin d.applied
    /\ \A j, k \in 1..Len(ops) : ops[j].id = ops[k].id => j = k

\* The character is in d or inserted by one of the first n operations.
There(d, ops, n, id) ==
    \/ id \in DOMAIN d.index
    \/ \E k \in 1..n : IsInsert(ops[k]) /\ ops[k].id = id

\* What holds of the document after n operations.
Placed(d, ops, n, s) ==
    /\ InSync(s)
    /\ \A id : id \in s.applied
                 <=> id \in d.applied \/ \E k \in 1..n : ops[k].id = id
    /\ \A id : id \in DOMAIN s.index <=> There(d, ops, n, id)
    /\ \A k \in 1..n : IsInsert(ops[k]) /\ There(d, ops, k - 1, ops[k].ref)
                           => s.index[ops[k].ref] < s.index[ops[k].id]

LEMMA PlacedNext ==
    ASSUME NEW d, NEW ops, Fresh(d, ops), NEW n \in Nat, n < Len(ops),
           NEW s, Placed(d, ops, n, s),
           NEW t, t = ApplyOperation(s, ops[n + 1])
    PROVE  Placed(d, ops, n + 1, t)
<1> DEFINE op == ops[n + 1]
<1>1. n + 1 \in 1..Len(ops) /\ op \in Op
  BY DEF Fresh
<1>2. op.id \notin s.applied
  BY <1>1 DEF Fresh, Placed
<1>3. Keeps(s, op, t)
  BY <1>1, ApplyKeeps DEF Placed
<1> HIDE DEF op
<1>4. \A k \in 1..n + 1 : k \in 1..n \/ k = n + 1
  OBVIOUS
<1>5. \A id : There(d, ops, n + 1, id)
                <=> There(d, ops, n, id) \/ (IsInsert(op) /\ op.id = id)
  BY <1>4 DEF There, op
<1>6. \A id : id \in t.applied
                <=> id \in d.applied \/ \E k \in 1..n + 1 : ops[k].id = id
  BY <1>3, <1>4 DEF Keeps, Placed, op
<1>7. \A id : id \in DOMAIN t.index <=> There(d, ops, n + 1, id)
  BY <1>2, <1>3, <1>5 DEF Keeps, Placed
<1>8. ASSUME NEW k \in 1..n + 1, IsInsert(ops[k]), There(d, ops, k - 1, ops[k].ref)
      PROVE  t.index[ops[k].ref] < t.index[ops[k].id]
  <2>1. CASE k = n + 1
    <3>1. op.ref \in DOMAIN s.index
      BY <1>8, <2>1 DEF Placed, op
    <3> QED BY <1>2, <1>3, <1>8, <2>1, <3>1 DEF Keeps, op
  <2>2. CASE k \in 1..n
    <3>1. s.index[ops[k].ref] < s.index[ops[k].id]
      BY <1>8, <2>2 DEF Placed
    <3>2. There(d, ops, n, ops[k].ref) /\ There(d, ops, n, ops[k].id)
      BY <1>8, <2>2 DEF There
    <3> QED BY <1>3, <3>1, <3>2 DEF Keeps, Placed
  <2> QED BY <1>4, <2>1, <2>2
<1>9. InSync(t)
  BY <1>3 DEF Keeps
<1> QED BY <1>6, <1>7, <1>8, <1>9 DEF Placed

\* After a sequence of operations, text and index agree, all inserted characters
\* are there, and each stands behind its anchor if that was there in time.
LEMMA OperationsPlaced ==
    ASSUME NEW d, InSync(d), NEW ops, Fresh(d, ops)
    PROVE  Placed(d, ops, Len(ops), ApplyOperations(d, ops))
<1> DEFINE f == Steps(d, ops)
           T == {n \in Nat : n <= Len(ops) => Placed(d, ops, n, f[n])}
<1>0. Len(ops) \in Nat
  BY DEF Fresh
<1>1. f = [n \in 0..Len(ops) |->
              IF n = 0 THEN d ELSE ApplyOperation(f[n - 1], ops[n])]
  BY <1>0, StepsExist
<1> HIDE DEF f
<1>2. f[0] = d /\ \A n \in Nat : n < Len(ops) => f[n + 1] = ApplyOperation(f[n], ops[n + 1])
  <2>1. \A n \in 0..Len(ops) :
           f[n] = IF n = 0 THEN d ELSE ApplyOperation(f[n - 1], ops[n])
    BY <1>1, Zenon
  <2> QED BY <1>0, <2>1
<1>3. 0 \in T
  BY <1>2 DEF Placed, There
<1>4. ASSUME NEW n \in T
      PROVE  n + 1 \in T
  <2>1. n \in Nat /\ n + 1 \in Nat
    OBVIOUS
  <2> SUFFICES ASSUME n + 1 <= Len(ops)
               PROVE  Placed(d, ops, n + 1, f[n + 1])
    BY <2>1
  <2>2. n < Len(ops) /\ Placed(d, ops, n, f[n])
    BY <1>0, <2>1
  <2> QED BY <1>2, <2>1, <2>2, PlacedNext
<1>5. T = Nat
  <2> HIDE DEF T
  <2> QED BY <1>3, <1>4, Induct DEF T
<1> QED BY <1>0, <1>5, ApplyIsLastStep DEF f

(***************************************************************************)
(* Marks and stamps                                                        *)
(***************************************************************************)
EntriesOf(d) == {d.chars[k] : k \in 1..Len(d.chars)}

\* A deletion replaces the entry it names by a deleted one of the same id and
\* character, if it wins over it.
Replaced(d, op, n, y, x) ==
    /\ y \in EntriesOf(d) /\ y.id = op.ref /\ \A z \in EntriesOf(d) : z.id = op.ref => z = y
    /\ x.id = op.ref /\ x.ch = y.ch /\ x.deleted /\ x.stamp = Stamp(op)
    /\ EntriesOf(n) = (EntriesOf(d) \ {y}) \cup {x}

LEMMA DeleteReplaces ==
    ASSUME NEW d, InSync(d), NEW op \in Op
    PROVE  \/ /\ ApplyDelete(d, op) = d
              /\ \A x \in EntriesOf(d) : x.id = op.ref => ~StampWins(Stamp(op), x.stamp)
           \/ \E x, y : Replaced(d, op, ApplyDelete(d, op), y, x)
<1> DEFINE i == FindByID(d, op.ref)
           n == [d EXCEPT !.chars[i].deleted = TRUE, !.chars[i].stamp = Stamp(op)]
           e == [d.chars[i] EXCEPT !.deleted = TRUE, !.stamp = Stamp(op)]
<1>1. /\ Len(d.chars) \in Nat /\ d.chars \in Seq(Entry)
      /\ i # 0 => i \in 1..Len(d.chars) /\ d.chars[i].id = op.ref
      /\ \A k \in 1..Len(d.chars) : d.chars[k].id = op.ref => k = i
  BY Places DEF FindByID, InSync, IsDocument
<1>2. CASE i # 0 /\ StampWins(Stamp(op), d.chars[i].stamp)
  <2>1. d.chars[i] \in Entry
    BY <1>1, <1>2
  <2>2. e.id = op.ref /\ e.ch = d.chars[i].ch /\ e.deleted /\ e.stamp = Stamp(op)
    BY <1>1, <1>2, <2>1 DEF Entry
  <2>3. n.chars = [d.chars EXCEPT ![i] = e]
    <3> HIDE DEF i
    <3> DEFINE half == [d.chars[i] EXCEPT !.deleted = TRUE]
               m    == [d EXCEPT !.chars = [d.chars EXCEPT ![i] = half]]
    <3>1. "chars" \in DOMAIN d /\ i \in DOMAIN d.chars
      BY <1>1, <1>2 DEF InSync, IsDocument
    <3>2. n = [m EXCEPT !.chars = [m.chars EXCEPT ![i] = [m.chars[i] EXCEPT !.stamp = Stamp(op)]]]
      OBVIOUS
    <3>3. m.chars = [d.chars EXCEPT ![i] = half] /\ DOMAIN m = DOMAIN d
      BY <3>1
    <3>4. m.chars[i] = half
      BY <3>1, <3>3
    <3>5. [half EXCEPT !.stamp = Stamp(op)] = e
      OBVIOUS
    <3> HIDE DEF half, m, e, n
    <3>6. n.chars = [m.chars EXCEPT ![i] = e]
      BY <3>1, <3>2, <3>3, <3>4, <3>5
    <3> QED BY <3>3, <3>6
  <2>4. ApplyDelete(d, op) = n
    BY <1>2 DEF ApplyDelete
  <2> HIDE DEF n, e, i
  <2>5. /\ Len(n.chars) = Len(d.chars)
        /\ \A k \in 1..Len(d.chars) : n.chars[k] = IF k = i THEN e ELSE d.chars[k]
    BY <1>1, <1>2, <2>3
  <2> DEFINE y == d.chars[i]
  <2>6. y \in EntriesOf(d) /\ y.id = op.ref /\ \A z \in EntriesOf(d) : z.id = op.ref => z = y
    BY <1>1, <1>2 DEF EntriesOf
  <2>7. EntriesOf(n) \subseteq (EntriesOf(d) \ {y}) \cup {e}
    <3> SUFFICES ASSUME NEW k \in 1..Len(d.chars)
                 PROVE  n.chars[k] = e \/ (n.chars[k] \in EntriesOf(d) /\ n.chars[k] # y)
      BY <2>5 DEF EntriesOf
    <3> QED BY <1>1, <1>2, <2>5 DEF EntriesOf
  <2>8. (EntriesOf(d) \ {y}) \cup {e} \subseteq EntriesOf(n)
    <3>1. e \in EntriesOf(n)
      BY <1>1, <1>2, <2>5 DEF EntriesOf
    <3>2. ASSUME NEW z \in EntriesOf(d), z # y PROVE z \in EntriesOf(n)
      <4>1. PICK k \in 1..Len(d.chars) : z = d.chars[k]
        BY DEF EntriesOf
      <4>2. k # i /\ k \in 1..Len(n.chars) /\ n.chars[k] = z
        BY <2>5, <3>2, <4>1
      <4> QED BY <4>2 DEF EntriesOf
    <3> QED BY <3>1, <3>2
  <2>9. e.ch = y.ch
    BY <2>2
  <2> HIDE DEF y
  <2>10. Replaced(d, op, n, y, e)
    BY <2>2, <2>6, <2>7, <2>8, <2>9 DEF Replaced
  <2> QED BY <2>4, <2>10
<1>3. CASE ~(i # 0 /\ StampWins(Stamp(op), d.chars[i].stamp))
  <2>1. ApplyDelete(d, op) = d
    BY <1>3 DEF ApplyDelete
  <2> HIDE DEF i
  <2>2. ASSUME NEW x \in EntriesOf(d), x.id = op.ref
        PROVE  ~StampWins(Stamp(op), x.stamp)
    <3>1. PICK k \in 1..Len(d.chars) : x = d.chars[k]
      BY DEF EntriesOf
    <3> QED BY <1>1, <1>3, <2>2, <3>1
  <2> QED BY <2>1, <2>2
<1> QED BY <1>2, <1>3

\* An insertion adds an entry.
NewEntry(op) == [id |-> op.id, ch |-> op.ch, stamp |-> Stamp(op), deleted |-> FALSE]

LEMMA InsertAdds ==
    ASSUME NEW d, InSync(d), NEW op \in Op
    PROVE  EntriesOf(ApplyInsert(d, op)) = EntriesOf(d) \cup {NewEntry(op)}
<1> DEFINE anchor == AnchorOf(d, op.ref)
           pos    == ScanEnd(d.chars, anchor, Stamp(op))
           entry  == NewEntry(op)
           old    == d.chars
           new    == InsertAt(old, pos, entry)
<1>1. ApplyInsert(d, op).chars = new
  BY DEF ApplyInsert, InSync, IsDocument, NewEntry
<1>2. /\ anchor \in 1..Len(old) /\ old \in Seq(Entry) /\ Len(old) \in Nat
  BY Places DEF AnchorOf, FindByID, InSync, IsDocument
<1> HIDE DEF anchor, new
<1>3. pos \in 1..Len(old) + 1
  <2>1. pos \in anchor + 1..Len(old) + 1
    BY <1>2, ScanEndInRange
  <2> HIDE DEF pos, old
  <2> QED BY <1>2, <2>1
<1> HIDE DEF pos
<1>4. entry \in Entry
  BY DEF NewEntry, Entry, Op, Stamp, ID
<1> HIDE DEF entry, old
<1>5. Moved(Entry, old, pos, entry)
  BY <1>2, <1>3, <1>4, InsertAtMoves
<1>6. /\ Len(new) = Len(old) + 1
      /\ \A k \in 1..Len(old) + 1 :
            new[k] = IF k < pos THEN old[k]
                     ELSE IF k = pos THEN entry ELSE old[k - 1]
  BY <1>5 DEF Moved, new
<1> DEFINE was == {old[k] : k \in 1..Len(old)}
           is  == {new[k] : k \in 1..Len(new)}
<1>7. is \subseteq was \cup {entry}
  <2> SUFFICES ASSUME NEW k \in 1..Len(new)
               PROVE  new[k] = entry \/ \E l \in 1..Len(old) : new[k] = old[l]
    OBVIOUS
  <2>1. CASE k < pos
    BY <1>2, <1>3, <1>6, <2>1
  <2>2. CASE k = pos
    BY <1>2, <1>3, <1>6, <2>2
  <2>3. CASE k > pos
    <3>1. k - 1 \in 1..Len(old) /\ new[k] = old[k - 1]
      BY <1>2, <1>3, <1>6, <2>3
    <3> QED BY <3>1
  <2> QED BY <1>2, <1>3, <1>6, <2>1, <2>2, <2>3
<1>8. entry \in is
  BY <1>2, <1>3, <1>6
<1>9. was \subseteq is
  <2> SUFFICES ASSUME NEW l \in 1..Len(old)
               PROVE  \E k \in 1..Len(new) : new[k] = old[l]
    OBVIOUS
  <2>1. CASE l < pos
    BY <1>2, <1>3, <1>6, <2>1
  <2>2. CASE ~(l < pos)
    <3>1. /\ l + 1 \in 1..Len(old) + 1 /\ ~(l + 1 < pos) /\ l + 1 # pos
          /\ (l + 1) - 1 = l
      BY <1>2, <1>3, <2>2
    <3>2. new[l + 1] = old[l] /\ l + 1 \in 1..Len(new)
      BY <1>6, <3>1
    <3> QED BY <3>2
  <2> QED BY <2>1, <2>2
<1>10. EntriesOf(d) = was /\ EntriesOf(ApplyInsert(d, op)) = is
  BY <1>1 DEF EntriesOf, old
<1> HIDE DEF was, is
<1> QED BY <1>7, <1>8, <1>9, <1>10 DEF entry

\* The entries after an operation: as before, unless a deletion wins over them;
\* inserted by it; or deleted by it.
Changed(d, op, n) ==
    \A x \in EntriesOf(n) :
        \/ /\ x \in EntriesOf(d)
           /\ IsDelete(op) /\ x.id = op.ref => ~StampWins(Stamp(op), x.stamp)
        \/ IsInsert(op) /\ x.id = op.id /\ x.stamp = Stamp(op) /\ ~x.deleted
        \/ IsDelete(op) /\ x.id = op.ref /\ x.deleted /\ x.stamp = Stamp(op)

LEMMA ApplyChanges ==
    ASSUME NEW d, InSync(d), NEW op \in Op, op.id \notin d.applied
    PROVE  Changed(d, op, ApplyOperation(d, op))
<1> DEFINE e == [d EXCEPT !.applied = @ \cup {op.id}]
           n == ApplyOperation(d, op)
<1>1. InSync(e) /\ EntriesOf(e) = EntriesOf(d)
  BY RememberKeepsSync DEF EntriesOf
<1>2. n = IF IsInsert(op) THEN ApplyInsert(e, op) ELSE ApplyDelete(e, op)
  BY DEF ApplyOperation
<1> HIDE DEF e, n
<1>3. CASE IsInsert(op)
  <2>1. EntriesOf(n) = EntriesOf(d) \cup {NewEntry(op)}
    BY <1>1, <1>2, <1>3, InsertAdds
  <2> QED BY <1>3, <2>1 DEF Changed, IsInsert, IsDelete, NewEntry, n
<1>4. CASE ~IsInsert(op)
  <2>1. IsDelete(op)
    BY <1>4 DEF Op, IsInsert, IsDelete
  <2>2. \/ /\ n = e
           /\ \A x \in EntriesOf(e) : x.id = op.ref => ~StampWins(Stamp(op), x.stamp)
        \/ \E x, y : Replaced(e, op, n, y, x)
    BY <1>1, <1>2, <1>4, DeleteReplaces
  <2>3. CASE n = e /\ \A x \in EntriesOf(e) : x.id = op.ref => ~StampWins(Stamp(op), x.stamp)
    BY <1>1, <2>3 DEF Changed, n
  <2>4. CASE \E x, y : Replaced(e, op, n, y, x)
    BY <1>1, <2>1, <2>4 DEF Changed, Replaced, n
  <2> QED BY <2>2, <2>3, <2>4
<1> QED BY <1>3, <1>4

\* What toString shows of the entries.
Shows(e) == ~IsHead(e.id) /\ ~e.deleted

\* What becomes of the characters: an insertion adds its own, a deletion leaves
\* all where they are, and only the one it names can stop to show.
Chars(d) == {x.ch : x \in EntriesOf(d)}

CharsShown(d) == {x.ch : x \in {y \in EntriesOf(d) : Shows(y)}}

CharsNamed(d, id) == {x.ch : x \in {y \in EntriesOf(d) : y.id = id}}

Alters(d, op, n) ==
    /\ Chars(n) = Chars(d) \cup {o.ch : o \in {p \in {op} : IsInsert(p)}}
    /\ \A id : CharsNamed(d, id) \subseteq CharsNamed(n, id)
    /\ CharsShown(d) \subseteq CharsShown(n) \cup
                               (IF IsDelete(op) THEN CharsNamed(n, op.ref) ELSE {})
    /\ CharsShown(n) \subseteq CharsShown(d) \cup {o.ch : o \in {p \in {op} : IsInsert(p)}}

LEMMA ApplyAlters ==
    ASSUME NEW d, InSync(d), NEW op \in Op, op.id \notin d.applied
    PROVE  Alters(d, op, ApplyOperation(d, op))
<1> DEFINE e == [d EXCEPT !.applied = @ \cup {op.id}]
           n == ApplyOperation(d, op)
<1>1. InSync(e) /\ EntriesOf(e) = EntriesOf(d)
  BY RememberKeepsSync DEF EntriesOf
<1>2. n = IF IsInsert(op) THEN ApplyInsert(e, op) ELSE ApplyDelete(e, op)
  BY DEF ApplyOperation
<1> HIDE DEF e, n
<1>3. CASE IsInsert(op)
  <2>1. EntriesOf(n) = EntriesOf(d) \cup {NewEntry(op)}
    BY <1>1, <1>2, <1>3, InsertAdds
  <2>2. NewEntry(op).ch = op.ch /\ {o.ch : o \in {p \in {op} : IsInsert(p)}} = {op.ch}
    BY <1>3 DEF NewEntry
  <2>3. Chars(n) = Chars(d) \cup {op.ch}
    BY <2>1, <2>2 DEF Chars
  <2>4. \A id : CharsNamed(d, id) \subseteq CharsNamed(n, id)
    BY <2>1 DEF CharsNamed
  <2>5. CharsShown(d) \subseteq CharsShown(n) /\ CharsShown(n) \subseteq CharsShown(d) \cup {op.ch}
    BY <2>1, <2>2 DEF CharsShown
  <2> QED BY <2>2, <2>3, <2>4, <2>5 DEF Alters, n
<1>4. CASE ~IsInsert(op)
  <2>1. IsDelete(op) /\ {o.ch : o \in {p \in {op} : IsInsert(p)}} = {}
    BY <1>4 DEF Op, IsInsert, IsDelete
  <2>2. \/ n = e \/ \E x, y : Replaced(e, op, n, y, x)
    BY <1>1, <1>2, <1>4, DeleteReplaces
  <2>3. CASE n = e
    BY <1>1, <2>1, <2>3 DEF Alters, Chars, CharsNamed, CharsShown, n
  <2>4. CASE \E x, y : Replaced(e, op, n, y, x)
    <3>1. PICK x, y : Replaced(e, op, n, y, x)
      BY <2>4
    <3>2. /\ y \in EntriesOf(d) /\ y.id = op.ref /\ x.id = op.ref /\ x.ch = y.ch /\ x.deleted
          /\ EntriesOf(n) = (EntriesOf(d) \ {y}) \cup {x}
      BY <1>1, <3>1 DEF Replaced
    <3>3. Chars(n) = Chars(d)
      BY <3>2 DEF Chars
    <3>4. \A id : CharsNamed(d, id) \subseteq CharsNamed(n, id)
      BY <3>2 DEF CharsNamed
    <3>5. CharsShown(n) \subseteq CharsShown(d)
      BY <3>2 DEF CharsShown, Shows
    <3>6. CharsShown(d) \subseteq CharsShown(n) \cup CharsNamed(n, op.ref)
      BY <3>2 DEF CharsShown, CharsNamed
    <3> QED BY <2>1, <3>3, <3>4, <3>5, <3>6 DEF Alters, n
  <2> QED BY <2>2, <2>3, <2>4
<1> QED BY <1>3, <1>4

\* No operation of the sequence is timed before what it refers to.
InTime(ops) ==
    \A j, k \in 1..Len(ops) :
        IsInsert(ops[j]) /\ ops[j].id = ops[k].ref => ops[j].ts < ops[k].ts

\* A text as loaded: shown and without stamps.
Unmarked(d) ==
    \A x \in EntriesOf(d) : x.stamp = NoStamp /\ (x.deleted => x.id = HeadID)

\* After n operations, what is shown has the stamp it was born with, what is
\* deleted was named by a deletion, and what a deletion has named is deleted.
Marked(d, ops, n, s) ==
    /\ \A x \in EntriesOf(s) : ~x.deleted =>
           \/ x.stamp = NoStamp
           \/ \E k \in 1..n : /\ IsInsert(ops[k]) /\ ops[k].id = x.id
                              /\ x.stamp = Stamp(ops[k])
    /\ \A x \in EntriesOf(s) : x.deleted =>
           x.id = HeadID \/ \E k \in 1..n : IsDelete(ops[k]) /\ ops[k].ref = x.id
    /\ \A k \in 1..n : IsDelete(ops[k]) /\ There(d, ops, k - 1, ops[k].ref) =>
           \A x \in EntriesOf(s) : x.id = ops[k].ref => x.deleted

LEMMA MarkedNext ==
    ASSUME NEW d, NEW ops, Fresh(d, ops), InTime(ops), NEW n \in Nat, n < Len(ops),
           NEW s, Placed(d, ops, n, s), Marked(d, ops, n, s),
           NEW t, t = ApplyOperation(s, ops[n + 1])
    PROVE  Marked(d, ops, n + 1, t)
<1> DEFINE op == ops[n + 1]
<1>1. n + 1 \in 1..Len(ops) /\ op \in Op /\ \A k \in 1..n : ops[k] \in Op
  BY DEF Fresh
<1>2. op.id \notin s.applied /\ InSync(s)
  BY <1>1 DEF Fresh, Placed
<1>3. op.id \notin DOMAIN s.index
  <2>1. op.id[1] > 0
    BY <1>1 DEF Op
  <2> QED BY <1>2, <2>1 DEF InSync
<1>4. Changed(s, op, t)
  BY <1>1, <1>2, ApplyChanges
<1>5. \A k \in 1..n + 1 : k \in 1..n \/ k = n + 1
  OBVIOUS
<1>6. 1..n \subseteq 1..n + 1 /\ n + 1 \in 1..n + 1 /\ 1..n \subseteq 1..Len(ops)
  BY <1>1
<1>7. \A k \in 1..n : IsInsert(ops[k]) /\ ops[k].id = op.ref => ops[k].ts < op.ts
  BY <1>1, <1>6 DEF InTime
<1>8. op.ts > 0 /\ op.ts \in Nat
  BY <1>1 DEF Op
<1> HIDE DEF op
<1>9. ASSUME NEW x \in EntriesOf(t), ~x.deleted
      PROVE  \/ x.stamp = NoStamp
             \/ \E k \in 1..n + 1 : /\ IsInsert(ops[k]) /\ ops[k].id = x.id
                                    /\ x.stamp = Stamp(ops[k])
  <2>1. x \in EntriesOf(s) \/ (IsInsert(op) /\ x.id = op.id /\ x.stamp = Stamp(op))
    BY <1>4, <1>9 DEF Changed
  <2> QED BY <1>6, <1>9, <2>1 DEF Marked, op
<1>10. ASSUME NEW x \in EntriesOf(t), x.deleted
       PROVE  \/ x.id = HeadID
              \/ \E k \in 1..n + 1 : IsDelete(ops[k]) /\ ops[k].ref = x.id
  <2>1. x \in EntriesOf(s) \/ (IsDelete(op) /\ x.id = op.ref)
    BY <1>4, <1>10 DEF Changed
  <2> QED BY <1>6, <1>10, <2>1 DEF Marked, op
<1>11. ASSUME NEW x \in EntriesOf(t), NEW k \in 1..n + 1,
              IsDelete(ops[k]), There(d, ops, k - 1, ops[k].ref), x.id = ops[k].ref
       PROVE  x.deleted
  <2>1. CASE k \in 1..n
    <3>1. There(d, ops, n, ops[k].ref)
      BY <1>11, <2>1 DEF There
    <3>2. x.id # op.id
      BY <1>3, <1>11, <3>1 DEF Placed
    <3>3. x \in EntriesOf(s) \/ x.deleted
      BY <1>4, <3>2 DEF Changed
    <3> QED BY <1>11, <2>1, <3>3 DEF Marked
  <2>2. CASE k = n + 1
    <3>1. IsDelete(op) /\ x.id = op.ref
      BY <1>11, <2>2 DEF op
    <3>2. ~IsInsert(op)
      BY <3>1 DEF IsInsert, IsDelete
    <3> SUFFICES ASSUME ~x.deleted PROVE FALSE
      OBVIOUS
    <3>3. x \in EntriesOf(s) /\ ~StampWins(Stamp(op), x.stamp)
      BY <1>4, <3>1, <3>2 DEF Changed
    <3>4. CASE x.stamp = NoStamp
      BY <1>8, <3>3, <3>4 DEF StampWins, Stamp, NoStamp
    <3>5. CASE \E j \in 1..n : /\ IsInsert(ops[j]) /\ ops[j].id = x.id
                               /\ x.stamp = Stamp(ops[j])
      <4>1. PICK j \in 1..n : /\ IsInsert(ops[j]) /\ ops[j].id = x.id
                              /\ x.stamp = Stamp(ops[j])
        BY <3>5
      <4>2. ops[j].ts < op.ts /\ ops[j].ts \in Nat
        BY <1>1, <1>7, <3>1, <4>1 DEF Op
      <4> QED BY <1>8, <3>3, <4>1, <4>2 DEF StampWins, Stamp
    <3> QED BY <3>3, <3>4, <3>5 DEF Marked
  <2> QED BY <1>5, <2>1, <2>2
<1> QED BY <1>9, <1>10, <1>11 DEF Marked

LEMMA OperationsMarked ==
    ASSUME NEW d, InSync(d), Unmarked(d), NEW ops, Fresh(d, ops), InTime(ops)
    PROVE  Marked(d, ops, Len(ops), ApplyOperations(d, ops))
<1> DEFINE f == Steps(d, ops)
           T == {n \in Nat : n <= Len(ops) => /\ Placed(d, ops, n, f[n])
                                              /\ Marked(d, ops, n, f[n])}
<1>0. Len(ops) \in Nat
  BY DEF Fresh
<1>1. f = [n \in 0..Len(ops) |->
              IF n = 0 THEN d ELSE ApplyOperation(f[n - 1], ops[n])]
  BY <1>0, StepsExist
<1> HIDE DEF f
<1>2. f[0] = d /\ \A n \in Nat : n < Len(ops) => f[n + 1] = ApplyOperation(f[n], ops[n + 1])
  <2>1. \A n \in 0..Len(ops) :
           f[n] = IF n = 0 THEN d ELSE ApplyOperation(f[n - 1], ops[n])
    BY <1>1, Zenon
  <2> QED BY <1>0, <2>1
<1>3. 0 \in T
  <2>1. Placed(d, ops, 0, d)
    BY DEF Placed, There
  <2>2. Marked(d, ops, 0, d)
    BY DEF Marked, Unmarked
  <2> QED BY <1>2, <2>1, <2>2
<1>4. ASSUME NEW n \in T
      PROVE  n + 1 \in T
  <2>1. n \in Nat /\ n + 1 \in Nat
    OBVIOUS
  <2> SUFFICES ASSUME n + 1 <= Len(ops)
               PROVE  /\ Placed(d, ops, n + 1, f[n + 1])
                      /\ Marked(d, ops, n + 1, f[n + 1])
    BY <2>1
  <2>2. n < Len(ops) /\ Placed(d, ops, n, f[n]) /\ Marked(d, ops, n, f[n])
    BY <1>0, <2>1
  <2> QED BY <1>2, <2>1, <2>2, PlacedNext, MarkedNext
<1>5. T = Nat
  <2> HIDE DEF T
  <2> QED BY <1>3, <1>4, Induct DEF T
<1> QED BY <1>0, <1>5, ApplyIsLastStep DEF f

(***************************************************************************)
(* What is visible                                                         *)
(***************************************************************************)
\* The visible entries among the first n.
UpTo(chars) ==
    CHOOSE f : f = [n \in 0..Len(chars) |->
        IF n = 0 THEN <<>>
        ELSE IF IsHead(chars[n].id) \/ chars[n].deleted THEN f[n - 1]
        ELSE Append(f[n - 1], chars[n])]

LEMMA VisibleIsLast ==
    ASSUME NEW d
    PROVE  Visible(d) = UpTo(d.chars)[Len(d.chars)]
BY DEF Visible, UpTo

LEMMA UpToExists ==
    ASSUME NEW chars, Len(chars) \in Nat
    PROVE  UpTo(chars) = [n \in 0..Len(chars) |->
               IF n = 0 THEN <<>>
               ELSE IF Shows(chars[n]) THEN Append(UpTo(chars)[n - 1], chars[n])
               ELSE UpTo(chars)[n - 1]]
<1> DEFINE Next(x, n) == IF IsHead(chars[n].id) \/ chars[n].deleted THEN x
                         ELSE Append(x, chars[n])
           F(f, m) == f = [n \in 0..m |-> IF n = 0 THEN <<>> ELSE Next(f[n - 1], n)]
           T == {m \in Nat : \E f : F(f, m)}
<1>1. 0 \in T
  <2>1. F([n \in 0..0 |-> <<>>], 0)
    OBVIOUS
  <2> QED BY <2>1
<1>2. ASSUME NEW m \in T
      PROVE  m + 1 \in T
  <2>1. PICK f : F(f, m)
    OBVIOUS
  <2> DEFINE g == [n \in 0..m + 1 |-> IF n = m + 1 THEN Next(f[m], m + 1) ELSE f[n]]
  <2> HIDE DEF Next
  <2>2. \A n \in 0..m : f[n] = IF n = 0 THEN <<>> ELSE Next(f[n - 1], n)
    BY <2>1
  <2>3. \A n \in 0..m + 1 : g[n] = IF n = 0 THEN <<>> ELSE Next(g[n - 1], n)
    <3> SUFFICES ASSUME NEW n \in 0..m + 1
                 PROVE  g[n] = IF n = 0 THEN <<>> ELSE Next(g[n - 1], n)
      OBVIOUS
    <3>1. CASE n = m + 1
      <4>1. n # 0 /\ n - 1 = m /\ m # m + 1 /\ m \in 0..m + 1
        BY <3>1
      <4>2. g[n - 1] = f[m] /\ g[n] = Next(f[m], m + 1)
        BY <3>1, <4>1
      <4> QED BY <3>1, <4>1, <4>2
    <3>2. CASE n # m + 1
      <4>1. n \in 0..m /\ (n # 0 => n - 1 \in 0..m /\ n - 1 # m + 1)
        BY <3>2
      <4>2. g[n] = f[n] /\ (n # 0 => g[n - 1] = f[n - 1])
        BY <3>2, <4>1
      <4> QED BY <2>2, <4>1, <4>2
    <3> QED BY <3>1, <3>2
  <2>4. \E h : F(h, m + 1)
    <3>1. g = [n \in 0..m + 1 |-> g[n]]
      OBVIOUS
    <3> HIDE DEF g
    <3>2. g = [n \in 0..m + 1 |-> IF n = 0 THEN <<>> ELSE Next(g[n - 1], n)]
      BY <2>3, <3>1
    <3> QED BY <3>2
  <2> HIDE DEF F
  <2> QED BY <2>4
<1>3. T = Nat
  <2> HIDE DEF T
  <2> QED BY <1>1, <1>2, Induct DEF T
<1>4. PICK f : F(f, Len(chars))
  BY <1>3
<1>5. F(UpTo(chars), Len(chars))
  BY <1>4 DEF UpTo
<1> QED BY <1>5 DEF Shows

\* The visible entries are those that show, each once.
LEMMA VisibleEnumerates ==
    ASSUME NEW d, d.chars \in Seq(Entry),
           \A i, j \in 1..Len(d.chars) : d.chars[i].id = d.chars[j].id => i = j
    PROVE  /\ Visible(d) \in Seq(Entry)
           /\ \A e : (\E j \in 1..Len(Visible(d)) : Visible(d)[j] = e)
                       <=> e \in EntriesOf(d) /\ Shows(e)
           /\ \A j, k \in 1..Len(Visible(d)) :
                 Visible(d)[j].id = Visible(d)[k].id => j = k
<1> DEFINE chars == d.chars
           f == UpTo(chars)
           Good(n, v) ==
             /\ v \in Seq(Entry)
             /\ \A e : (\E j \in 1..Len(v) : v[j] = e)
                         <=> \E i \in 1..n : chars[i] = e /\ Shows(e)
             /\ \A j, k \in 1..Len(v) : v[j].id = v[k].id => j = k
           T == {n \in Nat : n <= Len(chars) => Good(n, f[n])}
<1>0. Len(chars) \in Nat /\ \A i \in 1..Len(chars) : chars[i] \in Entry
  OBVIOUS
<1>1. \A n \in 0..Len(chars) :
          f[n] = IF n = 0 THEN <<>>
                 ELSE IF Shows(chars[n]) THEN Append(f[n - 1], chars[n]) ELSE f[n - 1]
  <2>1. f = [n \in 0..Len(chars) |->
               IF n = 0 THEN <<>>
               ELSE IF Shows(chars[n]) THEN Append(f[n - 1], chars[n]) ELSE f[n - 1]]
    BY <1>0, UpToExists
  <2> HIDE DEF f, chars
  <2> QED BY <2>1, Zenon
<1>2. Visible(d) = f[Len(chars)]
  BY VisibleIsLast
<1>3. \A i, j \in 1..Len(chars) : chars[i].id = chars[j].id => i = j
  OBVIOUS
<1> HIDE DEF f
<1>4. 0 \in T
  <2>1. f[0] = <<>>
    BY <1>0, <1>1
  <2>2. Good(0, <<>>)
    OBVIOUS
  <2> HIDE DEF Good
  <2> QED BY <2>1, <2>2
<1>5. ASSUME NEW n \in T
      PROVE  n + 1 \in T
  <2>1. n \in Nat /\ n + 1 \in Nat
    OBVIOUS
  <2> SUFFICES ASSUME n + 1 <= Len(chars)
               PROVE  Good(n + 1, f[n + 1])
    BY <2>1
  <2>2. n + 1 \in 0..Len(chars) /\ n + 1 \in 1..Len(chars) /\ Good(n, f[n])
    BY <1>0, <2>1
  <2>3. f[n + 1] = IF Shows(chars[n + 1]) THEN Append(f[n], chars[n + 1]) ELSE f[n]
    BY <1>1, <2>1, <2>2
  <2> DEFINE v == f[n]
             x == chars[n + 1]
  <2>4. x \in Entry
    BY <1>0, <2>2
  <2>5. \A i \in 1..n : i \in 1..Len(chars) /\ chars[i].id # x.id
    BY <1>0, <1>3, <2>2
  <2>6. \A i \in 1..n + 1 : i \in 1..n \/ i = n + 1
    BY <2>1
  <2>7. 1..n \subseteq 1..n + 1 /\ n + 1 \in 1..n + 1
    BY <2>1
  <2>8. /\ v \in Seq(Entry) /\ Len(v) \in Nat
        /\ \A e : (\E j \in 1..Len(v) : v[j] = e)
                    <=> \E i \in 1..n : chars[i] = e /\ Shows(e)
        /\ \A j, k \in 1..Len(v) : v[j].id = v[k].id => j = k
    BY <2>2
  <2>9. f[n + 1] = IF Shows(x) THEN Append(v, x) ELSE v
    BY <2>3
  <2>10. \A e : (\E i \in 1..n + 1 : chars[i] = e /\ Shows(e))
                  <=> \/ \E i \in 1..n : chars[i] = e /\ Shows(e)
                      \/ x = e /\ Shows(x)
    BY <2>6, <2>7
  <2>11. \A j \in 1..Len(v) : v[j].id # x.id
    <3> SUFFICES ASSUME NEW j \in 1..Len(v)
                 PROVE  v[j].id # x.id
      OBVIOUS
    <3> DEFINE e == v[j]
    <3>1. \E l \in 1..Len(v) : v[l] = e
      OBVIOUS
    <3> HIDE DEF e
    <3>2. PICK i \in 1..n : chars[i] = e
      BY <2>8, <3>1
    <3> QED BY <2>5, <3>2 DEF e
  <2> HIDE DEF v, x
  <2>12. CASE Shows(x)
    <3> DEFINE w == Append(v, x)
    <3>1. /\ w \in Seq(Entry) /\ Len(w) = Len(v) + 1
          /\ \A j \in 1..Len(v) : w[j] = v[j]
          /\ w[Len(v) + 1] = x
      BY <2>4, <2>8
    <3>2. \A j \in 1..Len(v) + 1 : j \in 1..Len(v) \/ j = Len(v) + 1
      BY <2>8
    <3>3. 1..Len(v) \subseteq 1..Len(v) + 1 /\ Len(v) + 1 \in 1..Len(v) + 1
      BY <2>8
    <3> HIDE DEF w
    <3>4. \A e : (\E j \in 1..Len(w) : w[j] = e)
                   <=> (\E j \in 1..Len(v) : v[j] = e) \/ x = e
      BY <3>1, <3>2, <3>3
    <3>5. \A j, k \in 1..Len(w) : w[j].id = w[k].id => j = k
      BY <2>8, <2>11, <3>1, <3>2
    <3>6. \A e : (\E j \in 1..Len(w) : w[j] = e)
                   <=> \E i \in 1..n + 1 : chars[i] = e /\ Shows(e)
      BY <2>8, <2>10, <2>12, <3>4
    <3>7. f[n + 1] = w
      BY <2>9, <2>12, Zenon DEF w
    <3>8. Good(n + 1, w)
      BY <3>1, <3>5, <3>6
    <3> HIDE DEF Good
    <3> QED BY <3>7, <3>8
  <2>13. CASE ~Shows(x)
    BY <2>8, <2>9, <2>10, <2>13
  <2> QED BY <2>12, <2>13
<1>6. T = Nat
  <2> HIDE DEF T
  <2> QED BY <1>4, <1>5, Induct DEF T
<1>7. Good(Len(chars), f[Len(chars)])
  <2> HIDE DEF Good
  <2> QED BY <1>0, <1>6
<1>8. \A e : (\E i \in 1..Len(chars) : chars[i] = e /\ Shows(e))
               <=> e \in EntriesOf(d) /\ Shows(e)
  BY DEF EntriesOf
<1> HIDE DEF chars
<1> QED BY <1>2, <1>7, <1>8

(***************************************************************************)
(* Loading a file                                                          *)
(***************************************************************************)
LEMMA LoadInSync ==
    ASSUME NEW content \in Seq(Glyph)
    PROVE  LET d == LoadFromString(content)
           IN  /\ InSync(d) /\ d.applied = {}
               /\ DOMAIN d.index = {HeadID} \cup {BaseChar(n) : n \in 1..Len(content)}
<1> DEFINE d    == LoadFromString(content)
           head == [id |-> HeadID, ch |-> NoChar, stamp |-> NoStamp, deleted |-> TRUE]
           base == [n \in 1..Len(content) |->
                      [id |-> BaseChar(n), ch |-> content[n], stamp |-> NoStamp,
                       deleted |-> FALSE]]
<1>1. Len(content) \in Nat /\ \A n \in 1..Len(content) : content[n] \in Glyph
  OBVIOUS
<1>2. NoStamp \in [ts : Nat, user : Nat] /\ HeadID \in ID
  BY DEF NoStamp, HeadID, ID
<1>3. head \in Entry /\ head.id = HeadID /\ head.deleted
  BY <1>2 DEF Entry, Glyph
<1>4. \A n \in 1..Len(content) : base[n] \in Entry /\ base[n].id = BaseChar(n)
  BY <1>1, <1>2 DEF Entry, BaseChar, ID
<1>5. base \in Seq(Entry) /\ Len(base) = Len(content)
  <2>1. base = [n \in 1..Len(content) |-> base[n]]
    OBVIOUS
  <2> HIDE DEF base
  <2> QED BY <1>1, <1>4, <2>1, IsASeq
<1>6. d.chars = <<head>> \o base /\ d.applied = {}
      /\ DOMAIN d = {"chars", "index", "applied"}
  BY DEF LoadFromString
<1>7. d.index = [id \in {HeadID} \cup {BaseChar(n) : n \in 1..Len(content)} |->
                    IF id = HeadID THEN 1 ELSE id[2] + 1]
  BY DEF LoadFromString
<1> HIDE DEF d, head, base
<1>8. /\ d.chars \in Seq(Entry) /\ Len(d.chars) = Len(content) + 1
      /\ d.chars[1] = head
      /\ \A k \in 2..Len(content) + 1 : d.chars[k].id = BaseChar(k - 1)
  BY <1>1, <1>3, <1>4, <1>5, <1>6
<1>9. \A n \in Nat : BaseChar(n) # HeadID /\ BaseChar(n)[1] = 0 /\ BaseChar(n)[2] = n
  BY DEF BaseChar, HeadID
<1>10. \A k \in 1..Len(d.chars) :
           IF k = 1 THEN d.chars[k].id = HeadID
           ELSE /\ k - 1 \in 1..Len(content)
                /\ d.chars[k].id = BaseChar(k - 1)
  BY <1>1, <1>3, <1>8
<1>11. \A id : id \in DOMAIN d.index <=> \E k \in 1..Len(d.chars) : d.chars[k].id = id
  <2>1. ASSUME NEW id \in DOMAIN d.index
        PROVE  \E k \in 1..Len(d.chars) : d.chars[k].id = id
    <3>1. CASE id = HeadID
      BY <1>1, <1>8, <1>10, <3>1
    <3>2. CASE \E n \in 1..Len(content) : id = BaseChar(n)
      <4>1. PICK n \in 1..Len(content) : id = BaseChar(n)
        BY <3>2
      <4>2. n + 1 \in 1..Len(d.chars) /\ n + 1 # 1 /\ (n + 1) - 1 = n
        BY <1>1, <1>8
      <4> QED BY <1>10, <4>1, <4>2
    <3> QED BY <1>7, <3>1, <3>2
  <2>2. ASSUME NEW k \in 1..Len(d.chars)
        PROVE  d.chars[k].id \in DOMAIN d.index
    <3>1. \/ d.chars[k].id = HeadID
          \/ k - 1 \in 1..Len(content) /\ d.chars[k].id = BaseChar(k - 1)
      BY <1>10
    <3> QED BY <1>7, <3>1
  <2> QED BY <2>1, <2>2
<1>12. ASSUME NEW k \in 1..Len(d.chars)
       PROVE  d.index[d.chars[k].id] = k /\ ~(d.chars[k].id[1] > 0)
  <2>1. CASE k = 1
    <3>1. d.chars[k].id = HeadID
      BY <1>10, <2>1
    <3>2. d.index[HeadID] = 1
      BY <1>7
    <3>3. ~(HeadID[1] > 0)
      BY DEF HeadID
    <3> QED BY <2>1, <3>1, <3>2, <3>3
  <2>2. CASE k # 1
    <3>1. k - 1 \in 1..Len(content) /\ d.chars[k].id = BaseChar(k - 1)
      BY <1>10, <2>2
    <3>2. BaseChar(k - 1) # HeadID /\ BaseChar(k - 1)[1] = 0 /\ BaseChar(k - 1)[2] = k - 1
      BY <1>1, <1>9, <3>1
    <3> QED BY <1>7, <3>1, <3>2
  <2> QED BY <2>1, <2>2
<1>13. InSync(d)
  BY <1>1, <1>3, <1>6, <1>8, <1>11, <1>12 DEF InSync, IsDocument
<1> QED BY <1>6, <1>7, <1>13 DEF d

\* A loaded text is shown and without stamps.
LEMMA LoadUnmarked ==
    ASSUME NEW content \in Seq(Glyph)
    PROVE  Unmarked(LoadFromString(content))
<1> DEFINE d    == LoadFromString(content)
           head == [id |-> HeadID, ch |-> NoChar, stamp |-> NoStamp, deleted |-> TRUE]
           base == [n \in 1..Len(content) |->
                      [id |-> BaseChar(n), ch |-> content[n], stamp |-> NoStamp,
                       deleted |-> FALSE]]
           all  == {head} \cup {base[n] : n \in 1..Len(content)}
<1>1. Len(content) \in Nat
  OBVIOUS
<1>2. \A x \in all : x.stamp = NoStamp /\ (x.deleted => x.id = HeadID)
  OBVIOUS
<1>3. base \in Seq(all) /\ Len(base) = Len(content)
  <2>1. base = [n \in 1..Len(content) |-> base[n]] /\ \A n \in 1..Len(content) : base[n] \in all
    OBVIOUS
  <2> HIDE DEF base, all
  <2> QED BY <1>1, <2>1, IsASeq
<1>4. d.chars = <<head>> \o base
  BY DEF LoadFromString
<1>5. head \in all
  OBVIOUS
<1> HIDE DEF d, head, base, all
<1>6. d.chars \in Seq(all)
  BY <1>3, <1>4, <1>5
<1>7. \A x \in EntriesOf(d) : x \in all
  BY <1>6 DEF EntriesOf
<1> QED BY <1>2, <1>7 DEF Unmarked, d

(***************************************************************************)
(* Sorting                                                                 *)
(***************************************************************************)
\* Operations as a log holds them: of a finite set, one to an id.
IsLog(log) ==
    /\ log \subseteq Op /\ IsFiniteSet(log)
    /\ \A o, p \in log : o.id = p.id => o = p

\* The comparison of the sort is a total order of a log.
LEMMA BeforeIsTotal ==
    ASSUME NEW log, IsLog(log), NEW o \in log, NEW p \in log
    PROVE  /\ ~(Before(o, p) /\ Before(p, o))
           /\ o # p => Before(o, p) \/ Before(p, o)
           /\ \A q \in log : Before(o, p) /\ Before(p, q) => Before(o, q)
<1>1. \A q \in log : /\ q.ts \in Nat /\ q.id[1] \in Nat /\ q.id[2] \in Nat
                     /\ q.id = <<q.id[1], q.id[2]>>
  BY DEF IsLog, Op
<1>2. o # p => o.id[1] # p.id[1] \/ o.id[2] # p.id[2]
  BY <1>1 DEF IsLog
<1> QED BY <1>1, <1>2 DEF Before

\* How many operations of the log come before one.
Rank(log, o) == Cardinality({p \in log : Before(p, o)})

LEMMA RankRises ==
    ASSUME NEW log, IsLog(log), NEW o \in log, NEW p \in log
    PROVE  /\ Rank(log, o) \in 0..Cardinality(log) - 1
           /\ Before(o, p) <=> Rank(log, o) < Rank(log, p)
<1> DEFINE Below(q) == {r \in log : Before(r, q)}
<1>1. ASSUME NEW q \in log
      PROVE  /\ IsFiniteSet(Below(q)) /\ Cardinality(Below(q)) \in Nat
             /\ Cardinality(log) \in Nat
             /\ Cardinality(Below(q)) < Cardinality(log)
  <2>1. Below(q) \in SUBSET log /\ q \notin Below(q)
    BY BeforeIsTotal
  <2>2. IsFiniteSet(log)
    BY DEF IsLog
  <2> HIDE DEF Below
  <2>3. /\ IsFiniteSet(Below(q)) /\ Cardinality(Below(q)) <= Cardinality(log)
        /\ Cardinality(log) = Cardinality(Below(q)) => log = Below(q)
    BY <2>1, <2>2, FS_Subset
  <2>4. Cardinality(Below(q)) \in Nat /\ Cardinality(log) \in Nat
    BY <2>2, <2>3, FS_CardinalityType
  <2> QED BY <2>1, <2>3, <2>4
<1>2. ASSUME NEW q \in log, NEW r \in log, Before(q, r)
      PROVE  Cardinality(Below(q)) < Cardinality(Below(r))
  <2>1. Below(q) \in SUBSET Below(r) /\ q \in Below(r) /\ q \notin Below(q)
    BY <1>2, BeforeIsTotal
  <2>2. /\ IsFiniteSet(Below(r)) /\ Cardinality(Below(q)) \in Nat
        /\ Cardinality(Below(r)) \in Nat
    BY <1>1
  <2> HIDE DEF Below
  <2>3. /\ Cardinality(Below(q)) <= Cardinality(Below(r))
        /\ Cardinality(Below(r)) = Cardinality(Below(q)) => Below(r) = Below(q)
    BY <2>1, <2>2, FS_Subset
  <2> QED BY <2>1, <2>2, <2>3
<1>3. \A q \in log : Rank(log, q) = Cardinality(Below(q))
  BY DEF Rank
<1> HIDE DEF Below
<1>4. Rank(log, o) < Rank(log, p) => Before(o, p)
  <2>1. o # p /\ ~Before(p, o) => Before(o, p)
    BY BeforeIsTotal
  <2> QED BY <1>1, <1>2, <1>3, <2>1
<1> QED BY <1>1, <1>2, <1>3, <1>4

\* Sorting gives every operation of the log once, in order.
LEMMA SortEnumerates ==
    ASSUME NEW log, IsLog(log)
    PROVE  LET s == SortOps(log)
           IN  /\ s \in Seq(log) /\ Len(s) = Cardinality(log)
               /\ \A o \in log : \E i \in 1..Len(s) : s[i] = o
               /\ \A i, j \in 1..Len(s) : i < j <=> Before(s[i], s[j])
               /\ \A i \in 1..Len(s) : Rank(log, s[i]) = i - 1
<1> DEFINE n == Cardinality(log)
           s == SortOps(log)
           rank == [o \in log |-> Rank(log, o)]
<1>0. n \in Nat /\ IsFiniteSet(log)
  BY FS_CardinalityType DEF IsLog
<1>1. ASSUME NEW o \in log, NEW p \in log, Rank(log, o) = Rank(log, p)
      PROVE  o = p
  <2>1. ~Before(o, p) /\ ~Before(p, o)
    BY <1>1, <1>0, RankRises
  <2> QED BY <2>1, BeforeIsTotal
<1>2. rank \in Injection(log, 0..n - 1)
  BY <1>1, RankRises DEF Injection, IsInjective
<1>3. IsFiniteSet(0..n - 1) /\ Cardinality(0..n - 1) = n
  <2>1. 0 \in Int /\ n - 1 \in Int
    BY <1>0
  <2>2. /\ IsFiniteSet(0..n - 1)
        /\ Cardinality(0..n - 1) = IF 0 > n - 1 THEN 0 ELSE n - 1 - 0 + 1
    BY <2>1, FS_Interval
  <2> QED BY <1>0, <2>2
<1>4. \A i \in 0..n - 1 : \E o \in log : Rank(log, o) = i
  <2>1. rank \in Surjection(log, 0..n - 1)
    BY <1>2, <1>3, FS_Injection
  <2> QED BY <2>1 DEF Surjection
<1>5. s = [i \in 1..n |-> CHOOSE o \in log : Rank(log, o) = i - 1]
  BY DEF SortOps, Rank
<1> HIDE DEF s, n
<1>6. \A i \in 1..n : s[i] \in log /\ Rank(log, s[i]) = i - 1
  <2> SUFFICES ASSUME NEW i \in 1..n
               PROVE  s[i] \in log /\ Rank(log, s[i]) = i - 1
    OBVIOUS
  <2>1. i - 1 \in 0..n - 1
    BY <1>0
  <2> QED BY <1>4, <1>5, <2>1
<1>7. s \in Seq(log) /\ Len(s) = n
  BY <1>0, <1>5, <1>6
<1>8. \A o \in log : \E i \in 1..n : s[i] = o
  <2> SUFFICES ASSUME NEW o \in log
               PROVE  \E i \in 1..n : s[i] = o
    OBVIOUS
  <2>1. Rank(log, o) \in 0..n - 1
    BY RankRises DEF n
  <2>2. Rank(log, o) + 1 \in 1..n /\ (Rank(log, o) + 1) - 1 = Rank(log, o)
    BY <1>0, <2>1
  <2> QED BY <1>1, <1>6, <2>2
<1>9. \A i, j \in 1..n : i < j <=> Before(s[i], s[j])
  <2> SUFFICES ASSUME NEW i \in 1..n, NEW j \in 1..n
               PROVE  i < j <=> Before(s[i], s[j])
    OBVIOUS
  <2>1. Before(s[i], s[j]) <=> Rank(log, s[i]) < Rank(log, s[j])
    BY <1>6, RankRises
  <2> QED BY <1>0, <1>6, <2>1
<1> QED BY <1>6, <1>7, <1>8, <1>9 DEF s, n

(***************************************************************************)
(* The replay of a log                                                     *)
(***************************************************************************)
\* The characters a log speaks of: those of a file of that length and those
\* inserted.
Spoken(len, log) ==
    {HeadID} \cup {BaseChar(n) : n \in 1..len} \cup {o.id : o \in {p \in log : IsInsert(p)}}

\* Operations as the users make them: later than what they refer to.
IsTimely(log) == \A o, p \in log : IsInsert(p) /\ p.id = o.ref => p.ts < o.ts

\* A sorted log is fresh to the file, and all its characters are there at the end.
LEMMA SortedIsFresh ==
    ASSUME NEW content \in Seq(Glyph), NEW log, IsLog(log)
    PROVE  LET d == LoadFromString(content)
               s == SortOps(log)
           IN  /\ Fresh(d, s) /\ Len(s) \in Nat
               /\ \A k \in 1..Len(s) : s[k] \in log
               /\ \A o \in log : \E k \in 1..Len(s) : s[k] = o
               /\ \A id : There(d, s, Len(s), id) <=> id \in Spoken(Len(content), log)
<1> DEFINE d == LoadFromString(content)
           s == SortOps(log)
<1>1. /\ d.applied = {}
      /\ DOMAIN d.index = {HeadID} \cup {BaseChar(n) : n \in 1..Len(content)}
  BY LoadInSync
<1>2. /\ s \in Seq(log)
      /\ \A o \in log : \E i \in 1..Len(s) : s[i] = o
      /\ \A i, j \in 1..Len(s) : i < j <=> Before(s[i], s[j])
  BY SortEnumerates
<1> HIDE DEF d, s
<1>3. Len(s) \in Nat /\ \A i \in 1..Len(s) : s[i] \in log /\ s[i] \in Op
  BY <1>2 DEF IsLog
<1>4. Fresh(d, s)
  <2>1. ASSUME NEW j \in 1..Len(s), NEW k \in 1..Len(s), s[j].id = s[k].id
        PROVE  j = k
    <3>1. s[j] = s[k]
      BY <1>3, <2>1 DEF IsLog
    <3>2. ~(j < k) /\ ~(k < j)
      BY <1>2, <1>3, <3>1, BeforeIsTotal
    <3> QED BY <3>2
  <2>2. s \in Seq(Op)
    BY <1>2, SeqMonotonic DEF IsLog
  <2> QED BY <1>1, <2>1, <2>2 DEF Fresh
<1>5. \A id : There(d, s, Len(s), id) <=> id \in Spoken(Len(content), log)
  <2>1. \A id : (\E k \in 1..Len(s) : IsInsert(s[k]) /\ s[k].id = id)
                  <=> \E o \in log : IsInsert(o) /\ o.id = id
    BY <1>2, <1>3
  <2>2. \A id : There(d, s, Len(s), id)
                  <=> id \in DOMAIN d.index \/ \E o \in log : IsInsert(o) /\ o.id = id
    BY <2>1 DEF There
  <2> QED BY <1>1, <2>2 DEF Spoken
<1> QED BY <1>2, <1>3, <1>4, <1>5 DEF d, s

\* In a sorted log of operations made after what they refer to, this is there when
\* their turn comes.
LEMMA SortedInTime ==
    ASSUME NEW content \in Seq(Glyph), NEW log, IsLog(log), IsTimely(log)
    PROVE  LET d == LoadFromString(content)
               s == SortOps(log)
           IN  \A k \in 1..Len(s) :
                  s[k].ref \in Spoken(Len(content), log) => There(d, s, k - 1, s[k].ref)
<1> DEFINE d == LoadFromString(content)
           s == SortOps(log)
<1>1. DOMAIN d.index = {HeadID} \cup {BaseChar(n) : n \in 1..Len(content)}
  BY LoadInSync
<1>2. /\ s \in Seq(log)
      /\ \A o \in log : \E i \in 1..Len(s) : s[i] = o
      /\ \A i, j \in 1..Len(s) : i < j <=> Before(s[i], s[j])
  BY SortEnumerates
<1> HIDE DEF d, s
<1>3. Len(s) \in Nat /\ \A i \in 1..Len(s) : s[i] \in log
  BY <1>2
<1> SUFFICES ASSUME NEW k \in 1..Len(s), s[k].ref \in Spoken(Len(content), log)
             PROVE  There(d, s, k - 1, s[k].ref)
  BY DEF d, s
<1>4. CASE s[k].ref \in DOMAIN d.index
  BY <1>4 DEF There
<1>5. CASE \E p \in log : IsInsert(p) /\ p.id = s[k].ref
  <2>1. PICK p \in log : IsInsert(p) /\ p.id = s[k].ref
    BY <1>5
  <2>2. PICK j \in 1..Len(s) : s[j] = p
    BY <1>2
  <2>3. Before(p, s[k])
    BY <1>3, <2>1 DEF Before, IsTimely
  <2>4. j < k
    BY <1>2, <2>2, <2>3
  <2> QED BY <2>1, <2>2, <2>4 DEF There
<1> QED BY <1>1, <1>4, <1>5 DEF Spoken

\* Text and index of a replay agree; it has applied the log, and holds the
\* characters the log speaks of.
LEMMA ReplayIsDocument ==
    ASSUME NEW content \in Seq(Glyph), NEW log, IsLog(log)
    PROVE  /\ InSync(Replay(content, log))
           /\ DOMAIN Replay(content, log).index = Spoken(Len(content), log)
           /\ Replay(content, log).applied = {o.id : o \in log}
<1> DEFINE d == LoadFromString(content)
           s == SortOps(log)
           r == ApplyOperations(d, s)
<1>0. Replay(content, log) = r
  BY DEF Replay
<1>1. InSync(d) /\ d.applied = {}
  BY LoadInSync
<1>2. /\ Fresh(d, s) /\ Len(s) \in Nat
      /\ \A k \in 1..Len(s) : s[k] \in log
      /\ \A o \in log : \E k \in 1..Len(s) : s[k] = o
      /\ \A id : There(d, s, Len(s), id) <=> id \in Spoken(Len(content), log)
  BY SortedIsFresh
<1> HIDE DEF d, s
<1>3. Placed(d, s, Len(s), r)
  BY <1>1, <1>2, OperationsPlaced
<1> HIDE DEF r
<1>4. DOMAIN r.index = Spoken(Len(content), log)
  BY <1>2, <1>3 DEF Placed
<1>5. \A id : id \in r.applied <=> \E k \in 1..Len(s) : s[k].id = id
  BY <1>1, <1>3 DEF Placed
<1>6. r.applied = {o.id : o \in log}
  BY <1>2, <1>5
<1> QED BY <1>0, <1>3, <1>4, <1>6 DEF Placed

\* Each character stands behind its anchor.
LEMMA ReplayPlaced ==
    ASSUME NEW content \in Seq(Glyph), NEW log, IsLog(log), IsTimely(log)
    PROVE  \A o \in log :
              IsInsert(o) /\ o.ref \in Spoken(Len(content), log)
              => Replay(content, log).index[o.ref] < Replay(content, log).index[o.id]
<1> DEFINE d == LoadFromString(content)
           s == SortOps(log)
           r == ApplyOperations(d, s)
<1>0. Replay(content, log) = r
  BY DEF Replay
<1>1. InSync(d)
  BY LoadInSync
<1>2. /\ Fresh(d, s) /\ Len(s) \in Nat
      /\ \A o \in log : \E k \in 1..Len(s) : s[k] = o
  BY SortedIsFresh
<1>3. \A k \in 1..Len(s) :
         s[k].ref \in Spoken(Len(content), log) => There(d, s, k - 1, s[k].ref)
  BY SortedInTime
<1> HIDE DEF d, s
<1>4. Placed(d, s, Len(s), r)
  BY <1>1, <1>2, OperationsPlaced
<1> HIDE DEF r
<1>5. ASSUME NEW o \in log, IsInsert(o), o.ref \in Spoken(Len(content), log)
      PROVE  r.index[o.ref] < r.index[o.id]
  <2>1. PICK k \in 1..Len(s) : s[k] = o
    BY <1>2
  <2> QED BY <1>2, <1>3, <1>4, <1>5, <2>1 DEF Placed
<1> QED BY <1>0, <1>5

\* What a replay shows: the characters of the file and those inserted that no
\* deletion names, each once.
LEMMA ReplayShows ==
    ASSUME NEW content \in Seq(Glyph), NEW log, IsLog(log), IsTimely(log)
    PROVE  LET v == Visible(Replay(content, log))
           IN  /\ v \in Seq(Entry)
               /\ \A id : (\E j \in 1..Len(v) : v[j].id = id)
                            <=> /\ id \in Spoken(Len(content), log) /\ id # HeadID
                                /\ \A o \in log : IsDelete(o) => o.ref # id
               /\ \A j, k \in 1..Len(v) : v[j].id = v[k].id => j = k
<1> DEFINE d == LoadFromString(content)
           s == SortOps(log)
           r == Replay(content, log)
           v == Visible(r)
<1>1. /\ Fresh(d, s) /\ Len(s) \in Nat
      /\ \A k \in 1..Len(s) : s[k] \in log
      /\ \A o \in log : \E k \in 1..Len(s) : s[k] = o
      /\ \A k \in 1..Len(s) :
            s[k].ref \in Spoken(Len(content), log) => There(d, s, k - 1, s[k].ref)
  BY SortedIsFresh, SortedInTime
<1>2. InSync(r) /\ DOMAIN r.index = Spoken(Len(content), log)
  BY ReplayIsDocument
<1>3. Marked(d, s, Len(s), r)
  <2>1. InSync(d) /\ Unmarked(d)
    BY LoadInSync, LoadUnmarked
  <2>2. InTime(s)
    BY <1>1 DEF InTime, IsTimely
  <2>3. r = ApplyOperations(d, s)
    BY DEF Replay
  <2> HIDE DEF d, s, r
  <2> QED BY <1>1, <2>1, <2>2, <2>3, OperationsMarked
<1> HIDE DEF d, s, r
<1>4. /\ v \in Seq(Entry)
      /\ \A e : (\E j \in 1..Len(v) : v[j] = e) <=> e \in EntriesOf(r) /\ Shows(e)
      /\ \A j, k \in 1..Len(v) : v[j].id = v[k].id => j = k
  <2>1. r.chars \in Seq(Entry)
    BY <1>2 DEF InSync, IsDocument
  <2>2. \A i, j \in 1..Len(r.chars) : r.chars[i].id = r.chars[j].id => i = j
    BY <1>2 DEF InSync
  <2> QED BY <2>1, <2>2, VisibleEnumerates
<1> HIDE DEF v
<1>5. ASSUME NEW j \in 1..Len(v)
      PROVE  /\ v[j].id \in Spoken(Len(content), log) /\ v[j].id # HeadID
             /\ \A o \in log : IsDelete(o) => o.ref # v[j].id
  <2> DEFINE e == v[j]
  <2>1. \E l \in 1..Len(v) : v[l] = e
    OBVIOUS
  <2> HIDE DEF e
  <2>2. e \in EntriesOf(r) /\ Shows(e)
    BY <1>4, <2>1
  <2>3. e.id \in Spoken(Len(content), log)
    BY <1>2, <2>2 DEF EntriesOf, InSync
  <2>4. e.id # HeadID
    BY <2>2 DEF Shows, IsHead
  <2>5. ASSUME NEW o \in log, IsDelete(o), o.ref = e.id
        PROVE  FALSE
    <3>1. PICK k \in 1..Len(s) : s[k] = o
      BY <1>1
    <3>2. There(d, s, k - 1, s[k].ref)
      BY <1>1, <2>3, <2>5, <3>1
    <3>3. e.deleted
      BY <1>3, <2>2, <2>5, <3>1, <3>2 DEF Marked
    <3> QED BY <2>2, <3>3 DEF Shows
  <2> QED BY <2>3, <2>4, <2>5 DEF e
<1>6. ASSUME NEW id \in Spoken(Len(content), log), id # HeadID,
             \A o \in log : IsDelete(o) => o.ref # id
      PROVE  \E j \in 1..Len(v) : v[j].id = id
  <2>1. PICK i \in 1..Len(r.chars) : r.chars[i].id = id
    BY <1>2 DEF InSync
  <2> DEFINE e == r.chars[i]
  <2>2. e \in EntriesOf(r) /\ e.id = id
    BY <2>1 DEF EntriesOf
  <2> HIDE DEF e
  <2>3. ~e.deleted
    BY <1>1, <1>3, <1>6, <2>2 DEF Marked
  <2>4. ~IsHead(id)
    <3>1. CASE \E n \in 1..Len(content) : id = BaseChar(n)
      BY <3>1 DEF BaseChar, IsHead, HeadID
    <3>2. CASE \E o \in log : id = o.id
      BY <3>2 DEF IsHead, HeadID, IsLog, Op
    <3> QED BY <1>6, <3>1, <3>2 DEF Spoken
  <2>5. Shows(e)
    BY <2>2, <2>3, <2>4 DEF Shows
  <2>6. PICK j \in 1..Len(v) : v[j] = e
    BY <1>4, <2>2, <2>5
  <2> QED BY <2>2, <2>6
<1> QED BY <1>4, <1>5, <1>6 DEF v, r

(***************************************************************************)
(* A replay of one more operation, the latest: what the main thread makes  *)
(* of its document is what the merge thread makes of its log.              *)
(***************************************************************************)
\* Operations that all come before op.
AllBefore(log, op) == \A o \in log : Before(o, op)

LEMMA SortAppends ==
    ASSUME NEW log, NEW op, IsLog(log), IsLog(log \cup {op}), op \notin log,
           AllBefore(log, op)
    PROVE  SortOps(log \cup {op}) = Append(SortOps(log), op)
<1> DEFINE all == log \cup {op}
           s == SortOps(log)
           t == SortOps(all)
           n == Cardinality(log)
<1>1. /\ s \in Seq(log) /\ Len(s) = n
      /\ \A i \in 1..Len(s) : Rank(log, s[i]) = i - 1
  BY SortEnumerates
<1>2. /\ t \in Seq(all) /\ Len(t) = Cardinality(all)
      /\ \A i \in 1..Len(t) : Rank(all, t[i]) = i - 1
  <2>1. IsLog(all)
    OBVIOUS
  <2> HIDE DEF all
  <2> QED BY <2>1, SortEnumerates
<1>3. n \in Nat /\ Cardinality(all) = n + 1
  BY FS_AddElement, FS_CardinalityType DEF IsLog
<1>4. ASSUME NEW o \in log
      PROVE  Rank(all, o) = Rank(log, o)
  <2>1. ~Before(op, o)
    <3>1. IsLog(all) /\ o \in all /\ op \in all /\ Before(o, op)
      BY DEF AllBefore
    <3> HIDE DEF all
    <3> QED BY <3>1, BeforeIsTotal
  <2>2. {p \in all : Before(p, o)} = {p \in log : Before(p, o)}
    BY <2>1
  <2> QED BY <2>2 DEF Rank
<1>5. Rank(all, op) = n
  <2>1. ~Before(op, op)
    <3>1. IsLog(all) /\ op \in all
      OBVIOUS
    <3> HIDE DEF all
    <3> QED BY <3>1, BeforeIsTotal
  <2>2. {p \in all : Before(p, op)} = log
    BY <2>1 DEF AllBefore
  <2> QED BY <2>2 DEF Rank
<1>6. \A o \in log : Rank(log, o) \in 0..n - 1
  BY RankRises
<1>7. ASSUME NEW o \in log, NEW p \in log, Rank(log, o) = Rank(log, p)
      PROVE  o = p
  <2>1. ~Before(o, p) /\ ~Before(p, o)
    BY <1>3, <1>6, <1>7, RankRises
  <2> QED BY <2>1, BeforeIsTotal
<1>8. \A o \in all : o \in log \/ o = op
  OBVIOUS
<1> HIDE DEF all, s, t, n
<1>9. \A i \in 1..n + 1 : t[i] \in all /\ Rank(all, t[i]) = i - 1
  BY <1>2, <1>3
<1>10. ASSUME NEW i \in 1..n
       PROVE  t[i] = s[i]
  <2>1. s[i] \in log /\ Rank(log, s[i]) = i - 1
    BY <1>1, <1>3
  <2>2. t[i] \in all /\ Rank(all, t[i]) = i - 1
    BY <1>3, <1>9
  <2>3. t[i] # op
    BY <1>3, <1>5, <2>2
  <2>4. t[i] \in log /\ Rank(log, t[i]) = i - 1
    BY <1>4, <1>8, <2>2, <2>3
  <2> QED BY <1>7, <2>1, <2>4
<1>11. t[n + 1] = op
  <2>1. t[n + 1] \in all /\ Rank(all, t[n + 1]) = n
    BY <1>3, <1>9
  <2>2. t[n + 1] \notin log
    BY <1>3, <1>4, <1>6, <2>1
  <2> QED BY <1>8, <2>1, <2>2
<1>12. t = Append(s, op)
  <2> DEFINE w == Append(s, op)
  <2>1. /\ Len(w) = n + 1 /\ w[n + 1] = op /\ \A i \in 1..n : w[i] = s[i]
        /\ w \in Seq(log \cup {op})
    BY <1>1, <1>3
  <2> HIDE DEF w
  <2>2. t \in Seq(all) /\ Len(t) = n + 1
    BY <1>2, <1>3
  <2>3. \A i \in 1..n + 1 : i \in 1..n \/ i = n + 1
    BY <1>3
  <2>4. \A i \in 1..n + 1 : t[i] = w[i]
    BY <1>10, <1>11, <2>1, <2>3
  <2> QED BY <1>3, <2>1, <2>2, <2>4 DEF w
<1> QED BY <1>12 DEF t, s, all

LEMMA ApplyAppends ==
    ASSUME NEW d, NEW S, NEW ops \in Seq(S), NEW op \in S
    PROVE  ApplyOperations(d, Append(ops, op)) = ApplyOperation(ApplyOperations(d, ops), op)
<1> DEFINE more == Append(ops, op)
           n == Len(ops)
           f == Steps(d, ops)
           g == Steps(d, more)
           T == {k \in Nat : k <= n => g[k] = f[k]}
<1>1. /\ n \in Nat /\ Len(more) = n + 1 /\ more[n + 1] = op
      /\ \A k \in 1..n : more[k] = ops[k]
  OBVIOUS
<1> HIDE DEF more, n
<1>2. f = [k \in 0..n |-> IF k = 0 THEN d ELSE ApplyOperation(f[k - 1], ops[k])]
  BY <1>1, StepsExist DEF n
<1>3. g = [k \in 0..Len(more) |->
              IF k = 0 THEN d ELSE ApplyOperation(g[k - 1], more[k])]
  BY <1>1, StepsExist
<1>4. ApplyOperations(d, ops) = f[n] /\ ApplyOperations(d, more) = g[n + 1]
  BY <1>1, ApplyIsLastStep DEF n
<1> HIDE DEF f, g
<1>5. \A k \in 0..n : f[k] = IF k = 0 THEN d ELSE ApplyOperation(f[k - 1], ops[k])
  BY <1>2, Zenon
<1>6. \A k \in 0..n + 1 :
          g[k] = IF k = 0 THEN d ELSE ApplyOperation(g[k - 1], more[k])
  BY <1>1, <1>3, Zenon
<1>7. 0 \in T
  BY <1>1, <1>5, <1>6
<1>8. ASSUME NEW k \in T
      PROVE  k + 1 \in T
  <2>1. k \in Nat /\ k + 1 \in Nat
    OBVIOUS
  <2> SUFFICES ASSUME k + 1 <= n
               PROVE  g[k + 1] = f[k + 1]
    BY <2>1
  <2>2. g[k] = f[k] /\ k + 1 \in 0..n /\ k + 1 \in 0..n + 1 /\ k + 1 \in 1..n
        /\ (k + 1) - 1 = k /\ k + 1 # 0
    BY <1>1, <2>1
  <2>3. f[k + 1] = ApplyOperation(f[k], ops[k + 1])
    BY <1>5, <2>2
  <2>4. g[k + 1] = ApplyOperation(g[k], more[k + 1])
    BY <1>6, <2>2
  <2> QED BY <1>1, <2>2, <2>3, <2>4
<1>9. T = Nat
  <2> HIDE DEF T
  <2> QED BY <1>7, <1>8, Induct DEF T
<1>10. g[n] = f[n]
  BY <1>1, <1>9
<1>11. g[n + 1] = ApplyOperation(g[n], more[n + 1])
  <2>1. n + 1 \in 0..n + 1 /\ n + 1 # 0 /\ (n + 1) - 1 = n
    BY <1>1
  <2> QED BY <1>6, <2>1
<1> QED BY <1>1, <1>4, <1>10, <1>11 DEF more

LEMMA ApplyNothing ==
    ASSUME NEW d, NEW ops, Len(ops) \in Nat
    PROVE  Len(ops) = 0 => ApplyOperations(d, ops) = d
<1> DEFINE f == Steps(d, ops)
<1>1. f = [n \in 0..Len(ops) |-> IF n = 0 THEN d ELSE ApplyOperation(f[n - 1], ops[n])]
  BY StepsExist
<1> HIDE DEF f
<1>2. \A n \in 0..Len(ops) : f[n] = IF n = 0 THEN d ELSE ApplyOperation(f[n - 1], ops[n])
  BY <1>1, Zenon
<1>3. f[0] = d
  BY <1>2
<1> QED BY <1>3, ApplyIsLastStep DEF f

LEMMA ReplayOfNothing ==
    ASSUME NEW content
    PROVE  Replay(content, {}) = LoadFromString(content)
<1> DEFINE d == LoadFromString(content)
           s == SortOps({})
<1>1. s = <<>> /\ Len(s) = 0
  BY FS_EmptySet DEF SortOps
<1> HIDE DEF d, s
<1>2. ApplyOperations(d, s) = d
  <2>1. Len(s) \in Nat
    BY <1>1
  <2> QED BY <1>1, <2>1, ApplyNothing
<1> QED BY <1>2 DEF Replay, d, s

\* Applying an operation that comes after all others to the replay of these is
\* replaying it with them.
LEMMA ReplayOfLatest ==
    ASSUME NEW content, NEW log, NEW op, IsLog(log), IsLog(log \cup {op}),
           op \notin log, AllBefore(log, op)
    PROVE  Replay(content, log \cup {op}) = ApplyOperation(Replay(content, log), op)
<1> DEFINE d == LoadFromString(content)
           s == SortOps(log)
<1>1. SortOps(log \cup {op}) = Append(s, op)
  BY SortAppends
<1>2. s \in Seq(log \cup {op}) /\ op \in log \cup {op}
  <2>1. s \in Seq(log)
    BY SortEnumerates
  <2> QED BY <2>1
<1> HIDE DEF d, s
<1>3. ApplyOperations(d, Append(s, op)) = ApplyOperation(ApplyOperations(d, s), op)
  BY <1>2, ApplyAppends
<1> QED BY <1>1, <1>3 DEF Replay, d, s

\* An element more.
LEMMA ToSetOfAppend ==
    ASSUME NEW S, NEW q \in Seq(S), NEW x \in S
    PROVE  ToSet(Append(q, x)) = ToSet(q) \cup {x}
<1>1. /\ DOMAIN Append(q, x) = 1..Len(q) + 1 /\ DOMAIN q = 1..Len(q) /\ Len(q) \in Nat
      /\ \A i \in 1..Len(q) : Append(q, x)[i] = q[i]
      /\ Append(q, x)[Len(q) + 1] = x
  OBVIOUS
<1>2. \A i : i \in 1..Len(q) + 1 <=> i \in 1..Len(q) \/ i = Len(q) + 1
  BY <1>1
<1> QED BY <1>1, <1>2, Zenon DEF ToSet

(***************************************************************************)
(* Adding to a log                                                         *)
(***************************************************************************)
\* Where an id means one operation, dropping those whose id is known drops nothing
\* but duplicates.
LEMMA AddToLogIsUnion ==
    ASSUME NEW S, \A o, p \in S : o.id = p.id => o = p,
           NEW log \in SUBSET S, NEW ops \in Seq(S)
    PROVE  AddToLog(log, ops) = log \cup ToSet(ops)
<1>1. AddToLog(log, ops) \subseteq log \cup ToSet(ops)
  BY DEF AddToLog, ToSet
<1>2. ASSUME NEW o \in ToSet(ops), o \notin log
      PROVE  o \in AddToLog(log, ops)
  <2> DEFINE places == {k \in 1..Len(ops) : ops[k] = o}
  <2>1. Len(ops) \in Nat /\ DOMAIN ops = 1..Len(ops) /\ \A k \in 1..Len(ops) : ops[k] \in S
    OBVIOUS
  <2>2. places \in SUBSET Nat /\ places # {}
    BY <2>1 DEF ToSet
  <2> HIDE DEF places
  <2>3. PICK k \in places : \A n \in places : k <= n
    BY <2>2, LeastNatural
  <2>4. k \in 1..Len(ops) /\ ops[k] = o
    BY <2>3 DEF places
  <2>5. \A p \in log \cup {ops[j] : j \in 1..k - 1} : p.id # ops[k].id
    <3> SUFFICES ASSUME NEW p \in log \cup {ops[j] : j \in 1..k - 1}, p.id = ops[k].id
                 PROVE  FALSE
      OBVIOUS
    <3>1. CASE p \in log
      BY <1>2, <2>1, <2>4, <3>1
    <3>2. CASE \E j \in 1..k - 1 : p = ops[j]
      <4>1. PICK j \in 1..k - 1 : p = ops[j]
        BY <3>2
      <4>2. j \in 1..Len(ops) /\ j < k
        BY <2>1, <2>4
      <4>3. ops[j] = o
        BY <2>1, <2>4, <4>1, <4>2
      <4>4. j \in places
        BY <4>2, <4>3 DEF places
      <4> QED BY <2>1, <2>3, <2>4, <4>2, <4>4
    <3> QED BY <3>1, <3>2
  <2> QED BY <2>1, <2>4, <2>5 DEF AddToLog
<1>3. log \subseteq AddToLog(log, ops)
  BY DEF AddToLog
<1> QED BY <1>1, <1>2, <1>3

(***************************************************************************)
(* What can be read                                                        *)
(***************************************************************************)
\* The latest time of some operations and n.
LEMMA LatestIsLatest ==
    ASSUME NEW ops, ops \subseteq Op, IsFiniteSet(ops), NEW n \in Nat
    PROVE  LET all == {n} \cup {o.ts : o \in ops}
           IN  /\ Max(all) \in Nat /\ n <= Max(all) /\ \A o \in ops : o.ts <= Max(all)
               /\ Max(all) = n \/ \E o \in ops : o.ts = Max(all)
<1> DEFINE times == {o.ts : o \in ops}
           time == [o \in ops |-> o.ts]
           all == {n} \cup times
<1>1. time \in Surjection(ops, times)
  BY DEF Surjection
<1>2. IsFiniteSet(times)
  BY <1>1, FS_Surjection
<1>3. times \in SUBSET Nat /\ \A o \in ops : o.ts \in times
  BY DEF Op
<1> HIDE DEF times
<1>4. IsFiniteSet(all)
  <2>1. IsFiniteSet(times \cup {n})
    BY <1>2, FS_AddElement
  <2>2. all = times \cup {n}
    OBVIOUS
  <2> QED BY <2>1, <2>2
<1>5. all \in SUBSET Nat /\ all # {} /\ n \in all /\ \A o \in ops : o.ts \in all
  BY <1>3
<1> HIDE DEF all
<1>6. Max(all) \in all /\ \A x \in all : x <= Max(all)
  BY <1>4, <1>5, MaxOfNaturals
<1>7. Max(all) \in Nat /\ n <= Max(all) /\ \A o \in ops : o.ts <= Max(all)
  BY <1>5, <1>6
<1>8. Max(all) = n \/ \E o \in ops : o.ts = Max(all)
  BY <1>6 DEF all, times
<1> QED BY <1>7, <1>8 DEF all, times

\* Only entries of the document are visible, and never the head.
LEMMA VisibleAreThere ==
    ASSUME NEW d, InSync(d)
    PROVE  /\ Visible(d) \in Seq(Entry) /\ VisibleCharCount(d) \in Nat
           /\ \A j \in 1..Len(Visible(d)) : /\ Visible(d)[j].id \in DOMAIN d.index
                                             /\ Visible(d)[j].id # HeadID
                                             /\ Visible(d)[j].id \in ID
<1> DEFINE v == Visible(d)
<1>1. /\ v \in Seq(Entry)
      /\ \A e : (\E j \in 1..Len(v) : v[j] = e) <=> e \in EntriesOf(d) /\ Shows(e)
  <2>1. d.chars \in Seq(Entry)
    BY DEF InSync, IsDocument
  <2>2. \A i, j \in 1..Len(d.chars) : d.chars[i].id = d.chars[j].id => i = j
    BY DEF InSync
  <2> QED BY <2>1, <2>2, VisibleEnumerates
<1> HIDE DEF v
<1>2. ASSUME NEW j \in 1..Len(v)
      PROVE  v[j].id \in DOMAIN d.index /\ v[j].id # HeadID /\ v[j].id \in ID
  <2> DEFINE e == v[j]
  <2>1. e \in Entry /\ \E k \in 1..Len(v) : v[k] = e
    BY <1>1
  <2> HIDE DEF e
  <2>2. e \in EntriesOf(d) /\ Shows(e)
    BY <1>1, <2>1
  <2>3. e.id \in DOMAIN d.index
    BY <2>2 DEF EntriesOf, InSync
  <2>4. e.id # HeadID /\ e.id \in ID
    BY <2>1, <2>2 DEF Shows, IsHead, Entry
  <2> QED BY <2>3, <2>4 DEF e
<1>3. Len(v) \in Nat
  BY <1>1
<1> QED BY <1>1, <1>2, <1>3 DEF v, VisibleCharCount

LEMMA VisibleIDIsThere ==
    ASSUME NEW d, InSync(d), NEW pos \in Int
    PROVE  /\ VisibleCharID(d, pos) \in DOMAIN d.index \cap ID
           /\ pos \in 0..VisibleCharCount(d) - 1 => VisibleCharID(d, pos) # HeadID
<1>1. HeadID \in DOMAIN d.index /\ HeadID \in ID
  BY Places DEF HeadID, ID
<1>2. CASE 0 <= pos /\ pos < Len(Visible(d))
  <2>1. pos + 1 \in 1..Len(Visible(d))
    BY <1>2, VisibleAreThere
  <2> QED BY <1>2, <2>1, VisibleAreThere DEF VisibleCharID
<1>3. CASE ~(0 <= pos /\ pos < Len(Visible(d)))
  <2>1. VisibleCharID(d, pos) = HeadID
    BY <1>3 DEF VisibleCharID
  <2>2. pos \notin 0..VisibleCharCount(d) - 1
    BY <1>3, VisibleAreThere DEF VisibleCharCount
  <2> QED BY <1>1, <2>1, <2>2
<1> QED BY <1>2, <1>3

LEMMA PositionIsNumber ==
    ASSUME NEW d, InSync(d), NEW id
    PROVE  PositionOfCharID(d, id) \in Nat \cup {-1}
<1> DEFINE i == FindByID(d, id)
           before == {j \in 2..i-1 : ~d.chars[j].deleted}
<1>1. i \in Nat
  BY Places DEF FindByID
<1>2. Cardinality(before) \in Nat
  <2>1. IsFiniteSet(2..i - 1)
    BY <1>1, FS_Interval
  <2>2. before \in SUBSET (2..i - 1)
    OBVIOUS
  <2> HIDE DEF before
  <2> QED BY <2>1, <2>2, FS_Subset, FS_CardinalityType
<1> HIDE DEF before
<1>3. PositionOfCharID(d, id) \in {0, -1, Cardinality(before)}
  BY DEF PositionOfCharID, before
<1> QED BY <1>2, <1>3

\* A loaded text reads as what was loaded.
LEMMA TextOfLoaded ==
    ASSUME NEW content \in Seq(Glyph)
    PROVE  Text(LoadFromString(content)) = content
<1> DEFINE d     == LoadFromString(content)
           len   == Len(content)
           head  == [id |-> HeadID, ch |-> NoChar, stamp |-> NoStamp, deleted |-> TRUE]
           base  == [n \in 1..Len(content) |->
                       [id |-> BaseChar(n), ch |-> content[n], stamp |-> NoStamp,
                        deleted |-> FALSE]]
           chars == d.chars
           f     == UpTo(chars)
           Good(n, v) == /\ v \in Seq(Entry) /\ Len(v) = n
                         /\ \A i \in 1..n : v[i].ch = content[i]
           T == {n \in Nat : n <= len => Good(n, f[n + 1])}
<1>1. len \in Nat /\ \A n \in 1..len : content[n] \in Glyph
  OBVIOUS
<1>2. ~Shows(head)
  BY DEF Shows
<1>3. \A n \in 1..len : base[n].ch = content[n] /\ Shows(base[n])
  BY DEF Shows, IsHead, BaseChar, HeadID
<1>4. \A n \in 1..len : base[n] \in Entry
  <2>1. NoStamp \in [ts : Nat, user : Nat] /\ \A n \in 1..len : BaseChar(n) \in ID
    BY <1>1 DEF NoStamp, BaseChar, ID
  <2> QED BY <1>1, <2>1 DEF Entry
<1>5. base \in Seq(Entry) /\ Len(base) = len
  <2>1. base = [n \in 1..len |-> base[n]]
    OBVIOUS
  <2> HIDE DEF base
  <2> QED BY <1>1, <1>4, <2>1, IsASeq
<1>6. chars = <<head>> \o base
  BY DEF LoadFromString
<1>7. Visible(d) = f[Len(chars)]
  BY VisibleIsLast
<1> HIDE DEF d, chars, head, base, len
<1>8. Len(chars) = len + 1 /\ chars[1] = head /\ \A n \in 1..len : chars[n + 1] = base[n]
  BY <1>1, <1>5, <1>6
<1>9. \A n \in 0..len + 1 :
          f[n] = IF n = 0 THEN <<>>
                 ELSE IF Shows(chars[n]) THEN Append(f[n - 1], chars[n]) ELSE f[n - 1]
  <2>1. Len(chars) \in Nat
    BY <1>1, <1>8
  <2>2. f = [n \in 0..Len(chars) |->
               IF n = 0 THEN <<>>
               ELSE IF Shows(chars[n]) THEN Append(f[n - 1], chars[n]) ELSE f[n - 1]]
    BY <2>1, UpToExists
  <2> HIDE DEF f
  <2> QED BY <1>8, <2>2, Zenon
<1> HIDE DEF f
<1>10. 0 \in T
  <2>1. f[0] = <<>> /\ f[0 + 1] = f[0]
    BY <1>1, <1>2, <1>8, <1>9
  <2>2. Good(0, <<>>)
    OBVIOUS
  <2> HIDE DEF Good
  <2> QED BY <2>1, <2>2
<1>11. ASSUME NEW n \in T
       PROVE  n + 1 \in T
  <2>1. n \in Nat /\ n + 1 \in Nat /\ (n + 1) + 1 = n + 2
    OBVIOUS
  <2> SUFFICES ASSUME n + 1 <= len
               PROVE  Good(n + 1, f[n + 2])
    BY <2>1
  <2>2. Good(n, f[n + 1])
    BY <1>1, <2>1
  <2> DEFINE e == base[n + 1]
             v == f[n + 1]
  <2>3. e \in Entry /\ e.ch = content[n + 1] /\ Shows(e) /\ chars[n + 2] = e
    BY <1>1, <1>3, <1>4, <1>8, <2>1
  <2>4. n + 2 \in 0..len + 1 /\ n + 2 # 0 /\ (n + 2) - 1 = n + 1
    BY <1>1, <2>1
  <2>5. f[n + 2] = Append(f[n + 1], e)
    BY <1>9, <2>3, <2>4
  <2>6. v \in Seq(Entry) /\ Len(v) = n /\ \A i \in 1..n : v[i].ch = content[i]
    BY <2>2
  <2> HIDE DEF e, v
  <2>7. /\ Append(v, e) \in Seq(Entry) /\ Len(Append(v, e)) = n + 1
        /\ \A i \in 1..n : Append(v, e)[i] = v[i]
        /\ Append(v, e)[n + 1] = e
    BY <2>1, <2>3, <2>6
  <2>8. Good(n + 1, Append(v, e))
    <3>1. \A i \in 1..n + 1 : i \in 1..n \/ i = n + 1
      BY <2>1
    <3> QED BY <2>3, <2>6, <2>7, <3>1
  <2> HIDE DEF Good
  <2> QED BY <2>5, <2>8 DEF v
<1>12. T = Nat
  <2> HIDE DEF T
  <2> QED BY <1>10, <1>11, Induct DEF T
<1>13. Good(len, f[len + 1])
  <2>1. len \in T
    BY <1>1, <1>12
  <2> HIDE DEF Good
  <2> QED BY <1>1, <2>1
<1> DEFINE v == Visible(d)
<1>14. /\ v \in Seq(Entry) /\ Len(v) = len
       /\ \A i \in 1..len : v[i].ch = content[i]
  BY <1>7, <1>8, <1>13
<1> HIDE DEF v
<1>15. [i \in 1..Len(v) |-> v[i].ch] = content
  BY <1>1, <1>14 DEF len
<1> QED BY <1>15 DEF Text, v, d

\* The entries that show among the first n.
Showing(chars, n) == {j \in 1..n : Shows(chars[j])}

LEMMA ShowingGrows ==
    ASSUME NEW chars, NEW n \in Nat
    PROVE  /\ IsFiniteSet(Showing(chars, n)) /\ Cardinality(Showing(chars, n)) \in Nat
           /\ Cardinality(Showing(chars, 0)) = 0
           /\ Cardinality(Showing(chars, n + 1)) =
                IF Shows(chars[n + 1]) THEN Cardinality(Showing(chars, n)) + 1
                ELSE Cardinality(Showing(chars, n))
<1>1. IsFiniteSet(Showing(chars, n)) /\ Cardinality(Showing(chars, n)) \in Nat
  <2>1. IsFiniteSet(1..n) /\ Showing(chars, n) \subseteq 1..n
    BY FS_Interval DEF Showing
  <2> QED BY <2>1, FS_Subset, FS_CardinalityType
<1>2. Showing(chars, 0) = {}
  BY DEF Showing
<1>3. Cardinality(Showing(chars, 0)) = 0
  BY <1>2, FS_EmptySet
<1>4. CASE Shows(chars[n + 1])
  <2>1. Showing(chars, n + 1) = Showing(chars, n) \cup {n + 1}
    BY <1>4 DEF Showing
  <2>2. n + 1 \notin Showing(chars, n)
    BY DEF Showing
  <2>3. Cardinality(Showing(chars, n) \cup {n + 1}) = Cardinality(Showing(chars, n)) + 1
    BY <1>1, <2>2, FS_AddElement
  <2> QED BY <1>1, <1>3, <1>4, <2>1, <2>3
<1>5. CASE ~Shows(chars[n + 1])
  <2>1. Showing(chars, n + 1) = Showing(chars, n)
    BY <1>5 DEF Showing
  <2> QED BY <1>1, <1>3, <1>5, <2>1
<1> QED BY <1>4, <1>5

\* An entry that shows stands, among the visible ones, behind those that show
\* before it.
LEMMA VisibleIsCounted ==
    ASSUME NEW d, d.chars \in Seq(Entry)
    PROVE  /\ Len(Visible(d)) = Cardinality(Showing(d.chars, Len(d.chars)))
           /\ \A i \in 1..Len(d.chars) :
                Shows(d.chars[i]) =>
                  LET p == Cardinality(Showing(d.chars, i - 1))
                  IN  p + 1 \in 1..Len(Visible(d)) /\ Visible(d)[p + 1] = d.chars[i]
<1> DEFINE chars == d.chars
           f == UpTo(chars)
           N(n) == Cardinality(Showing(chars, n))
           Good(n, v) ==
             /\ v \in Seq(Entry) /\ Len(v) = N(n)
             /\ \A i \in 1..n : Shows(chars[i]) =>
                  N(i - 1) + 1 \in 1..Len(v) /\ v[N(i - 1) + 1] = chars[i]
           T == {n \in Nat : n <= Len(chars) => Good(n, f[n])}
<1>1. Len(chars) \in Nat /\ \A i \in 1..Len(chars) : chars[i] \in Entry
  OBVIOUS
<1>2. Visible(d) = f[Len(chars)]
  BY VisibleIsLast
<1>3. \A n \in 0..Len(chars) :
          f[n] = IF n = 0 THEN <<>>
                 ELSE IF Shows(chars[n]) THEN Append(f[n - 1], chars[n]) ELSE f[n - 1]
  <2>1. f = [n \in 0..Len(chars) |->
               IF n = 0 THEN <<>>
               ELSE IF Shows(chars[n]) THEN Append(f[n - 1], chars[n]) ELSE f[n - 1]]
    BY <1>1, UpToExists
  <2> HIDE DEF f, chars
  <2> QED BY <2>1, Zenon
<1>4. \A n \in Nat : /\ N(n) \in Nat
                     /\ N(n + 1) = IF Shows(chars[n + 1]) THEN N(n) + 1 ELSE N(n)
  BY ShowingGrows
<1>5. N(0) = 0
  BY ShowingGrows
<1> HIDE DEF f, chars, N
<1>6. 0 \in T
  <2>1. f[0] = <<>>
    BY <1>1, <1>3
  <2>2. Good(0, <<>>)
    BY <1>5
  <2> HIDE DEF Good
  <2> QED BY <2>1, <2>2
<1>7. ASSUME NEW n \in T
      PROVE  n + 1 \in T
  <2>1. n \in Nat /\ n + 1 \in Nat
    OBVIOUS
  <2> SUFFICES ASSUME n + 1 <= Len(chars)
               PROVE  Good(n + 1, f[n + 1])
    BY <2>1
  <2> DEFINE e == chars[n + 1]
             v == f[n]
  <2>2. /\ v \in Seq(Entry) /\ Len(v) = N(n)
        /\ \A i \in 1..n : Shows(chars[i]) =>
             N(i - 1) + 1 \in 1..Len(v) /\ v[N(i - 1) + 1] = chars[i]
    BY <1>1, <2>1
  <2>3. e \in Entry
    BY <1>1, <2>1
  <2>4. f[n + 1] = IF Shows(e) THEN Append(v, e) ELSE v
    <3>1. n + 1 \in 0..Len(chars) /\ n + 1 # 0 /\ (n + 1) - 1 = n
      BY <1>1, <2>1
    <3> QED BY <1>3, <3>1
  <2>5. N(n) \in Nat /\ N(n + 1) = IF Shows(e) THEN N(n) + 1 ELSE N(n)
    BY <1>4, <2>1
  <2>6. \A i \in 1..n + 1 : i \in 1..n \/ (i = n + 1 /\ i - 1 = n)
    BY <2>1
  <2>7. e = chars[n + 1]
    OBVIOUS
  <2> HIDE DEF e, v
  <2>8. CASE Shows(e)
    <3>1. /\ Append(v, e) \in Seq(Entry) /\ Len(Append(v, e)) = N(n) + 1
          /\ \A i \in 1..Len(v) : Append(v, e)[i] = v[i]
          /\ Append(v, e)[N(n) + 1] = e
      BY <2>2, <2>3, <2>5
    <3>2. \A i \in 1..Len(v) : i \in 1..N(n) + 1
      BY <2>2, <2>5
    <3>3. N(n) + 1 \in 1..N(n) + 1
      BY <2>5
    <3>4. Good(n + 1, Append(v, e))
      BY <2>2, <2>5, <2>6, <2>7, <2>8, <3>1, <3>2, <3>3
    <3> QED BY <2>4, <2>8, <3>4
  <2>9. CASE ~Shows(e)
    <3>1. Good(n + 1, v)
      BY <2>2, <2>5, <2>6, <2>7, <2>9
    <3> QED BY <2>4, <2>9, <3>1
  <2> QED BY <2>8, <2>9
<1>8. T = Nat
  <2> HIDE DEF T
  <2> QED BY <1>6, <1>7, Induct DEF T
<1>9. Good(Len(chars), f[Len(chars)])
  <2>1. Len(chars) \in T
    BY <1>1, <1>8
  <2> HIDE DEF Good
  <2> QED BY <1>1, <2>1
<1> QED BY <1>2, <1>9 DEF chars, N

\* Only the sentinel counts as the head.
OneHead(d) == \A id \in DOMAIN d.index : IsHead(id) => id = HeadID

\* The position of a character is that of a visible one, and this is the one
\* found there.
LEMMA PositionIsVisible ==
    ASSUME NEW d, InSync(d), OneHead(d), NEW id, ~IsHead(id),
           PositionOfCharID(d, id) >= 0
    PROVE  /\ PositionOfCharID(d, id) \in 0..VisibleCharCount(d) - 1
           /\ VisibleCharID(d, PositionOfCharID(d, id)) = id
<1> DEFINE i == FindByID(d, id)
           chars == d.chars
<1>1. /\ i \in 1..Len(chars) /\ chars[i].id = id /\ ~chars[i].deleted
      /\ PositionOfCharID(d, id) = Cardinality({j \in 2..i - 1 : ~chars[j].deleted})
  <2>1. i # 0 /\ ~chars[i].deleted
        /\ PositionOfCharID(d, id) = Cardinality({j \in 2..i - 1 : ~chars[j].deleted})
    BY DEF PositionOfCharID
  <2>2. id \in DOMAIN d.index /\ i = d.index[id]
    BY <2>1 DEF FindByID
  <2>3. \E k \in 1..Len(chars) : chars[k].id = id
    BY <2>2 DEF InSync
  <2>4. PICK k \in 1..Len(chars) : chars[k].id = id
    BY <2>3
  <2>5. d.index[chars[k].id] = k
    BY DEF InSync
  <2> HIDE DEF i, chars
  <2> QED BY <2>1, <2>2, <2>4, <2>5
<1>2. Shows(chars[i])
  BY <1>1 DEF Shows
<1>3. Len(chars) \in Nat /\ chars[1].deleted /\ chars \in Seq(Entry)
  BY DEF InSync, IsDocument
<1>4. \A j \in 2..Len(chars) : ~IsHead(chars[j].id)
  <2> SUFFICES ASSUME NEW j \in 2..Len(chars), IsHead(chars[j].id) PROVE FALSE
    OBVIOUS
  <2>1. j \in 1..Len(chars) /\ j # 1 /\ 1 \in 1..Len(chars)
    BY <1>3
  <2>2. chars[j].id \in DOMAIN d.index
    BY <2>1 DEF InSync
  <2>3. chars[j].id = HeadID /\ chars[1].id = HeadID
    BY <2>2 DEF OneHead, InSync
  <2>4. d.index[chars[j].id] = j /\ d.index[chars[1].id] = 1
    BY <2>1 DEF InSync
  <2> HIDE DEF chars
  <2> QED BY <2>1, <2>3, <2>4
<1> HIDE DEF i, chars
<1>5. {j \in 2..i - 1 : ~chars[j].deleted} = Showing(chars, i - 1)
  <2>1. \A j : j \in 2..i - 1 <=> j \in 1..i - 1 /\ j # 1
    BY <1>1, <1>3
  <2>2. \A j \in 2..i - 1 : ~IsHead(chars[j].id)
    BY <1>1, <1>3, <1>4
  <2> QED BY <1>3, <2>1, <2>2 DEF Showing, Shows
<1>6. LET p == Cardinality(Showing(chars, i - 1))
      IN  p + 1 \in 1..Len(Visible(d)) /\ Visible(d)[p + 1] = chars[i]
  BY <1>1, <1>2, <1>3, VisibleIsCounted DEF chars
<1> DEFINE p == Cardinality(Showing(chars, i - 1))
<1>7. p \in Nat
  <2>1. i - 1 \in Nat
    BY <1>1, <1>3
  <2> QED BY <2>1, ShowingGrows
<1>8. PositionOfCharID(d, id) = p /\ p + 1 \in 1..Len(Visible(d)) /\ Visible(d)[p + 1].id = id
  BY <1>1, <1>5, <1>6
<1> HIDE DEF p
<1>9. Len(Visible(d)) \in Nat
  BY VisibleAreThere DEF VisibleCharCount
<1> QED BY <1>7, <1>8, <1>9 DEF VisibleCharCount, VisibleCharID

(***************************************************************************)
(* Where stamps and tombstones come from                                   *)
(***************************************************************************)
\* Whatever the order: a stamp is of the file or of an operation, and a deleted
\* character was so before or is named by a deletion.
Left(d, ops, n, s) ==
    \A x \in EntriesOf(s) :
        /\ \/ \E y \in EntriesOf(d) : x.stamp = y.stamp
           \/ \E k \in 1..n : x.stamp = Stamp(ops[k])
        /\ x.deleted => \/ \E y \in EntriesOf(d) : y.id = x.id /\ y.deleted
                        \/ \E k \in 1..n : IsDelete(ops[k]) /\ ops[k].ref = x.id

LEMMA OperationsLeave ==
    ASSUME NEW d, InSync(d), NEW ops, Fresh(d, ops)
    PROVE  Left(d, ops, Len(ops), ApplyOperations(d, ops))
<1> DEFINE f == Steps(d, ops)
           T == {n \in Nat : n <= Len(ops) => Placed(d, ops, n, f[n]) /\ Left(d, ops, n, f[n])}
<1>0. Len(ops) \in Nat /\ \A k \in 1..Len(ops) : ops[k] \in Op
  BY DEF Fresh
<1>1. f = [n \in 0..Len(ops) |->
              IF n = 0 THEN d ELSE ApplyOperation(f[n - 1], ops[n])]
  BY <1>0, StepsExist
<1> HIDE DEF f
<1>2. f[0] = d /\ \A n \in Nat : n < Len(ops) => f[n + 1] = ApplyOperation(f[n], ops[n + 1])
  <2>1. \A n \in 0..Len(ops) :
           f[n] = IF n = 0 THEN d ELSE ApplyOperation(f[n - 1], ops[n])
    BY <1>1, Zenon
  <2> QED BY <1>0, <2>1
<1>3. 0 \in T
  BY <1>2 DEF Placed, There, Left
<1>4. ASSUME NEW n \in T
      PROVE  n + 1 \in T
  <2>1. n \in Nat /\ n + 1 \in Nat
    OBVIOUS
  <2> SUFFICES ASSUME n + 1 <= Len(ops)
               PROVE  Placed(d, ops, n + 1, f[n + 1]) /\ Left(d, ops, n + 1, f[n + 1])
    BY <2>1
  <2>2. n < Len(ops) /\ Placed(d, ops, n, f[n]) /\ Left(d, ops, n, f[n])
    BY <1>0, <2>1
  <2>3. f[n + 1] = ApplyOperation(f[n], ops[n + 1])
    BY <1>2, <2>1, <2>2
  <2>4. Placed(d, ops, n + 1, f[n + 1])
    BY <2>1, <2>2, <2>3, PlacedNext
  <2> DEFINE op == ops[n + 1]
             s  == f[n]
  <2>5. n + 1 \in 1..Len(ops) /\ op \in Op /\ InSync(s) /\ op.id \notin s.applied
    <3>1. n + 1 \in 1..Len(ops) /\ \A k \in 1..n : k \in 1..Len(ops) /\ k # n + 1
      BY <1>0, <2>1, <2>2
    <3> QED BY <1>0, <2>2, <3>1 DEF Placed, Fresh
  <2>6. Changed(s, op, f[n + 1])
    BY <2>3, <2>5, ApplyChanges
  <2>7. n + 1 \in 1..n + 1 /\ \A k \in 1..n : k \in 1..n + 1
    BY <2>1
  <2>8. ASSUME NEW x \in EntriesOf(f[n + 1])
        PROVE  /\ \/ \E y \in EntriesOf(d) : x.stamp = y.stamp
                  \/ \E k \in 1..n + 1 : x.stamp = Stamp(ops[k])
               /\ x.deleted => \/ \E y \in EntriesOf(d) : y.id = x.id /\ y.deleted
                               \/ \E k \in 1..n + 1 : IsDelete(ops[k]) /\ ops[k].ref = x.id
    <3>1. CASE x \in EntriesOf(s)
      BY <2>2, <2>7, <3>1 DEF Left
    <3>2. CASE x.stamp = Stamp(op) /\ (x.deleted => IsDelete(op) /\ x.id = op.ref)
      BY <2>7, <3>2
    <3> QED BY <2>6, <3>1, <3>2 DEF Changed
  <2> QED BY <2>4, <2>8 DEF Left
<1>5. T = Nat
  <2> HIDE DEF T
  <2> QED BY <1>3, <1>4, Induct DEF T
<1>6. Left(d, ops, Len(ops), f[Len(ops)])
  BY <1>0, <1>5
<1> QED BY <1>6, ApplyIsLastStep DEF f

LEMMA ReplayLeaves ==
    ASSUME NEW content \in Seq(Glyph), NEW log, IsLog(log),
           NEW x \in EntriesOf(Replay(content, log))
    PROVE  /\ x.stamp = NoStamp \/ \E o \in log : x.stamp = Stamp(o)
           /\ x.deleted => x.id = HeadID \/ \E o \in log : IsDelete(o) /\ o.ref = x.id
<1> DEFINE d == LoadFromString(content)
           s == SortOps(log)
<1>1. InSync(d) /\ Unmarked(d)
  BY LoadInSync, LoadUnmarked
<1>2. Fresh(d, s) /\ \A k \in 1..Len(s) : s[k] \in log
  BY SortedIsFresh
<1>3. Replay(content, log) = ApplyOperations(d, s)
  BY DEF Replay
<1> HIDE DEF d, s
<1>4. Left(d, s, Len(s), ApplyOperations(d, s))
  BY <1>1, <1>2, OperationsLeave
<1> QED BY <1>1, <1>2, <1>3, <1>4 DEF Left, Unmarked

(***************************************************************************)
(* Which characters there are                                              *)
(***************************************************************************)
\* The characters that log inserts.
Inserted(log) == {o.ch : o \in {p \in log : IsInsert(p)}}

LEMMA LoadedChars ==
    ASSUME NEW content \in Seq(Glyph)
    PROVE  Chars(LoadFromString(content)) = {NoChar} \cup ToSet(content)
<1> DEFINE d    == LoadFromString(content)
           head == [id |-> HeadID, ch |-> NoChar, stamp |-> NoStamp, deleted |-> TRUE]
           base == [n \in 1..Len(content) |->
                      [id |-> BaseChar(n), ch |-> content[n], stamp |-> NoStamp,
                       deleted |-> FALSE]]
           len  == Len(content)
<1>1. len \in Nat /\ DOMAIN content = 1..len
  OBVIOUS
<1>2. base \in Seq({base[n] : n \in 1..len}) /\ Len(base) = len
  <2> DEFINE all == {base[n] : n \in 1..len}
  <2>1. base = [n \in 1..len |-> base[n]] /\ \A n \in 1..len : base[n] \in all
    OBVIOUS
  <2> HIDE DEF base, all, len
  <2> QED BY <1>1, <2>1, IsASeq DEF all
<1>3. head.ch = NoChar /\ \A n \in 1..len : base[n].ch = content[n]
  OBVIOUS
<1>4. d.chars = <<head>> \o base
  BY DEF LoadFromString
<1> HIDE DEF d, head, base, len
<1>5. /\ Len(d.chars) = len + 1 /\ d.chars[1] = head
      /\ \A n \in 1..len : d.chars[n + 1] = base[n]
  BY <1>1, <1>2, <1>4
<1>6. \A k \in 1..len + 1 : k = 1 \/ (k - 1 \in 1..len /\ (k - 1) + 1 = k)
  BY <1>1
<1>7. 1 \in 1..len + 1 /\ \A n \in 1..len : n + 1 \in 1..len + 1
  BY <1>1
<1>8. Chars(d) \subseteq {NoChar} \cup ToSet(content)
  <2> SUFFICES ASSUME NEW k \in 1..len + 1 PROVE d.chars[k].ch \in {NoChar} \cup ToSet(content)
    BY <1>5 DEF Chars, EntriesOf
  <2>1. CASE k = 1
    BY <1>3, <1>5, <2>1
  <2>2. CASE k # 1
    <3>1. k - 1 \in 1..len /\ d.chars[k].ch = content[k - 1]
      BY <1>3, <1>5, <1>6, <2>2
    <3> QED BY <1>1, <3>1 DEF ToSet
  <2> QED BY <2>1, <2>2
<1>9. NoChar \in Chars(d)
  BY <1>3, <1>5, <1>7 DEF Chars, EntriesOf
<1>10. ToSet(content) \subseteq Chars(d)
  <2> SUFFICES ASSUME NEW n \in 1..len PROVE content[n] \in Chars(d)
    BY <1>1 DEF ToSet
  <2>1. n + 1 \in 1..Len(d.chars) /\ d.chars[n + 1].ch = content[n]
    BY <1>3, <1>5, <1>7
  <2> QED BY <2>1 DEF Chars, EntriesOf
<1> QED BY <1>8, <1>9, <1>10 DEF d

LEMMA OperationsChars ==
    ASSUME NEW d, InSync(d), NEW ops, Fresh(d, ops)
    PROVE  Chars(ApplyOperations(d, ops)) = Chars(d) \cup Inserted(ToSet(ops))
<1> DEFINE f == Steps(d, ops)
           So(n) == {ops[k] : k \in 1..n}
           T == {n \in Nat : n <= Len(ops) =>
                    Placed(d, ops, n, f[n]) /\ Chars(f[n]) = Chars(d) \cup Inserted(So(n))}
<1>0. Len(ops) \in Nat /\ DOMAIN ops = 1..Len(ops) /\ \A k \in 1..Len(ops) : ops[k] \in Op
  BY DEF Fresh
<1>1. f = [n \in 0..Len(ops) |->
              IF n = 0 THEN d ELSE ApplyOperation(f[n - 1], ops[n])]
  BY <1>0, StepsExist
<1> HIDE DEF f
<1>2. f[0] = d /\ \A n \in Nat : n < Len(ops) => f[n + 1] = ApplyOperation(f[n], ops[n + 1])
  <2>1. \A n \in 0..Len(ops) :
           f[n] = IF n = 0 THEN d ELSE ApplyOperation(f[n - 1], ops[n])
    BY <1>1, Zenon
  <2> QED BY <1>0, <2>1
<1>3. 0 \in T
  BY <1>2 DEF Placed, There, Inserted
<1>4. ASSUME NEW n \in T
      PROVE  n + 1 \in T
  <2>1. n \in Nat /\ n + 1 \in Nat
    OBVIOUS
  <2> SUFFICES ASSUME n + 1 <= Len(ops)
               PROVE  /\ Placed(d, ops, n + 1, f[n + 1])
                      /\ Chars(f[n + 1]) = Chars(d) \cup Inserted(So(n + 1))
    BY <2>1
  <2>2. n < Len(ops) /\ Placed(d, ops, n, f[n]) /\ Chars(f[n]) = Chars(d) \cup Inserted(So(n))
    BY <1>0, <2>1
  <2>3. f[n + 1] = ApplyOperation(f[n], ops[n + 1])
    BY <1>2, <2>1, <2>2
  <2>4. Placed(d, ops, n + 1, f[n + 1])
    BY <2>1, <2>2, <2>3, PlacedNext
  <2> DEFINE op == ops[n + 1]
             s  == f[n]
  <2>5. n + 1 \in 1..Len(ops) /\ op \in Op /\ InSync(s) /\ op.id \notin s.applied
    <3>1. n + 1 \in 1..Len(ops) /\ \A k \in 1..n : k \in 1..Len(ops) /\ k # n + 1
      BY <1>0, <2>1, <2>2
    <3> QED BY <1>0, <2>2, <3>1 DEF Placed, Fresh
  <2>6. Chars(f[n + 1]) = Chars(s) \cup Inserted({op})
    <3>1. Alters(s, op, ApplyOperation(s, op))
      BY <2>5, ApplyAlters
    <3> QED BY <2>3, <3>1 DEF Alters, Inserted
  <2>7. So(n + 1) = So(n) \cup {op}
    <3>1. \A k : k \in 1..n + 1 <=> k \in 1..n \/ k = n + 1
      BY <2>1
    <3> QED BY <3>1
  <2> HIDE DEF op, So
  <2>8. Inserted(So(n + 1)) = Inserted(So(n)) \cup Inserted({op})
    BY <2>7 DEF Inserted
  <2> QED BY <2>2, <2>4, <2>6, <2>8
<1>5. T = Nat
  <2> HIDE DEF T
  <2> QED BY <1>3, <1>4, Induct DEF T
<1>6. So(Len(ops)) = ToSet(ops)
  BY <1>0 DEF ToSet
<1> HIDE DEF So
<1>7. Chars(f[Len(ops)]) = Chars(d) \cup Inserted(So(Len(ops)))
  BY <1>0, <1>5
<1> QED BY <1>6, <1>7, ApplyIsLastStep DEF f

\* The characters of a replay, deleted ones included, are those of the file and of
\* the insertions of the log.
LEMMA ReplayChars ==
    ASSUME NEW content \in Seq(Glyph), NEW log, IsLog(log)
    PROVE  Chars(Replay(content, log)) = {NoChar} \cup ToSet(content) \cup Inserted(log)
<1> DEFINE d == LoadFromString(content)
           s == SortOps(log)
<1>1. InSync(d) /\ Chars(d) = {NoChar} \cup ToSet(content)
  BY LoadInSync, LoadedChars
<1>2. /\ Fresh(d, s) /\ Len(s) \in Nat
      /\ \A k \in 1..Len(s) : s[k] \in log
      /\ \A o \in log : \E k \in 1..Len(s) : s[k] = o
  BY SortedIsFresh
<1>3. Replay(content, log) = ApplyOperations(d, s)
  BY DEF Replay
<1> HIDE DEF d, s
<1>4. DOMAIN s = 1..Len(s)
  BY <1>2 DEF Fresh
<1>5. ToSet(s) = log
  BY <1>2, <1>4 DEF ToSet
<1>6. Chars(ApplyOperations(d, s)) = Chars(d) \cup Inserted(ToSet(s))
  BY <1>1, <1>2, OperationsChars
<1> QED BY <1>1, <1>3, <1>5, <1>6

\* toString has the characters of the entries that show.
LEMMA TextShows ==
    ASSUME NEW d, InSync(d)
    PROVE  ToSet(Text(d)) = CharsShown(d)
<1> DEFINE v == Visible(d)
<1>1. /\ v \in Seq(Entry)
      /\ \A e : (\E j \in 1..Len(v) : v[j] = e) <=> e \in EntriesOf(d) /\ Shows(e)
  <2>1. d.chars \in Seq(Entry)
    BY DEF InSync, IsDocument
  <2>2. \A i, j \in 1..Len(d.chars) : d.chars[i].id = d.chars[j].id => i = j
    BY DEF InSync
  <2> QED BY <2>1, <2>2, VisibleEnumerates
<1>2. Text(d) = [i \in 1..Len(v) |-> v[i].ch]
  BY DEF Text
<1> HIDE DEF v
<1>3. ToSet(Text(d)) = {v[i].ch : i \in 1..Len(v)}
  BY <1>2 DEF ToSet
<1> QED BY <1>1, <1>3 DEF CharsShown

\* Whatever is not shown is deleted.
LEMMA HiddenIsDeleted ==
    ASSUME NEW d, InSync(d), OneHead(d), NEW x \in EntriesOf(d), ~Shows(x)
    PROVE  x.deleted
<1>1. PICK k \in 1..Len(d.chars) : x = d.chars[k]
  BY DEF EntriesOf
<1>2. CASE IsHead(x.id)
  <2>1. x.id \in DOMAIN d.index /\ d.index[x.id] = k
    BY <1>1 DEF InSync
  <2>2. x.id = HeadID
    BY <1>2, <2>1 DEF OneHead
  <2>3. d.chars[1].id = HeadID /\ d.chars[1].deleted /\ 1 \in 1..Len(d.chars)
    BY DEF InSync, IsDocument
  <2>4. d.index[HeadID] = 1
    BY <2>3 DEF InSync
  <2> QED BY <1>1, <2>1, <2>2, <2>3, <2>4
<1> QED BY <1>2 DEF Shows

LEMMA ReplayOneHead ==
    ASSUME NEW content \in Seq(Glyph), NEW log, IsLog(log)
    PROVE  OneHead(Replay(content, log))
<1>1. DOMAIN Replay(content, log).index = Spoken(Len(content), log)
  BY ReplayIsDocument
<1>2. \A n : ~IsHead(BaseChar(n))
  BY DEF IsHead, BaseChar, HeadID
<1>3. \A o \in log : ~IsHead(o.id)
  <2>1. \A o \in Op : ~IsHead(o.id)
    BY DEF IsHead, HeadID, Op
  <2> QED BY <2>1 DEF IsLog
<1> QED BY <1>1, <1>2, <1>3 DEF OneHead, Spoken

LEMMA ApplyOneHead ==
    ASSUME NEW d, InSync(d), OneHead(d), NEW op \in Op
    PROVE  OneHead(ApplyOperation(d, op))
<1>1. Keeps(d, op, ApplyOperation(d, op))
  BY ApplyKeeps
<1>2. ~IsHead(op.id)
  BY DEF IsHead, HeadID, Op
<1> QED BY <1>1, <1>2 DEF Keeps, OneHead

-----------------------------------------------------------------------------
(***************************************************************************)
(* What an edit does to the text                                           *)
(***************************************************************************)
LEMMA RemoveAtIs ==
    ASSUME NEW S, NEW s \in Seq(S), NEW i \in 1..Len(s)
    PROVE  /\ RemoveAt(s, i) \in Seq(S) /\ Len(RemoveAt(s, i)) = Len(s) - 1
           /\ \A k \in 1..Len(s) - 1 :
                RemoveAt(s, i)[k] = IF k < i THEN s[k] ELSE s[k + 1]
<1> DEFINE left  == SubSeq(s, 1, i - 1)
           right == SubSeq(s, i + 1, Len(s))
<1>0. Len(s) \in Nat /\ \A k \in 1..Len(s) : s[k] \in S
  OBVIOUS
<1>1. /\ left \in Seq(S) /\ Len(left) = i - 1
      /\ \A k \in 1..i - 1 : left[k] = s[k]
  BY <1>0
<1>2. /\ right \in Seq(S) /\ Len(right) = Len(s) - i
      /\ \A k \in 1..Len(s) - i : right[k] = s[k + i]
  BY <1>0
<1>3. RemoveAt(s, i) = left \o right
  BY DEF RemoveAt
<1> HIDE DEF left, right
<1>4. /\ left \o right \in Seq(S)
      /\ Len(left \o right) = Len(left) + Len(right)
      /\ \A k \in 1..Len(left) + Len(right) :
            (left \o right)[k] = IF k <= Len(left) THEN left[k] ELSE right[k - Len(left)]
  BY <1>1, <1>2, ConcatProperties, Zenon
<1>5. Len(left) + Len(right) = Len(s) - 1
  BY <1>0, <1>1, <1>2
<1>6. \A k \in 1..Len(s) - 1 :
         (left \o right)[k] = IF k <= i - 1 THEN left[k] ELSE right[k - (i - 1)]
  BY <1>1, <1>4, <1>5
<1>7. ASSUME NEW k \in 1..Len(s) - 1
      PROVE  (left \o right)[k] = IF k < i THEN s[k] ELSE s[k + 1]
  <2>1. CASE k < i
    BY <1>0, <1>1, <1>6, <2>1
  <2>2. CASE ~(k < i)
    <3>1. k - (i - 1) \in 1..Len(s) - i /\ (k - (i - 1)) + i = k + 1 /\ ~(k <= i - 1)
      BY <1>0, <2>2
    <3> QED BY <1>2, <1>6, <2>2, <3>1
  <2> QED BY <2>1, <2>2
<1> QED BY <1>3, <1>4, <1>5, <1>7

LEMMA AppendIs ==
    ASSUME NEW S, NEW s \in Seq(S), NEW x \in S
    PROVE  /\ Append(s, x) \in Seq(S) /\ Len(Append(s, x)) = Len(s) + 1
           /\ \A k \in 1..Len(s) + 1 :
                Append(s, x)[k] = IF k <= Len(s) THEN s[k] ELSE x
  OBVIOUS

LEMMA InsertAtEnd ==
    ASSUME NEW S, NEW s \in Seq(S), NEW e \in S
    PROVE  InsertAt(s, Len(s) + 1, e) = Append(s, e)
<1> DEFINE t == InsertAt(s, Len(s) + 1, e)
           w == Append(s, e)
<1>0. Len(s) \in Nat /\ Len(s) + 1 \in 1..Len(s) + 1
  OBVIOUS
<1>1. Moved(S, s, Len(s) + 1, e)
  BY <1>0, InsertAtMoves
<1>2. /\ w \in Seq(S) /\ Len(w) = Len(s) + 1
      /\ \A k \in 1..Len(s) + 1 : w[k] = IF k <= Len(s) THEN s[k] ELSE e
  BY AppendIs
<1> HIDE DEF t, w
<1>3. \A k \in 1..Len(s) + 1 : t[k] = w[k]
  BY <1>0, <1>1, <1>2 DEF Moved, t
<1>4. t \in Seq(S) /\ Len(t) = Len(s) + 1
  BY <1>1 DEF Moved, t
<1>5. t = w
  BY <1>2, <1>3, <1>4, SeqEqual
<1> QED BY <1>5 DEF t, w

LEMMA InsertAtAppend ==
    ASSUME NEW S, NEW s \in Seq(S), NEW i \in 1..Len(s) + 1, NEW e \in S, NEW x \in S
    PROVE  InsertAt(Append(s, x), i, e) = Append(InsertAt(s, i, e), x)
<1> DEFINE a == Append(s, x)
           b == InsertAt(s, i, e)
           t == InsertAt(a, i, e)
           w == Append(b, x)
<1>0. Len(s) \in Nat /\ i \in Nat
  OBVIOUS
<1>1. /\ a \in Seq(S) /\ Len(a) = Len(s) + 1
      /\ \A k \in 1..Len(s) + 1 : a[k] = IF k <= Len(s) THEN s[k] ELSE x
  BY AppendIs
<1>2. /\ b \in Seq(S) /\ Len(b) = Len(s) + 1
      /\ \A k \in 1..Len(s) + 1 : b[k] = IF k < i THEN s[k] ELSE IF k = i THEN e ELSE s[k - 1]
  BY InsertAtMoves DEF Moved
<1> HIDE DEF a, b
<1>3. i \in 1..Len(a) + 1
  BY <1>0, <1>1
<1>4. /\ t \in Seq(S) /\ Len(t) = Len(a) + 1
      /\ \A k \in 1..Len(a) + 1 : t[k] = IF k < i THEN a[k] ELSE IF k = i THEN e ELSE a[k - 1]
  <2>1. Moved(S, a, i, e)
    BY <1>1, <1>3, InsertAtMoves
  <2> QED BY <2>1 DEF Moved
<1>5. /\ w \in Seq(S) /\ Len(w) = Len(b) + 1
      /\ \A k \in 1..Len(b) + 1 : w[k] = IF k <= Len(b) THEN b[k] ELSE x
  BY <1>2, AppendIs
<1> HIDE DEF t, w
<1>6. ASSUME NEW k \in 1..Len(s) + 2
      PROVE  t[k] = w[k]
  <2>1. k \in 1..Len(a) + 1 /\ k \in 1..Len(b) + 1
    BY <1>0, <1>1, <1>2
  <2>2. CASE k < i
    BY <1>0, <1>1, <1>2, <1>4, <1>5, <2>1, <2>2
  <2>3. CASE k = i
    BY <1>0, <1>1, <1>2, <1>4, <1>5, <2>1, <2>3
  <2>4. CASE k > i
    <3>1. k - 1 \in 1..Len(s) + 1 /\ t[k] = a[k - 1]
      BY <1>0, <1>4, <2>1, <2>4
    <3>2. CASE k <= Len(s) + 1
      <4>1. k \in 1..Len(s) + 1 /\ k - 1 <= Len(s) /\ ~(k < i) /\ k # i
        BY <1>0, <2>4, <3>2
      <4>2. a[k - 1] = s[k - 1] /\ b[k] = s[k - 1] /\ w[k] = b[k]
        BY <1>1, <1>2, <1>5, <2>1, <3>1, <4>1
      <4> QED BY <3>1, <4>2
    <3>3. CASE k = Len(s) + 2
      <4>1. ~(k - 1 <= Len(s)) /\ ~(k <= Len(b))
        BY <1>0, <1>2, <3>3
      <4> QED BY <1>1, <1>5, <2>1, <3>1, <4>1
    <3> QED BY <1>0, <3>2, <3>3
  <2> QED BY <1>0, <2>2, <2>3, <2>4
<1>7. Len(t) = Len(s) + 2 /\ Len(w) = Len(s) + 2
  BY <1>0, <1>1, <1>2, <1>4, <1>5
<1>8. t = w
  BY <1>4, <1>5, <1>6, <1>7, SeqEqual
<1> QED BY <1>8 DEF t, w, a, b

LEMMA RemoveAtEnd ==
    ASSUME NEW S, NEW s \in Seq(S), NEW x \in S
    PROVE  RemoveAt(Append(s, x), Len(s) + 1) = s
<1> DEFINE a == Append(s, x)
           t == RemoveAt(a, Len(s) + 1)
<1>0. Len(s) \in Nat
  OBVIOUS
<1>1. /\ a \in Seq(S) /\ Len(a) = Len(s) + 1
      /\ \A k \in 1..Len(s) + 1 : a[k] = IF k <= Len(s) THEN s[k] ELSE x
  BY AppendIs
<1> HIDE DEF a
<1>2. Len(s) + 1 \in 1..Len(a)
  BY <1>0, <1>1
<1>3. /\ t \in Seq(S) /\ Len(t) = Len(a) - 1
      /\ \A k \in 1..Len(a) - 1 : t[k] = IF k < Len(s) + 1 THEN a[k] ELSE a[k + 1]
  BY <1>1, <1>2, RemoveAtIs
<1> HIDE DEF t
<1>4. Len(t) = Len(s) /\ \A k \in 1..Len(s) : t[k] = s[k]
  BY <1>0, <1>1, <1>3
<1>5. t = s
  BY <1>3, <1>4, SeqEqual
<1> QED BY <1>5 DEF t, a

LEMMA RemoveAtAppend ==
    ASSUME NEW S, NEW s \in Seq(S), NEW i \in 1..Len(s), NEW x \in S
    PROVE  RemoveAt(Append(s, x), i) = Append(RemoveAt(s, i), x)
<1> DEFINE a == Append(s, x)
           b == RemoveAt(s, i)
           t == RemoveAt(a, i)
           w == Append(b, x)
<1>0. Len(s) \in Nat /\ i \in Nat /\ i <= Len(s)
  OBVIOUS
<1>1. /\ a \in Seq(S) /\ Len(a) = Len(s) + 1
      /\ \A k \in 1..Len(s) + 1 : a[k] = IF k <= Len(s) THEN s[k] ELSE x
  BY AppendIs
<1>2. /\ b \in Seq(S) /\ Len(b) = Len(s) - 1
      /\ \A k \in 1..Len(s) - 1 : b[k] = IF k < i THEN s[k] ELSE s[k + 1]
  BY RemoveAtIs
<1> HIDE DEF a, b
<1>3. i \in 1..Len(a)
  BY <1>0, <1>1
<1>4. /\ t \in Seq(S) /\ Len(t) = Len(a) - 1
      /\ \A k \in 1..Len(a) - 1 : t[k] = IF k < i THEN a[k] ELSE a[k + 1]
  BY <1>1, <1>3, RemoveAtIs
<1>5. /\ w \in Seq(S) /\ Len(w) = Len(b) + 1
      /\ \A k \in 1..Len(b) + 1 : w[k] = IF k <= Len(b) THEN b[k] ELSE x
  BY <1>2, AppendIs
<1> HIDE DEF t, w
<1>6. ASSUME NEW k \in 1..Len(s)
      PROVE  t[k] = w[k]
  <2>1. k \in 1..Len(a) - 1 /\ k \in 1..Len(b) + 1
    BY <1>0, <1>1, <1>2
  <2>2. CASE k < i
    BY <1>0, <1>1, <1>2, <1>4, <1>5, <2>1, <2>2
  <2>3. CASE ~(k < i) /\ k < Len(s)
    <3>1. k + 1 \in 1..Len(s) + 1 /\ k + 1 <= Len(s) /\ k \in 1..Len(s) - 1 /\ k <= Len(b)
      BY <1>0, <1>2, <2>3
    <3> QED BY <1>1, <1>2, <1>4, <1>5, <2>1, <2>3, <3>1
  <2>4. CASE k = Len(s)
    <3>1. k + 1 \in 1..Len(s) + 1 /\ ~(k + 1 <= Len(s)) /\ ~(k < i) /\ ~(k <= Len(b))
      BY <1>0, <1>2, <2>4
    <3> QED BY <1>1, <1>4, <1>5, <2>1, <3>1
  <2> QED BY <1>0, <2>2, <2>3, <2>4
<1>7. Len(t) = Len(s) /\ Len(w) = Len(s)
  BY <1>0, <1>1, <1>2, <1>4, <1>5
<1>8. t = w
  BY <1>4, <1>5, <1>6, <1>7, SeqEqual
<1> QED BY <1>8 DEF t, w, a, b

\* The visible entries of a prefix, counted in VisibleIsCounted.
LEMMA UpToSteps ==
    ASSUME NEW chars \in Seq(Entry)
    PROVE  /\ UpTo(chars)[0] = <<>>
           /\ \A n \in 0..Len(chars) - 1 :
                UpTo(chars)[n + 1] =
                  IF Shows(chars[n + 1]) THEN Append(UpTo(chars)[n], chars[n + 1])
                  ELSE UpTo(chars)[n]
           /\ \A n \in 0..Len(chars) : UpTo(chars)[n] \in Seq(Entry)
           /\ \A n \in 0..Len(chars) :
                Len(UpTo(chars)[n]) = Cardinality(Showing(chars, n))
<1> DEFINE f == UpTo(chars)
           T == {n \in Nat : n <= Len(chars) =>
                    f[n] \in Seq(Entry) /\ Len(f[n]) = Cardinality(Showing(chars, n))}
<1>0. Len(chars) \in Nat /\ \A k \in 1..Len(chars) : chars[k] \in Entry
  OBVIOUS
<1>1. \A n \in 0..Len(chars) :
          f[n] = IF n = 0 THEN <<>>
                 ELSE IF Shows(chars[n]) THEN Append(f[n - 1], chars[n]) ELSE f[n - 1]
  <2>1. f = [n \in 0..Len(chars) |->
               IF n = 0 THEN <<>>
               ELSE IF Shows(chars[n]) THEN Append(f[n - 1], chars[n]) ELSE f[n - 1]]
    BY <1>0, UpToExists
  <2> HIDE DEF f
  <2> QED BY <2>1, Zenon
<1> HIDE DEF f
<1>2. f[0] = <<>>
  BY <1>0, <1>1
<1>3. ASSUME NEW n \in 0..Len(chars) - 1
      PROVE  f[n + 1] = IF Shows(chars[n + 1]) THEN Append(f[n], chars[n + 1]) ELSE f[n]
  <2>1. n + 1 \in 0..Len(chars) /\ n + 1 # 0 /\ (n + 1) - 1 = n
    BY <1>0
  <2> QED BY <1>1, <2>1
<1>4. 0 \in T
  <2>1. Cardinality(Showing(chars, 0)) = 0
    <3>1. Showing(chars, 0) = {}
      BY DEF Showing
    <3> QED BY <3>1, FS_EmptySet
  <2>2. f[0] \in Seq(Entry) /\ Len(f[0]) = 0
    BY <1>2
  <2> QED BY <2>1, <2>2
<1>5. ASSUME NEW n \in T
      PROVE  n + 1 \in T
  <2>1. n \in Nat /\ n + 1 \in Nat
    OBVIOUS
  <2> SUFFICES ASSUME n + 1 <= Len(chars)
               PROVE  /\ f[n + 1] \in Seq(Entry)
                      /\ Len(f[n + 1]) = Cardinality(Showing(chars, n + 1))
    BY <2>1
  <2>2. n \in 0..Len(chars) - 1 /\ n <= Len(chars) /\ chars[n + 1] \in Entry
    BY <1>0, <2>1
  <2>3. f[n] \in Seq(Entry) /\ Len(f[n]) = Cardinality(Showing(chars, n))
    BY <2>2
  <2>4. Cardinality(Showing(chars, n + 1)) =
          IF Shows(chars[n + 1]) THEN Cardinality(Showing(chars, n)) + 1
          ELSE Cardinality(Showing(chars, n))
    BY <2>1, ShowingGrows
  <2>5. f[n + 1] = IF Shows(chars[n + 1]) THEN Append(f[n], chars[n + 1]) ELSE f[n]
    BY <1>3, <2>2
  <2> QED BY <2>2, <2>3, <2>4, <2>5
<1>6. T = Nat
  <2> HIDE DEF T
  <2> QED BY <1>4, <1>5, Induct DEF T
<1>7. \A n \in 0..Len(chars) : f[n] \in Seq(Entry) /\ Len(f[n]) = Cardinality(Showing(chars, n))
  BY <1>0, <1>6
<1> QED BY <1>2, <1>3, <1>7 DEF f

\* Where the first k entries of two texts are the same, so is what they show.
LEMMA SamePrefix ==
    ASSUME NEW chars \in Seq(Entry), NEW new \in Seq(Entry), NEW k \in Nat,
           k <= Len(chars), k <= Len(new), \A i \in 1..k : new[i] = chars[i]
    PROVE  UpTo(new)[k] = UpTo(chars)[k]
<1> DEFINE f == UpTo(chars)
           g == UpTo(new)
           T == {n \in Nat : n <= k => g[n] = f[n]}
<1>0. Len(chars) \in Nat /\ Len(new) \in Nat
  OBVIOUS
<1>1. /\ f[0] = <<>> /\ g[0] = <<>>
      /\ \A n \in 0..Len(chars) - 1 :
           f[n + 1] = IF Shows(chars[n + 1]) THEN Append(f[n], chars[n + 1]) ELSE f[n]
      /\ \A n \in 0..Len(new) - 1 :
           g[n + 1] = IF Shows(new[n + 1]) THEN Append(g[n], new[n + 1]) ELSE g[n]
  BY UpToSteps
<1> HIDE DEF f, g
<1>2. 0 \in T
  BY <1>1
<1>3. ASSUME NEW n \in T
      PROVE  n + 1 \in T
  <2>1. n \in Nat /\ n + 1 \in Nat
    OBVIOUS
  <2> SUFFICES ASSUME n + 1 <= k PROVE g[n + 1] = f[n + 1]
    BY <2>1
  <2>2. /\ n \in 0..Len(chars) - 1 /\ n \in 0..Len(new) - 1
        /\ new[n + 1] = chars[n + 1] /\ g[n] = f[n]
    BY <1>0, <2>1
  <2> QED BY <1>1, <2>2
<1>4. T = Nat
  <2> HIDE DEF T
  <2> QED BY <1>2, <1>3, Induct DEF T
<1>5. g[k] = f[k]
  BY <1>4
<1> QED BY <1>5 DEF f, g

\* An entry that is put in behind the a-th shows behind what the first a show.
LEMMA VisibleOfInserted ==
    ASSUME NEW chars \in Seq(Entry), NEW a \in 0..Len(chars), NEW e \in Entry, Shows(e)
    PROVE  LET new == InsertAt(chars, a + 1, e)
           IN  UpTo(new)[Len(new)] =
                 InsertAt(UpTo(chars)[Len(chars)], Len(UpTo(chars)[a]) + 1, e)
<1> DEFINE new == InsertAt(chars, a + 1, e)
           f == UpTo(chars)
           g == UpTo(new)
           q == Len(f[a]) + 1
           Put(m) == /\ f[m] \in Seq(Entry) /\ q \in 1..Len(f[m]) + 1
                     /\ g[m + 1] = InsertAt(f[m], q, e)
           T == {n \in Nat : a + n <= Len(chars) => Put(a + n)}
<1>0. Len(chars) \in Nat /\ a \in Nat /\ \A k \in 1..Len(chars) : chars[k] \in Entry
  OBVIOUS
<1>1. Moved(Entry, chars, a + 1, e)
  <2>1. a + 1 \in 1..Len(chars) + 1
    BY <1>0
  <2> QED BY <2>1, InsertAtMoves
<1>2. /\ new \in Seq(Entry) /\ Len(new) = Len(chars) + 1
      /\ \A k \in 1..Len(chars) + 1 :
           new[k] = IF k < a + 1 THEN chars[k] ELSE IF k = a + 1 THEN e ELSE chars[k - 1]
  BY <1>1 DEF Moved
<1> HIDE DEF new
<1>3. /\ \A n \in 0..Len(chars) - 1 :
           f[n + 1] = IF Shows(chars[n + 1]) THEN Append(f[n], chars[n + 1]) ELSE f[n]
      /\ \A n \in 0..Len(chars) : f[n] \in Seq(Entry)
  BY UpToSteps
<1>4. \A n \in 0..Len(new) - 1 :
         g[n + 1] = IF Shows(new[n + 1]) THEN Append(g[n], new[n + 1]) ELSE g[n]
  BY <1>2, UpToSteps
<1>5. g[a] = f[a]
  <2>1. \A i \in 1..a : new[i] = chars[i]
    BY <1>0, <1>2
  <2>2. a <= Len(chars) /\ a <= Len(new)
    BY <1>0, <1>2
  <2> QED BY <1>0, <1>2, <2>1, <2>2, SamePrefix
<1> HIDE DEF f, g
<1>6. 0 \in T
  <2>1. f[a] \in Seq(Entry) /\ Len(f[a]) \in Nat
    BY <1>3
  <2>2. a \in 0..Len(new) - 1 /\ new[a + 1] = e
    BY <1>0, <1>2
  <2>3. g[a + 1] = Append(f[a], e)
    BY <1>4, <1>5, <2>2
  <2>4. g[a + 1] = InsertAt(f[a], q, e)
    BY <2>1, <2>3, InsertAtEnd
  <2>5. Put(a)
    BY <2>1, <2>4
  <2> HIDE DEF Put
  <2> QED BY <1>0, <2>5
<1>7. ASSUME NEW n \in T
      PROVE  n + 1 \in T
  <2>1. n \in Nat /\ n + 1 \in Nat
    OBVIOUS
  <2> SUFFICES ASSUME a + (n + 1) <= Len(chars)
               PROVE  Put(a + (n + 1))
    BY <2>1
  <2> DEFINE m == a + n
             x == chars[m + 1]
  <2>2. m \in Nat /\ m + 1 = a + (n + 1) /\ m + 1 <= Len(chars) /\ a <= m
    BY <1>0, <2>1
  <2>3. Put(m)
    <3> HIDE DEF Put
    <3> QED BY <1>0, <2>1, <2>2
  <2> HIDE DEF m
  <2>4. m \in 0..Len(chars) - 1 /\ m + 1 \in 0..Len(new) - 1 /\ x \in Entry
    BY <1>0, <1>2, <2>2
  <2>5. new[(m + 1) + 1] = x
    <3>1. /\ (m + 1) + 1 \in 1..Len(chars) + 1 /\ ~((m + 1) + 1 < a + 1)
          /\ (m + 1) + 1 # a + 1 /\ ((m + 1) + 1) - 1 = m + 1
      BY <1>0, <2>2
    <3> QED BY <1>2, <3>1
  <2> HIDE DEF x
  <2>6. f[m + 1] = IF Shows(x) THEN Append(f[m], x) ELSE f[m]
    BY <1>3, <2>4 DEF x
  <2>7. g[(m + 1) + 1] = IF Shows(x) THEN Append(g[m + 1], x) ELSE g[m + 1]
    BY <1>4, <2>4, <2>5
  <2> DEFINE s == f[m]
  <2>8. s \in Seq(Entry) /\ q \in 1..Len(s) + 1 /\ g[m + 1] = InsertAt(s, q, e)
    BY <2>3
  <2> HIDE DEF s, q
  <2>9. CASE Shows(x)
    <3>1. InsertAt(Append(s, x), q, e) = Append(InsertAt(s, q, e), x)
      BY <2>4, <2>8, InsertAtAppend
    <3>2. Append(s, x) \in Seq(Entry) /\ Len(Append(s, x)) = Len(s) + 1 /\ Len(s) \in Nat
      BY <2>4, <2>8
    <3>3. f[m + 1] = Append(s, x) /\ g[(m + 1) + 1] = InsertAt(Append(s, x), q, e)
      BY <2>6, <2>7, <2>8, <2>9, <3>1 DEF s
    <3>4. q \in 1..Len(f[m + 1]) + 1
      BY <2>8, <3>2, <3>3
    <3>5. Put(m + 1)
      BY <3>2, <3>3, <3>4
    <3> QED BY <2>2, <3>5
  <2>10. CASE ~Shows(x)
    <3>1. f[m + 1] = s /\ g[(m + 1) + 1] = g[m + 1]
      BY <2>6, <2>7, <2>10 DEF s
    <3>2. Put(m + 1)
      BY <2>8, <3>1
    <3> QED BY <2>2, <3>2
  <2> QED BY <2>9, <2>10
<1>8. T = Nat
  <2> HIDE DEF T
  <2> QED BY <1>6, <1>7, Induct DEF T
<1>9. Put(Len(chars))
  <2>1. Len(chars) - a \in Nat /\ a + (Len(chars) - a) = Len(chars)
    BY <1>0
  <2>2. Len(chars) - a \in T
    BY <1>8, <2>1
  <2> HIDE DEF Put
  <2> QED BY <1>0, <2>1, <2>2
<1> QED BY <1>2, <1>9 DEF new, f, g

\* An entry that no longer shows is taken out of what is shown.
LEMMA VisibleOfHidden ==
    ASSUME NEW chars \in Seq(Entry), NEW new \in Seq(Entry), Len(new) = Len(chars),
           NEW k \in 1..Len(chars), Shows(chars[k]), ~Shows(new[k]),
           \A i \in 1..Len(chars) \ {k} : new[i] = chars[i]
    PROVE  UpTo(new)[Len(new)] =
             RemoveAt(UpTo(chars)[Len(chars)], Len(UpTo(chars)[k - 1]) + 1)
<1> DEFINE f == UpTo(chars)
           g == UpTo(new)
           q == Len(f[k - 1]) + 1
           Out(m) == /\ f[m] \in Seq(Entry) /\ q \in 1..Len(f[m])
                     /\ g[m] = RemoveAt(f[m], q)
           T == {n \in Nat : k + n <= Len(chars) => Out(k + n)}
<1>0. Len(chars) \in Nat /\ k \in Nat /\ k >= 1 /\ \A i \in 1..Len(chars) : chars[i] \in Entry
  OBVIOUS
<1>3. /\ \A n \in 0..Len(chars) - 1 :
           f[n + 1] = IF Shows(chars[n + 1]) THEN Append(f[n], chars[n + 1]) ELSE f[n]
      /\ \A n \in 0..Len(chars) : f[n] \in Seq(Entry)
  BY UpToSteps
<1>4. \A n \in 0..Len(new) - 1 :
         g[n + 1] = IF Shows(new[n + 1]) THEN Append(g[n], new[n + 1]) ELSE g[n]
  BY UpToSteps
<1>5. g[k - 1] = f[k - 1]
  <2>1. /\ k - 1 \in Nat /\ k - 1 <= Len(chars) /\ k - 1 <= Len(new)
        /\ \A i \in 1..k - 1 : new[i] = chars[i]
    BY <1>0
  <2> QED BY <2>1, SamePrefix
<1> HIDE DEF f, g
<1>6. 0 \in T
  <2> DEFINE s == f[k - 1]
  <2>1. k - 1 \in 0..Len(chars) - 1 /\ k - 1 \in 0..Len(new) - 1 /\ (k - 1) + 1 = k
        /\ k - 1 \in 0..Len(chars) /\ chars[k] \in Entry
    BY <1>0
  <2>2. s \in Seq(Entry) /\ Len(s) \in Nat
    BY <1>3, <2>1
  <2>3. f[k] = Append(s, chars[k]) /\ g[k] = s
    <3>1. f[(k - 1) + 1] = IF Shows(chars[(k - 1) + 1]) THEN Append(f[k - 1], chars[(k - 1) + 1])
                           ELSE f[k - 1]
      BY <1>3, <2>1
    <3>2. g[(k - 1) + 1] = IF Shows(new[(k - 1) + 1]) THEN Append(g[k - 1], new[(k - 1) + 1])
                           ELSE g[k - 1]
      BY <1>4, <2>1
    <3> QED BY <1>5, <2>1, <3>1, <3>2
  <2> HIDE DEF s
  <2>4. RemoveAt(Append(s, chars[k]), Len(s) + 1) = s
    BY <2>1, <2>2, RemoveAtEnd
  <2>5. /\ Append(s, chars[k]) \in Seq(Entry) /\ Len(Append(s, chars[k])) = Len(s) + 1
    BY <2>1, <2>2
  <2>6. q = Len(s) + 1
    BY DEF s
  <2> HIDE DEF q
  <2>7. Out(k)
    BY <2>2, <2>3, <2>4, <2>5, <2>6
  <2> HIDE DEF Out
  <2> QED BY <1>0, <2>7
<1>7. ASSUME NEW n \in T
      PROVE  n + 1 \in T
  <2>1. n \in Nat /\ n + 1 \in Nat
    OBVIOUS
  <2> SUFFICES ASSUME k + (n + 1) <= Len(chars)
               PROVE  Out(k + (n + 1))
    BY <2>1
  <2> DEFINE m == k + n
             x == chars[m + 1]
             s == f[m]
  <2>2. m \in Nat /\ m + 1 = k + (n + 1) /\ m + 1 <= Len(chars) /\ k <= m
    BY <1>0, <2>1
  <2>3. Out(m)
    <3> HIDE DEF Out
    <3> QED BY <1>0, <2>1, <2>2
  <2>4. s \in Seq(Entry) /\ q \in 1..Len(s) /\ g[m] = RemoveAt(s, q)
    BY <2>3
  <2> HIDE DEF m, q
  <2>5. m \in 0..Len(chars) - 1 /\ m \in 0..Len(new) - 1 /\ x \in Entry /\ new[m + 1] = x
    BY <1>0, <2>2
  <2> HIDE DEF x
  <2>6. f[m + 1] = IF Shows(x) THEN Append(s, x) ELSE s
    BY <1>3, <2>5 DEF x
  <2>7. g[m + 1] = IF Shows(x) THEN Append(g[m], x) ELSE g[m]
    BY <1>4, <2>5
  <2> HIDE DEF s
  <2>8. CASE Shows(x)
    <3>1. RemoveAt(Append(s, x), q) = Append(RemoveAt(s, q), x)
      BY <2>4, <2>5, RemoveAtAppend
    <3>2. Append(s, x) \in Seq(Entry) /\ Len(Append(s, x)) = Len(s) + 1 /\ Len(s) \in Nat
      BY <2>4, <2>5
    <3>3. f[m + 1] = Append(s, x) /\ g[m + 1] = RemoveAt(Append(s, x), q)
      BY <2>4, <2>6, <2>7, <2>8, <3>1
    <3>4. q \in 1..Len(f[m + 1])
      BY <2>4, <3>2, <3>3
    <3>5. Out(m + 1)
      BY <3>2, <3>3, <3>4
    <3> QED BY <2>2, <3>5
  <2>9. CASE ~Shows(x)
    <3>1. Out(m + 1)
      BY <2>4, <2>6, <2>7, <2>9
    <3> QED BY <2>2, <3>1
  <2> QED BY <2>8, <2>9
<1>8. T = Nat
  <2> HIDE DEF T
  <2> QED BY <1>6, <1>7, Induct DEF T
<1>9. Out(Len(chars))
  <2>1. Len(chars) - k \in Nat /\ k + (Len(chars) - k) = Len(chars)
    BY <1>0
  <2>2. Len(chars) - k \in T
    BY <1>8, <2>1
  <2> HIDE DEF Out
  <2> QED BY <1>0, <2>1, <2>2
<1> QED BY <1>9 DEF f, g, q

\* An operation later than everything in the document.
IsLatest(d, op) == \A x \in EntriesOf(d) : x.stamp.ts < op.ts

\* The scan of such an insertion ends at once.
LEMMA ScanOfLatest ==
    ASSUME NEW chars \in Seq(Entry), NEW a \in 1..Len(chars), NEW incoming,
           incoming.ts \in Nat, \A k \in 1..Len(chars) : chars[k].stamp.ts < incoming.ts
    PROVE  ScanEnd(chars, a, incoming) = a + 1
<1> DEFINE T == {i \in a + 1 .. Len(chars) + 1 :
                    \/ i = Len(chars) + 1
                    \/ ~StampWins(chars[i].stamp, incoming)}
<1>0. Len(chars) \in Nat /\ a \in Nat /\ a <= Len(chars)
  OBVIOUS
<1>1. \A i \in 1..Len(chars) : ~StampWins(chars[i].stamp, incoming)
  <2>1. \A i \in 1..Len(chars) : chars[i] \in Entry
    OBVIOUS
  <2>2. \A i \in 1..Len(chars) : chars[i].stamp.ts \in Nat
    BY <2>1 DEF Entry
  <2> QED BY <2>2 DEF StampWins
<1>2. a + 1 \in T
  <2>1. a + 1 \in a + 1..Len(chars) + 1
    BY <1>0
  <2>2. a + 1 = Len(chars) + 1 \/ a + 1 \in 1..Len(chars)
    BY <1>0
  <2> QED BY <1>1, <2>1, <2>2
<1>3. T \in SUBSET Nat /\ T # {} /\ \A n \in T : a + 1 <= n
  BY <1>0, <1>2
<1> HIDE DEF T
<1>4. Min(T) \in T /\ Min(T) <= a + 1
  BY <1>2, <1>3, MinOfNaturals
<1>5. Min(T) \in Nat /\ a + 1 <= Min(T)
  BY <1>3, <1>4
<1>6. Min(T) = a + 1
  BY <1>0, <1>4, <1>5
<1> QED BY <1>6 DEF ScanEnd, T

\* The character at a position stands at an entry with as many shown before it.
LEMMA PositionIsEntry ==
    ASSUME NEW d, InSync(d), NEW pos \in 0..VisibleCharCount(d) - 1
    PROVE  LET k == FindByID(d, VisibleCharID(d, pos))
           IN  /\ k \in 1..Len(d.chars) /\ Shows(d.chars[k])
               /\ d.chars[k].id = VisibleCharID(d, pos)
               /\ Len(UpTo(d.chars)[k - 1]) = pos /\ Len(UpTo(d.chars)[k]) = pos + 1
<1> DEFINE v == Visible(d)
           chars == d.chars
           N(n) == Cardinality(Showing(chars, n))
<1>1. /\ chars \in Seq(Entry) /\ Len(chars) \in Nat
      /\ \A i, j \in 1..Len(chars) : chars[i].id = chars[j].id => i = j
      /\ \A i \in 1..Len(chars) : chars[i].id \in DOMAIN d.index /\ d.index[chars[i].id] = i
  BY DEF InSync, IsDocument
<1>2. /\ v \in Seq(Entry) /\ Len(v) \in Nat
      /\ \A e : (\E j \in 1..Len(v) : v[j] = e) <=> e \in EntriesOf(d) /\ Shows(e)
      /\ \A j, k \in 1..Len(v) : v[j].id = v[k].id => j = k
  <2>1. /\ v \in Seq(Entry)
        /\ \A e : (\E j \in 1..Len(v) : v[j] = e) <=> e \in EntriesOf(d) /\ Shows(e)
        /\ \A j, k \in 1..Len(v) : v[j].id = v[k].id => j = k
    BY <1>1, VisibleEnumerates
  <2> HIDE DEF v
  <2> QED BY <2>1
<1>3. \A i \in 1..Len(chars) :
         Shows(chars[i]) => N(i - 1) + 1 \in 1..Len(v) /\ v[N(i - 1) + 1] = chars[i]
  BY <1>1, VisibleIsCounted
<1>4. \A n \in 0..Len(chars) : Len(UpTo(chars)[n]) = N(n)
  BY <1>1, UpToSteps
<1>5. pos + 1 \in 1..Len(v) /\ pos \in Nat /\ VisibleCharID(d, pos) = v[pos + 1].id
  BY <1>2 DEF VisibleCharCount, VisibleCharID
<1> HIDE DEF v
<1>6. PICK k \in 1..Len(chars) : chars[k] = v[pos + 1] /\ Shows(chars[k])
  <2> DEFINE e == v[pos + 1]
  <2>1. \E j \in 1..Len(v) : v[j] = e
    BY <1>5
  <2> HIDE DEF e
  <2>2. e \in EntriesOf(d) /\ Shows(e)
    BY <1>2, <2>1
  <2> QED BY <2>2 DEF EntriesOf, e
<1>7. FindByID(d, VisibleCharID(d, pos)) = k
  BY <1>1, <1>5, <1>6 DEF FindByID
<1>8. k - 1 \in Nat /\ k - 1 \in 0..Len(chars) /\ k \in 0..Len(chars) /\ (k - 1) + 1 = k
  BY <1>1
<1>9. /\ N(k - 1) \in Nat
      /\ N((k - 1) + 1) = IF Shows(chars[(k - 1) + 1]) THEN N(k - 1) + 1 ELSE N(k - 1)
  BY <1>8, ShowingGrows
<1> HIDE DEF N, chars
<1>10. N(k - 1) + 1 = pos + 1
  <2>1. N(k - 1) + 1 \in 1..Len(v) /\ v[N(k - 1) + 1].id = v[pos + 1].id
    BY <1>3, <1>6
  <2> QED BY <1>2, <1>5, <2>1
<1>11. N(k - 1) = pos /\ N(k) = pos + 1
  BY <1>5, <1>6, <1>8, <1>9, <1>10
<1> QED BY <1>4, <1>5, <1>6, <1>7, <1>8, <1>11 DEF chars

\* A typed character appears where it was typed, and nothing else changes.
LEMMA TypedAppears ==
    ASSUME NEW d, InSync(d), NEW op \in Op, IsInsert(op), op.id \notin d.applied,
           IsLatest(d, op), NEW pos \in 0..VisibleCharCount(d),
           op.ref = IF pos > 0 THEN VisibleCharID(d, pos - 1) ELSE HeadID
    PROVE  /\ Visible(d) \in Seq(Entry) /\ pos + 1 \in 1..Len(Visible(d)) + 1
           /\ NewEntry(op) \in Entry
           /\ Visible(ApplyOperation(d, op)) =
                InsertAt(Visible(d), pos + 1, NewEntry(op))
<1> DEFINE n == ApplyOperation(d, op)
           a == AnchorOf(d, op.ref)
           e == NewEntry(op)
           chars == d.chars
<1>1. /\ chars \in Seq(Entry) /\ Len(chars) \in Nat /\ Len(chars) > 0
      /\ chars[1].id = HeadID
  BY DEF InSync, IsDocument
<1>2. Visible(d) \in Seq(Entry) /\ VisibleCharCount(d) = Len(Visible(d))
      /\ VisibleCharCount(d) \in Nat
  BY VisibleAreThere DEF VisibleCharCount
<1>3. e \in Entry /\ Shows(e)
  BY DEF NewEntry, Entry, Op, Stamp, ID, Shows, IsHead, HeadID
<1>4. a \in 1..Len(chars) /\ Len(UpTo(chars)[a]) = pos
  <2>1. CASE pos = 0
    <3>1. op.ref = HeadID
      BY <2>1
    <3>2. a = 1
      BY <3>1, Places DEF AnchorOf, FindByID
    <3>3. ~Shows(chars[1])
      BY <1>1 DEF Shows, IsHead
    <3>4. UpTo(chars)[0] = <<>> /\ UpTo(chars)[0 + 1] = UpTo(chars)[0]
      <4>1. 0 \in 0..Len(chars) - 1 /\ 0 + 1 = 1
        BY <1>1
      <4>2. UpTo(chars)[0 + 1] = IF Shows(chars[0 + 1]) THEN Append(UpTo(chars)[0], chars[0 + 1])
                                 ELSE UpTo(chars)[0]
        BY <1>1, <4>1, UpToSteps
      <4>3. UpTo(chars)[0] = <<>>
        BY <1>1, UpToSteps
      <4> QED BY <3>3, <4>1, <4>2, <4>3
    <3>5. UpTo(chars)[1] = <<>> /\ Len(<<>>) = 0
      BY <3>4
    <3> QED BY <1>1, <2>1, <3>2, <3>5
  <2>2. CASE pos # 0
    <3>1. /\ pos - 1 \in 0..VisibleCharCount(d) - 1 /\ (pos - 1) + 1 = pos
          /\ op.ref = VisibleCharID(d, pos - 1)
      BY <1>2, <2>2
    <3> DEFINE k == FindByID(d, VisibleCharID(d, pos - 1))
    <3>2. k \in 1..Len(chars) /\ Len(UpTo(chars)[k]) = (pos - 1) + 1
      BY <3>1, PositionIsEntry
    <3> HIDE DEF chars
    <3>3. a = k
      BY <1>1, <3>1, <3>2 DEF AnchorOf
    <3> HIDE DEF a, k
    <3> QED BY <3>1, <3>2, <3>3
  <2> QED BY <2>1, <2>2
<1>5. ScanEnd(chars, a, Stamp(op)) = a + 1
  <2>1. Stamp(op).ts = op.ts /\ op.ts \in Nat
    BY DEF Stamp, Op
  <2>2. \A k \in 1..Len(chars) : chars[k].stamp.ts < op.ts
    BY DEF IsLatest, EntriesOf
  <2> HIDE DEF a
  <2> QED BY <1>1, <1>4, <2>1, <2>2, ScanOfLatest
<1>6. n.chars = InsertAt(chars, a + 1, e)
  <2> DEFINE m == [d EXCEPT !.applied = @ \cup {op.id}]
  <2>1. n = ApplyInsert(m, op)
    BY DEF ApplyOperation
  <2>2. m.chars = chars /\ m.index = d.index /\ DOMAIN m = {"chars", "index", "applied"}
    BY DEF InSync, IsDocument
  <2> HIDE DEF m, chars
  <2>3. AnchorOf(m, op.ref) = a
    BY <2>2 DEF AnchorOf, FindByID
  <2>4. n.chars = InsertAt(m.chars, ScanEnd(m.chars, AnchorOf(m, op.ref), Stamp(op)), e)
    BY <2>1, <2>2 DEF ApplyInsert, NewEntry
  <2> QED BY <1>5, <2>2, <2>3, <2>4
<1>7. UpTo(InsertAt(chars, a + 1, e))[Len(InsertAt(chars, a + 1, e))] =
          InsertAt(UpTo(chars)[Len(chars)], Len(UpTo(chars)[a]) + 1, e)
  <2>1. a \in 0..Len(chars)
    BY <1>1, <1>4
  <2> QED BY <1>1, <1>3, <2>1, VisibleOfInserted
<1>8. Visible(n) = InsertAt(Visible(d), pos + 1, e)
  BY <1>4, <1>6, <1>7, VisibleIsLast
<1>9. pos + 1 \in 1..Len(Visible(d)) + 1
  BY <1>2
<1> QED BY <1>2, <1>3, <1>8, <1>9

\* A deleted character disappears, and nothing else changes.
LEMMA DeletedDisappears ==
    ASSUME NEW d, InSync(d), NEW op \in Op, IsDelete(op), op.id \notin d.applied,
           IsLatest(d, op), NEW pos \in 0..VisibleCharCount(d) - 1,
           op.ref = VisibleCharID(d, pos)
    PROVE  /\ Visible(d) \in Seq(Entry) /\ pos + 1 \in 1..Len(Visible(d))
           /\ Visible(ApplyOperation(d, op)) = RemoveAt(Visible(d), pos + 1)
<1> DEFINE n == ApplyOperation(d, op)
           chars == d.chars
           k == FindByID(d, VisibleCharID(d, pos))
           m == [d EXCEPT !.applied = @ \cup {op.id}]
<1>1. chars \in Seq(Entry) /\ Len(chars) \in Nat
  BY DEF InSync, IsDocument
<1>2. Visible(d) \in Seq(Entry) /\ VisibleCharCount(d) = Len(Visible(d))
      /\ VisibleCharCount(d) \in Nat
  BY VisibleAreThere DEF VisibleCharCount
<1>3. /\ k \in 1..Len(chars) /\ Shows(chars[k]) /\ Len(UpTo(chars)[k - 1]) = pos
  BY PositionIsEntry
<1>4. m.chars = chars /\ m.index = d.index /\ DOMAIN m = {"chars", "index", "applied"}
  BY DEF InSync, IsDocument
<1>5. FindByID(m, op.ref) = k
  BY <1>4 DEF FindByID
<1>6. n = ApplyDelete(m, op)
  BY DEF ApplyOperation, IsInsert, IsDelete
<1> HIDE DEF chars, k, m
<1>7. chars[k] \in Entry /\ chars[k].stamp.ts < op.ts /\ op.ts \in Nat
  BY <1>1, <1>3 DEF IsLatest, EntriesOf, Op, chars
<1>8. StampWins(Stamp(op), chars[k].stamp)
  BY <1>7 DEF StampWins, Stamp, Entry
<1>9. n = [m EXCEPT !.chars[k].deleted = TRUE, !.chars[k].stamp = Stamp(op)]
  <2>1. k # 0
    BY <1>1, <1>3
  <2> QED BY <1>4, <1>5, <1>6, <1>8, <2>1 DEF ApplyDelete
<1> DEFINE half == [chars[k] EXCEPT !.deleted = TRUE]
           x    == [half EXCEPT !.stamp = Stamp(op)]
<1>10. n.chars = [chars EXCEPT ![k] = x]
  <2> DEFINE h == [m EXCEPT !.chars = [m.chars EXCEPT ![k] = [m.chars[k] EXCEPT !.deleted = TRUE]]]
  <2>1. n = [h EXCEPT !.chars = [h.chars EXCEPT ![k] = [h.chars[k] EXCEPT !.stamp = Stamp(op)]]]
    BY <1>9
  <2>2. "chars" \in DOMAIN m /\ k \in DOMAIN chars
    BY <1>1, <1>3, <1>4
  <2>3. h.chars = [chars EXCEPT ![k] = half] /\ DOMAIN h = DOMAIN m
    BY <1>4, <2>2
  <2>4. h.chars[k] = half
    BY <2>2, <2>3
  <2> HIDE DEF h, half
  <2>5. n.chars = [h.chars EXCEPT ![k] = x]
    BY <1>4, <2>1, <2>2, <2>3, <2>4
  <2> QED BY <2>2, <2>3, <2>5
<1>11. x.deleted /\ x \in Entry
  BY <1>7 DEF Entry, Op, Stamp
<1> HIDE DEF x, n
<1>12. /\ Len(n.chars) = Len(chars) /\ n.chars \in Seq(Entry)
       /\ n.chars[k] = x /\ \A i \in 1..Len(chars) \ {k} : n.chars[i] = chars[i]
  BY <1>1, <1>3, <1>10, <1>11
<1>13. ~Shows(n.chars[k])
  BY <1>11, <1>12 DEF Shows
<1>14. UpTo(n.chars)[Len(n.chars)] =
           RemoveAt(UpTo(chars)[Len(chars)], Len(UpTo(chars)[k - 1]) + 1)
  BY <1>1, <1>3, <1>12, <1>13, VisibleOfHidden
<1>15. Visible(n) = RemoveAt(Visible(d), pos + 1)
  BY <1>3, <1>14, VisibleIsLast DEF chars
<1>16. pos + 1 \in 1..Len(Visible(d))
  BY <1>2
<1> QED BY <1>2, <1>15, <1>16 DEF n

\* The characters of a sequence of entries.
Glyphs(v) == [i \in 1..Len(v) |-> v[i].ch]

LEMMA GlyphsAre ==
    ASSUME NEW v \in Seq(Entry)
    PROVE  Glyphs(v) \in Seq(Glyph) /\ Len(Glyphs(v)) = Len(v)
<1>1. \A i \in 1..Len(v) : v[i].ch \in Glyph
  <2>1. \A i \in 1..Len(v) : v[i] \in Entry
    OBVIOUS
  <2> QED BY <2>1 DEF Entry
<1>2. Len(v) \in Nat
  OBVIOUS
<1>3. Glyphs(v) = [i \in 1..Len(v) |-> Glyphs(v)[i]]
      /\ \A i \in 1..Len(v) : Glyphs(v)[i] \in Glyph
  BY <1>1 DEF Glyphs
<1> QED BY <1>2, <1>3, IsASeq

LEMMA GlyphsInsert ==
    ASSUME NEW v \in Seq(Entry), NEW i \in 1..Len(v) + 1, NEW e \in Entry
    PROVE  Glyphs(InsertAt(v, i, e)) = InsertAt(Glyphs(v), i, e.ch)
<1> DEFINE w == InsertAt(v, i, e)
           s == Glyphs(v)
           t == InsertAt(s, i, e.ch)
<1>0. Len(v) \in Nat /\ i \in Nat
  OBVIOUS
<1>1. /\ w \in Seq(Entry) /\ Len(w) = Len(v) + 1
      /\ \A k \in 1..Len(v) + 1 : w[k] = IF k < i THEN v[k] ELSE IF k = i THEN e ELSE v[k - 1]
  BY InsertAtMoves DEF Moved
<1>2. s \in Seq(Glyph) /\ Len(s) = Len(v) /\ \A k \in 1..Len(v) : s[k] = v[k].ch
  BY GlyphsAre DEF Glyphs
<1> HIDE DEF w, s
<1>3. Glyphs(w) \in Seq(Glyph) /\ Len(Glyphs(w)) = Len(v) + 1
      /\ \A k \in 1..Len(v) + 1 : Glyphs(w)[k] = w[k].ch
  BY <1>1, GlyphsAre DEF Glyphs
<1>4. /\ t \in Seq(Glyph) /\ Len(t) = Len(v) + 1
      /\ \A k \in 1..Len(v) + 1 : t[k] = IF k < i THEN s[k] ELSE IF k = i THEN e.ch ELSE s[k - 1]
  <2>1. e.ch \in Glyph /\ i \in 1..Len(s) + 1
    BY <1>2 DEF Entry
  <2>2. Moved(Glyph, s, i, e.ch)
    BY <1>2, <2>1, InsertAtMoves
  <2> QED BY <1>2, <2>2 DEF Moved
<1> HIDE DEF t
<1>5. ASSUME NEW k \in 1..Len(v) + 1
      PROVE  Glyphs(w)[k] = t[k]
  <2>1. CASE k < i
    <3>1. k \in 1..Len(v)
      BY <1>0, <2>1
    <3> QED BY <1>1, <1>2, <1>3, <1>4, <2>1, <3>1
  <2>2. CASE k = i
    <3>1. ~(k < i)
      BY <1>0, <2>2
    <3> QED BY <1>1, <1>3, <1>4, <2>2, <3>1
  <2>3. CASE k > i
    <3>1. k - 1 \in 1..Len(v) /\ ~(k < i) /\ k # i
      BY <1>0, <2>3
    <3> QED BY <1>1, <1>2, <1>3, <1>4, <3>1
  <2> QED BY <1>0, <2>1, <2>2, <2>3
<1>6. Glyphs(w) = t
  BY <1>3, <1>4, <1>5, SeqEqual
<1> QED BY <1>6 DEF w, t, s

LEMMA GlyphsRemove ==
    ASSUME NEW v \in Seq(Entry), NEW i \in 1..Len(v)
    PROVE  Glyphs(RemoveAt(v, i)) = RemoveAt(Glyphs(v), i)
<1> DEFINE w == RemoveAt(v, i)
           s == Glyphs(v)
           t == RemoveAt(s, i)
<1>0. Len(v) \in Nat /\ i \in Nat
  OBVIOUS
<1>1. /\ w \in Seq(Entry) /\ Len(w) = Len(v) - 1
      /\ \A k \in 1..Len(v) - 1 : w[k] = IF k < i THEN v[k] ELSE v[k + 1]
  BY RemoveAtIs
<1>2. s \in Seq(Glyph) /\ Len(s) = Len(v) /\ \A k \in 1..Len(v) : s[k] = v[k].ch
  BY GlyphsAre DEF Glyphs
<1> HIDE DEF w, s
<1>3. Glyphs(w) \in Seq(Glyph) /\ Len(Glyphs(w)) = Len(v) - 1
      /\ \A k \in 1..Len(v) - 1 : Glyphs(w)[k] = w[k].ch
  BY <1>1, GlyphsAre DEF Glyphs
<1>4. /\ t \in Seq(Glyph) /\ Len(t) = Len(v) - 1
      /\ \A k \in 1..Len(v) - 1 : t[k] = IF k < i THEN s[k] ELSE s[k + 1]
  <2>1. i \in 1..Len(s)
    BY <1>2
  <2>2. /\ t \in Seq(Glyph) /\ Len(t) = Len(s) - 1
        /\ \A k \in 1..Len(s) - 1 : t[k] = IF k < i THEN s[k] ELSE s[k + 1]
    BY <1>2, <2>1, RemoveAtIs
  <2> HIDE DEF t
  <2> QED BY <1>2, <2>2
<1> HIDE DEF t
<1>5. ASSUME NEW k \in 1..Len(v) - 1
      PROVE  Glyphs(w)[k] = t[k]
  <2>1. k \in 1..Len(v) /\ k + 1 \in 1..Len(v)
    BY <1>0
  <2> QED BY <1>0, <1>1, <1>2, <1>3, <1>4, <2>1
<1>6. Glyphs(w) = t
  BY <1>3, <1>4, <1>5, SeqEqual
<1> QED BY <1>6 DEF w, t, s
=============================================================================
