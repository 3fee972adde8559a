---------------------------- MODULE RestartProofs ----------------------------
(***************************************************************************)
(* Proofs about crashes and restarts, for any users, file and bounds.      *)
(* While the users have started alike, the operations still around were    *)
(* all typed since then, whoever runs has them or is about to get them     *)
(* from their author, and so ids are unique and the texts converge.        *)
(***************************************************************************)
EXTENDS Restart, DocumentProofs

-----------------------------------------------------------------------------
(***************************************************************************)
(* Sequences of operations and logs.                                       *)
(***************************************************************************)
LEMMA FromOn ==
    ASSUME NEW S, NEW q \in Seq(S), NEW m \in 1..Len(q) + 1
    PROVE  LET r == SubSeq(q, m, Len(q))
           IN  /\ r \in Seq(S) /\ Len(r) = Len(q) - m + 1
               /\ \A i \in 1..Len(q) - m + 1 : r[i] = q[i + m - 1]
<1>1. Len(q) \in Nat /\ \A i \in 1..Len(q) : q[i] \in S
  OBVIOUS
<1> QED BY <1>1

\* A sequence is what its first k elements and the others hold.
LEMMA Parts ==
    ASSUME NEW S, NEW q \in Seq(S), NEW k \in 0..Len(q)
    PROVE  LET p == SubSeq(q, 1, k)
               r == SubSeq(q, k + 1, Len(q))
           IN  /\ p \in Seq(S) /\ Len(p) = k /\ \A i \in 1..k : p[i] = q[i]
               /\ r \in Seq(S) /\ Len(r) = Len(q) - k
               /\ \A i \in 1..Len(r) : r[i] = q[k + i]
               /\ ToSet(q) = ToSet(p) \cup ToSet(r)
<1> DEFINE p == SubSeq(q, 1, k)
           r == SubSeq(q, k + 1, Len(q))
<1>1. Len(q) \in Nat /\ DOMAIN q = 1..Len(q)
  OBVIOUS
<1>2. p \in Seq(S) /\ Len(p) = k /\ \A i \in 1..k : p[i] = q[i]
  BY <1>1
<1>3. /\ r \in Seq(S) /\ Len(r) = Len(q) - k
      /\ \A i \in 1..Len(q) - k : r[i] = q[k + i]
  <2>1. k + 1 \in 1..Len(q) + 1 /\ Len(q) - (k + 1) + 1 = Len(q) - k
    BY <1>1
  <2>2. /\ r \in Seq(S) /\ Len(r) = Len(q) - (k + 1) + 1
        /\ \A i \in 1..Len(q) - (k + 1) + 1 : r[i] = q[i + (k + 1) - 1]
    BY <2>1, FromOn, Zenon
  <2>3. \A i \in 1..Len(q) - k : i + (k + 1) - 1 = k + i
    BY <1>1
  <2> HIDE DEF r
  <2> QED BY <2>1, <2>2, <2>3
<1> HIDE DEF p, r
<1>4. DOMAIN p = 1..k /\ DOMAIN r = 1..Len(q) - k
  BY <1>1, <1>2, <1>3
<1>5. ToSet(p) \cup ToSet(r) \subseteq ToSet(q)
  <2>1. \A i \in 1..k : i \in 1..Len(q)
    BY <1>1
  <2>2. \A i \in 1..Len(q) - k : k + i \in 1..Len(q)
    BY <1>1
  <2>3. ToSet(p) \subseteq ToSet(q)
    BY <1>1, <1>2, <1>4, <2>1 DEF ToSet
  <2>4. ToSet(r) \subseteq ToSet(q)
    BY <1>1, <1>3, <1>4, <2>2 DEF ToSet
  <2> QED BY <2>3, <2>4
<1>6. ASSUME NEW i \in 1..Len(q) PROVE q[i] \in ToSet(p) \cup ToSet(r)
  <2>1. CASE i <= k
    BY <1>1, <1>2, <1>4, <2>1 DEF ToSet
  <2>2. CASE i > k
    <3>1. i - k \in 1..Len(q) - k /\ k + (i - k) = i
      BY <1>1, <2>2
    <3>2. r[i - k] = q[i]
      BY <1>3, <3>1
    <3> QED BY <1>4, <3>1, <3>2 DEF ToSet
  <2> QED BY <1>1, <2>1, <2>2
<1>7. ToSet(q) \subseteq ToSet(p) \cup ToSet(r)
  BY <1>1, <1>6 DEF ToSet
<1>8. Len(r) = Len(q) - k /\ \A i \in 1..Len(r) : r[i] = q[k + i]
  BY <1>3
<1> QED BY <1>2, <1>3, <1>5, <1>7, <1>8 DEF p, r

LEMMA JoinedHolds ==
    ASSUME NEW S, NEW p \in Seq(S), NEW q \in Seq(S)
    PROVE  p \o q \in Seq(S) /\ ToSet(p \o q) = ToSet(p) \cup ToSet(q)
<1>1. /\ Len(p) \in Nat /\ Len(q) \in Nat
      /\ DOMAIN p = 1..Len(p) /\ DOMAIN q = 1..Len(q)
  OBVIOUS
<1>2. /\ p \o q \in Seq(S) /\ DOMAIN (p \o q) = 1..Len(p) + Len(q)
      /\ \A i \in 1..Len(p) + Len(q) :
            (p \o q)[i] = IF i <= Len(p) THEN p[i] ELSE q[i - Len(p)]
  OBVIOUS
<1>3. \A i \in 1..Len(p) : i \in 1..Len(p) + Len(q) /\ i <= Len(p)
  BY <1>1
<1>4. \A i \in 1..Len(q) : /\ Len(p) + i \in 1..Len(p) + Len(q)
                           /\ ~(Len(p) + i <= Len(p)) /\ (Len(p) + i) - Len(p) = i
  BY <1>1
<1>5. \A i \in 1..Len(p) + Len(q) : IF i <= Len(p) THEN i \in 1..Len(p)
                                    ELSE i - Len(p) \in 1..Len(q)
  BY <1>1
<1> DEFINE s == p \o q
<1>6. /\ DOMAIN s = 1..Len(p) + Len(q)
      /\ \A i \in 1..Len(p) + Len(q) : s[i] = IF i <= Len(p) THEN p[i] ELSE q[i - Len(p)]
  BY <1>2
<1> HIDE DEF s
<1>7. ToSet(s) \subseteq ToSet(p) \cup ToSet(q)
  BY <1>1, <1>5, <1>6 DEF ToSet
<1>8. ToSet(p) \subseteq ToSet(s)
  BY <1>1, <1>3, <1>6 DEF ToSet
<1>9. ToSet(q) \subseteq ToSet(s)
  <2> SUFFICES ASSUME NEW i \in 1..Len(q) PROVE q[i] \in ToSet(s)
    BY <1>1 DEF ToSet
  <2>1. s[Len(p) + i] = q[i] /\ Len(p) + i \in DOMAIN s
    BY <1>4, <1>6
  <2> QED BY <2>1 DEF ToSet
<1> QED BY <1>2, <1>7, <1>8, <1>9 DEF s

\* A sequence has finitely many elements.
LEMMA ElementsAreFinite ==
    ASSUME NEW S, NEW q \in Seq(S)
    PROVE  IsFiniteSet(ToSet(q)) /\ ToSet(q) \subseteq S
<1>1. Len(q) \in Nat /\ DOMAIN q = 1..Len(q) /\ \A i \in 1..Len(q) : q[i] \in S
  OBVIOUS
<1>2. IsFiniteSet(1..Len(q))
  BY <1>1, FS_Interval
<1>3. q \in Surjection(1..Len(q), ToSet(q))
  <2>1. q = [i \in 1..Len(q) |-> q[i]]
    OBVIOUS
  <2>2. \A i \in 1..Len(q) : q[i] \in ToSet(q)
    BY <1>1 DEF ToSet
  <2>3. q \in [1..Len(q) -> ToSet(q)]
    BY <2>1, <2>2
  <2> QED BY <1>1, <2>3 DEF Surjection, ToSet
<1> QED BY <1>1, <1>2, <1>3, FS_Surjection DEF ToSet

\* Whatever comes twice, the log holds one operation of every id.
LEMMA AddToLogIsLog ==
    ASSUME NEW log, IsLog(log), NEW ops \in Seq(Op)
    PROVE  /\ IsLog(AddToLog(log, ops)) /\ log \subseteq AddToLog(log, ops)
           /\ AddToLog(log, ops) \subseteq log \cup ToSet(ops)
           /\ \A o \in ToSet(ops) : \E p \in AddToLog(log, ops) : p.id = o.id
<1> DEFINE all == AddToLog(log, ops)
           First(k) == \A p \in log \cup {ops[j] : j \in 1..k-1} : p.id # ops[k].id
<1>1. Len(ops) \in Nat /\ DOMAIN ops = 1..Len(ops) /\ \A i \in 1..Len(ops) : ops[i] \in Op
  OBVIOUS
<1>2. \A o : o \in all <=> o \in log \/ \E k \in 1..Len(ops) : First(k) /\ ops[k] = o
  BY <1>1 DEF AddToLog
<1>3. all \subseteq log \cup ToSet(ops)
  BY <1>1, <1>2 DEF ToSet
<1>4. IsFiniteSet(all) /\ all \subseteq Op
  <2>1. IsFiniteSet(ToSet(ops)) /\ ToSet(ops) \subseteq Op
    BY ElementsAreFinite
  <2>2. IsFiniteSet(log \cup ToSet(ops))
    BY <2>1, FS_Union DEF IsLog
  <2> QED BY <1>3, <2>1, <2>2, FS_Subset DEF IsLog
<1>5. ASSUME NEW k \in 1..Len(ops), First(k), NEW p \in all, p.id = ops[k].id
      PROVE  p = ops[k]
  <2>1. p \notin log
    BY <1>5
  <2>2. PICK j \in 1..Len(ops) : First(j) /\ ops[j] = p
    BY <1>2, <2>1
  <2>3. ~(j < k)
    BY <1>1, <1>5, <2>2
  <2>4. ~(k < j)
    <3>1. ASSUME k < j PROVE FALSE
      <4>1. ops[k] \in {ops[i] : i \in 1..j-1}
        BY <1>1, <3>1
      <4> QED BY <1>5, <2>2, <4>1
    <3> QED BY <3>1
  <2> QED BY <1>1, <2>2, <2>3, <2>4
<1>6. ASSUME NEW o \in all, NEW p \in all, o.id = p.id PROVE o = p
  <2>1. CASE o \in log /\ p \in log
    BY <1>6, <2>1 DEF IsLog
  <2>2. CASE o \notin log
    BY <1>2, <1>5, <1>6, <2>2
  <2>3. CASE p \notin log
    BY <1>2, <1>5, <1>6, <2>3
  <2> QED BY <2>1, <2>2, <2>3
<1>7. ASSUME NEW o \in ToSet(ops) PROVE \E p \in all : p.id = o.id
  <2> DEFINE places == {k \in 1..Len(ops) : ops[k].id = o.id}
  <2>1. places \in SUBSET Nat /\ places # {}
    BY <1>1 DEF ToSet
  <2> HIDE DEF places
  <2>2. PICK k \in places : \A n \in places : k <= n
    BY <2>1, LeastNatural
  <2>3. k \in 1..Len(ops) /\ ops[k].id = o.id
    BY DEF places
  <2>4. \A j \in 1..k-1 : ops[j].id # o.id
    BY <1>1, <2>2, <2>3 DEF places
  <2>5. CASE \E p \in log : p.id = o.id
    BY <1>2, <2>5
  <2>6. CASE \A p \in log : p.id # o.id
    <3>1. First(k)
      BY <2>3, <2>4, <2>6
    <3> QED BY <1>2, <2>3, <3>1
  <2> QED BY <2>5, <2>6
<1>8. log \subseteq all
  BY <1>2
<1> HIDE DEF all
<1> QED BY <1>3, <1>4, <1>6, <1>7, <1>8 DEF IsLog, all

-----------------------------------------------------------------------------
(***************************************************************************)
(* The invariant.                                                          *)
(***************************************************************************)
RestartTypes ==
    /\ up \in [User -> BOOLEAN] /\ agreed \in BOOLEAN /\ typed \in Nat
    /\ base \in [User -> Seq(Glyph)] /\ file \in [User -> Seq(Glyph)]
    /\ clock \in [User -> Nat] /\ opSeq \in [User -> Nat \ {0}]
    /\ unmerged \in [User -> Seq(Op)] /\ unsent \in [User -> Seq(Op)]
    /\ wire \in [User -> SUBSET Op]
    /\ stage \in [User -> {"idle", "replayed", "writing"}]
    /\ DOMAIN doc = User /\ DOMAIN opLog = User
    /\ \A u \in User : InSync(doc[u]) /\ IsLog(opLog[u])

\* The operations a process has typed are numbered in their order.
OwnNumbers ==
    \A u \in User :
        /\ \A i \in 1..Len(unmerged[u]) : /\ unmerged[u][i].id[1] = u
                                          /\ unmerged[u][i].id[2] < opSeq[u]
        /\ \A i, j \in 1..Len(unmerged[u]) :
              i < j => unmerged[u][i].id[2] < unmerged[u][j].id[2]
        /\ \A i \in 1..Len(unsent[u]) : unsent[u][i].id[1] = u

\* Who does not run has nothing.
DownIsEmpty ==
    \A u \in User : ~up[u] => /\ opLog[u] = {} /\ wire[u] = {}
                              /\ unmerged[u] = <<>> /\ unsent[u] = <<>>

\* While the users have started alike:
\* what is around was typed by processes still running, or by ended ones that
\* typed under numbers that nobody else has;
NumbersUsed ==
    \A o \in Circulating : /\ o.id[1] \in User
                           /\ up[o.id[1]] => o.id[2] < opSeq[o.id[1]]

IdsDiffer == \A o, p \in Circulating : o.id = p.id => o = p

\* nobody is sent an own operation, logs an operation twice, or has dropped one
\* that is still to be sent;
ForeignArrive ==
    \A u \in User : /\ \A o \in wire[u] : o.id[1] # u
                    /\ \A o \in ToSet(unmerged[u]) : o \notin opLog[u]
                    /\ ToSet(unsent[u]) \subseteq Has(u)

\* what one process has the others have too, or it is about to be sent to all;
EveryoneGets ==
    \A u, v \in User : up[u] /\ up[v] =>
        /\ base[u] = base[v]
        /\ Has(u) \subseteq Has(v) \cup ToSet(unsent[u])

\* without operations of the user's own to merge, the document is the replay of
\* the log, and it is saved when the pass has ended.
Settled ==
    \A u \in User : up[u] /\ unmerged[u] = <<>> =>
        /\ doc[u] = Replay(base[u], opLog[u])
        /\ stage[u] = "idle" => file[u] = Text(doc[u])

Alike == NumbersUsed /\ IdsDiffer /\ ForeignArrive /\ EveryoneGets /\ Settled

RestartInv == RestartTypes /\ OwnNumbers /\ DownIsEmpty /\ (agreed => Alike)

\* The text of a document can be the content of another.
LEMMA TextIsContent ==
    ASSUME NEW d, InSync(d)
    PROVE  Text(d) \in Seq(Glyph)
<1> DEFINE v == Visible(d)
<1>1. v \in Seq(Entry)
  BY VisibleAreThere
<1>2. Text(d) = [i \in 1..Len(v) |-> v[i].ch]
  BY DEF Text
<1> HIDE DEF v
<1>3. Len(v) \in Nat /\ \A i \in 1..Len(v) : v[i].ch \in Glyph
  <2>1. \A e \in Entry : e.ch \in Glyph
    BY DEF Entry
  <2> QED BY <1>1, <2>1
<1> QED BY <1>2, <1>3

\* Nothing holds nothing.
LEMMA NothingIn == ToSet(<<>>) = {}
  BY DEF ToSet

LEMMA RestartInitInv == Init => RestartInv
<1> SUFFICES ASSUME Init PROVE RestartInv
  OBVIOUS
<1> DEFINE text == [n \in 1..BaseLen |-> BaseChar(n)]
<1>1. text \in Seq(Glyph)
  BY BoundAssumption DEF BaseChar, Glyph, ID
<1>2. InSync(LoadFromString(text)) /\ Text(LoadFromString(text)) = text
  BY <1>1, LoadInSync, TextOfLoaded
<1>3. LoadFromString(text) = Replay(text, {})
  BY ReplayOfNothing
<1>4. IsLog({})
  BY FS_EmptySet DEF IsLog
<1>5. /\ up = [u \in User |-> TRUE]
      /\ base = [u \in User |-> text] /\ file = base
      /\ clock = [u \in User |-> 0] /\ opSeq = [u \in User |-> 1]
      /\ doc = [u \in User |-> LoadFromString(text)]
      /\ unmerged = [u \in User |-> <<>>] /\ unsent = unmerged
      /\ opLog = [u \in User |-> {}] /\ wire = opLog
      /\ stage = [u \in User |-> "idle"]
      /\ typed = 0 /\ agreed = TRUE
  BY DEF Init
<1> HIDE DEF text
<1>6. RestartTypes
  BY <1>1, <1>2, <1>4, <1>5 DEF RestartTypes
<1>7. OwnNumbers /\ DownIsEmpty
  BY <1>5 DEF OwnNumbers, DownIsEmpty
<1>8. \A u \in User : Has(u) = {} /\ ToSet(unsent[u]) = {}
  BY <1>5, NothingIn DEF Has
<1>9. Circulating = {}
  BY <1>8 DEF Circulating
<1>10. NumbersUsed /\ IdsDiffer /\ ForeignArrive /\ EveryoneGets
  BY <1>5, <1>8, <1>9, NothingIn DEF NumbersUsed, IdsDiffer, ForeignArrive, EveryoneGets
<1>11. Settled
  BY <1>2, <1>3, <1>5 DEF Settled
<1> QED BY <1>6, <1>7, <1>10, <1>11 DEF RestartInv, Alike

-----------------------------------------------------------------------------
(***************************************************************************)
(* A key.                                                                  *)
(***************************************************************************)
Typing(u, op) ==
    /\ MayType(u)
    /\ op \in Op /\ op.id = <<u, opSeq[u]>> /\ op.ts = clock[u] + 1
    /\ \/ op = Insert(op.id, op.ts, op.ref, <<u, typed + 1>>)
       \/ op = Delete(op.id, op.ts, op.ref) /\ op.ref # HeadID
    /\ doc' = [doc EXCEPT ![u] = ApplyOperation(@, op)]
    /\ unmerged' = [unmerged EXCEPT ![u] = Append(@, op)]
    /\ unsent' = [unsent EXCEPT ![u] = Append(@, op)]
    /\ clock' = [clock EXCEPT ![u] = @ + 1]
    /\ opSeq' = [opSeq EXCEPT ![u] = @ + 1]
    /\ typed' = typed + 1
    /\ UNCHANGED <<up, base, opLog, stage, file, wire, starts, agreed>>

LEMMA TypeIsTyping ==
    ASSUME RestartTypes, NEW u \in User, Type(u)
    PROVE  \E op : Typing(u, op)
<1>1. /\ InSync(doc[u]) /\ clock[u] \in Nat /\ opSeq[u] \in Nat \ {0} /\ typed \in Nat
      /\ u \in Nat \ {0}
  BY UserAssumption DEF RestartTypes
<1> DEFINE id == <<u, opSeq[u]>>
           ts == clock[u] + 1
           ch == <<u, typed + 1>>
<1>2. PICK pos \in Position(u) :
         \E op \in {Insert(id, ts, CharBefore(u, pos), ch)}
                   \cup (IF pos = 0 THEN {}
                         ELSE {Delete(id, ts, CharBefore(u, pos))}) :
           /\ doc' = [doc EXCEPT ![u] = ApplyOperation(@, op)]
           /\ unmerged' = [unmerged EXCEPT ![u] = Append(@, op)]
           /\ unsent' = [unsent EXCEPT ![u] = Append(@, op)]
  BY DEF Type, NewID
<1>3. PICK op \in {Insert(id, ts, CharBefore(u, pos), ch)}
                   \cup (IF pos = 0 THEN {}
                         ELSE {Delete(id, ts, CharBefore(u, pos))}) :
           /\ doc' = [doc EXCEPT ![u] = ApplyOperation(@, op)]
           /\ unmerged' = [unmerged EXCEPT ![u] = Append(@, op)]
           /\ unsent' = [unsent EXCEPT ![u] = Append(@, op)]
  BY <1>2
<1>4. CharBefore(u, pos) \in ID /\ (pos # 0 => CharBefore(u, pos) # HeadID)
  <2> DEFINE v == Visible(doc[u])
  <2>1. /\ v \in Seq(Entry)
        /\ \A j \in 1..Len(v) : v[j].id # HeadID /\ v[j].id \in ID
    BY <1>1, VisibleAreThere
  <2>2. pos \in 0..Len(v) /\ Len(v) \in Nat
    BY <2>1 DEF Position, VisibleCharCount
  <2>3. HeadID \in ID
    BY DEF HeadID, ID
  <2>4. CASE pos = 0
    BY <2>3, <2>4 DEF CharBefore
  <2>5. CASE pos # 0
    <3>1. CharBefore(u, pos) = v[pos].id /\ pos \in 1..Len(v)
      BY <2>2, <2>5 DEF CharBefore, VisibleCharID
    <3> QED BY <2>1, <3>1
  <2> QED BY <2>4, <2>5
<1>5. id \in (Nat \ {0}) \X Nat /\ ts \in Nat \ {0} /\ ch \in Glyph /\ NoChar \in Glyph
  BY <1>1 DEF Glyph, ID
<1> HIDE DEF id, ts, ch
<1>6. /\ op \in Op /\ op.id = id /\ op.ts = ts
      /\ \/ op = Insert(op.id, op.ts, op.ref, ch)
         \/ op = Delete(op.id, op.ts, op.ref) /\ op.ref # HeadID
  BY <1>3, <1>4, <1>5 DEF Insert, Delete, Op
<1> QED BY <1>3, <1>6 DEF Type, Typing, id, ts, ch

LEMMA TypingTypes ==
    ASSUME RestartTypes, NEW u \in User, NEW op, Typing(u, op)
    PROVE  RestartTypes'
<1>1. /\ op \in Op
      /\ InSync(doc[u]) /\ unmerged[u] \in Seq(Op) /\ unsent[u] \in Seq(Op)
  BY DEF RestartTypes, Typing
<1>2. InSync(ApplyOperation(doc[u], op))
  BY <1>1, ApplyKeeps DEF Keeps
<1>3. /\ DOMAIN doc' = User /\ \A v \in User : InSync(doc'[v])
  BY <1>2 DEF RestartTypes, Typing
<1>4. unmerged' \in [User -> Seq(Op)] /\ unsent' \in [User -> Seq(Op)]
  BY <1>1 DEF RestartTypes, Typing
<1>5. /\ clock' \in [User -> Nat] /\ opSeq' \in [User -> Nat \ {0}] /\ typed' \in Nat
  BY DEF RestartTypes, Typing
<1> QED BY <1>3, <1>4, <1>5 DEF RestartTypes, Typing

\* What the users have once op is typed.
LEMMA TypingAdds ==
    ASSUME RestartTypes, NEW u \in User, NEW op, Typing(u, op)
    PROVE  /\ ToSet(unmerged'[u]) = ToSet(unmerged[u]) \cup {op}
           /\ ToSet(unsent'[u]) = ToSet(unsent[u]) \cup {op}
           /\ Has(u)' = Has(u) \cup {op}
           /\ \A v \in User \ {u} : /\ unmerged'[v] = unmerged[v] /\ unsent'[v] = unsent[v]
                                    /\ Has(v)' = Has(v)
           /\ Circulating' = Circulating \cup {op}
<1>1. op \in Op /\ unmerged[u] \in Seq(Op) /\ unsent[u] \in Seq(Op)
  BY DEF RestartTypes, Typing
<1>2. /\ unmerged'[u] = Append(unmerged[u], op) /\ unsent'[u] = Append(unsent[u], op)
      /\ \A v \in User \ {u} : unmerged'[v] = unmerged[v] /\ unsent'[v] = unsent[v]
      /\ UNCHANGED <<opLog, wire>>
  BY DEF RestartTypes, Typing
<1>3. /\ ToSet(unmerged'[u]) = ToSet(unmerged[u]) \cup {op}
      /\ ToSet(unsent'[u]) = ToSet(unsent[u]) \cup {op}
  BY <1>1, <1>2, ToSetOfAppend
<1>4. /\ Has(u)' = Has(u) \cup {op}
      /\ \A v \in User \ {u} : Has(v)' = Has(v)
  BY <1>2, <1>3 DEF Has
<1>5. Circulating' = Circulating \cup {op}
  <2> DEFINE Part(v) == Has(v) \cup ToSet(unsent[v])
  <2>1. /\ Part(u)' = Part(u) \cup {op}
        /\ \A v \in User \ {u} : Part(v)' = Part(v)
    BY <1>2, <1>3, <1>4
  <2>2. /\ Circulating = UNION {Part(v) : v \in User}
        /\ Circulating' = UNION {Part(v)' : v \in User}
    BY DEF Circulating
  <2> HIDE DEF Part
  <2> QED BY <2>1, <2>2
<1> QED BY <1>2, <1>3, <1>4, <1>5

LEMMA TypingNumbers ==
    ASSUME RestartTypes, OwnNumbers, DownIsEmpty, NEW u \in User, NEW op, Typing(u, op)
    PROVE  OwnNumbers' /\ DownIsEmpty'
<1>1. /\ op.id[1] = u /\ op.id[2] = opSeq[u] /\ opSeq[u] \in Nat \ {0} /\ up[u]
      /\ unmerged[u] \in Seq(Op) /\ unsent[u] \in Seq(Op) /\ op \in Op
  BY DEF RestartTypes, Typing, MayType
<1>2. /\ unmerged'[u] = Append(unmerged[u], op) /\ unsent'[u] = Append(unsent[u], op)
      /\ opSeq'[u] = opSeq[u] + 1
      /\ \A v \in User \ {u} : /\ unmerged'[v] = unmerged[v] /\ unsent'[v] = unsent[v]
                               /\ opSeq'[v] = opSeq[v]
      /\ UNCHANGED <<opLog, wire, up>>
  BY DEF RestartTypes, Typing
<1>3. /\ Len(unmerged'[u]) = Len(unmerged[u]) + 1 /\ Len(unmerged[u]) \in Nat
      /\ \A i \in 1..Len(unmerged[u]) : unmerged'[u][i] = unmerged[u][i]
      /\ unmerged'[u][Len(unmerged[u]) + 1] = op
      /\ Len(unsent'[u]) = Len(unsent[u]) + 1 /\ Len(unsent[u]) \in Nat
      /\ \A i \in 1..Len(unsent[u]) : unsent'[u][i] = unsent[u][i]
      /\ unsent'[u][Len(unsent[u]) + 1] = op
  BY <1>1, <1>2
<1>4. \A i \in 1..Len(unmerged[u]) : /\ unmerged[u][i].id[1] = u
                                     /\ unmerged[u][i].id[2] < opSeq[u]
                                     /\ unmerged[u][i].id[2] \in Nat
  <2>1. \A i \in 1..Len(unmerged[u]) : unmerged[u][i] \in Op
    BY <1>1
  <2>2. \A o \in Op : o.id[2] \in Nat
    BY DEF Op
  <2> QED BY <2>1, <2>2 DEF OwnNumbers
<1>5. \A i \in 1..Len(unmerged'[u]) : /\ unmerged'[u][i].id[1] = u
                                      /\ unmerged'[u][i].id[2] < opSeq'[u]
  <2> SUFFICES ASSUME NEW i \in 1..Len(unmerged'[u])
               PROVE  unmerged'[u][i].id[1] = u /\ unmerged'[u][i].id[2] < opSeq'[u]
    OBVIOUS
  <2>1. i \in 1..Len(unmerged[u]) \/ i = Len(unmerged[u]) + 1
    BY <1>3
  <2>2. CASE i \in 1..Len(unmerged[u])
    <3>1. /\ unmerged'[u][i] = unmerged[u][i] /\ unmerged[u][i].id[1] = u
          /\ unmerged[u][i].id[2] < opSeq[u] /\ unmerged[u][i].id[2] \in Nat
      BY <1>3, <1>4, <2>2
    <3> QED BY <1>1, <1>2, <3>1
  <2>3. CASE i = Len(unmerged[u]) + 1
    <3>1. unmerged'[u][i] = op
      BY <1>3, <2>3
    <3> QED BY <1>1, <1>2, <3>1
  <2> QED BY <2>1, <2>2, <2>3
<1>6. \A i, j \in 1..Len(unmerged'[u]) :
         i < j => unmerged'[u][i].id[2] < unmerged'[u][j].id[2]
  <2> SUFFICES ASSUME NEW i \in 1..Len(unmerged'[u]), NEW j \in 1..Len(unmerged'[u]), i < j
               PROVE  unmerged'[u][i].id[2] < unmerged'[u][j].id[2]
    OBVIOUS
  <2>1. i \in 1..Len(unmerged[u]) /\ unmerged'[u][i] = unmerged[u][i]
    BY <1>3
  <2>2. CASE j \in 1..Len(unmerged[u])
    BY <1>3, <2>1, <2>2 DEF OwnNumbers
  <2>3. CASE j = Len(unmerged[u]) + 1
    BY <1>1, <1>3, <1>4, <2>1, <2>3
  <2> QED BY <1>3, <2>2, <2>3
<1>7. \A i \in 1..Len(unsent'[u]) : unsent'[u][i].id[1] = u
  <2>1. \A i \in 1..Len(unsent[u]) : unsent[u][i].id[1] = u
    BY DEF OwnNumbers
  <2>2. \A i \in 1..Len(unsent'[u]) : i \in 1..Len(unsent[u]) \/ i = Len(unsent[u]) + 1
    BY <1>3
  <2>3. \A i \in 1..Len(unsent[u]) : unsent'[u][i].id[1] = u
    BY <1>3, <2>1
  <2>4. unsent'[u][Len(unsent[u]) + 1].id[1] = u
    BY <1>1, <1>3
  <2> QED BY <2>2, <2>3, <2>4
<1>8. OwnNumbers'
  <2> SUFFICES ASSUME NEW v \in User
               PROVE  /\ \A i \in 1..Len(unmerged'[v]) : /\ unmerged'[v][i].id[1] = v
                                                         /\ unmerged'[v][i].id[2] < opSeq'[v]
                      /\ \A i, j \in 1..Len(unmerged'[v]) :
                            i < j => unmerged'[v][i].id[2] < unmerged'[v][j].id[2]
                      /\ \A i \in 1..Len(unsent'[v]) : unsent'[v][i].id[1] = v
    BY DEF OwnNumbers
  <2>1. CASE v = u
    BY <1>5, <1>6, <1>7, <2>1
  <2>2. CASE v # u
    <3>1. /\ \A i \in 1..Len(unmerged[v]) : /\ unmerged[v][i].id[1] = v
                                            /\ unmerged[v][i].id[2] < opSeq[v]
          /\ \A i, j \in 1..Len(unmerged[v]) :
                i < j => unmerged[v][i].id[2] < unmerged[v][j].id[2]
          /\ \A i \in 1..Len(unsent[v]) : unsent[v][i].id[1] = v
      BY DEF OwnNumbers
    <3>2. unmerged'[v] = unmerged[v] /\ unsent'[v] = unsent[v] /\ opSeq'[v] = opSeq[v]
      BY <1>2, <2>2
    <3> QED BY <3>1, <3>2, Zenon
  <2> QED BY <2>1, <2>2
<1>9. DownIsEmpty'
  BY <1>1, <1>2 DEF DownIsEmpty
<1> QED BY <1>8, <1>9

LEMMA TypingAlike ==
    ASSUME RestartTypes, OwnNumbers, DownIsEmpty, Alike, NEW u \in User, NEW op,
           Typing(u, op)
    PROVE  Alike'
<1>1. /\ op.id[1] = u /\ op.id[2] = opSeq[u] /\ opSeq[u] \in Nat \ {0} /\ up[u]
      /\ UNCHANGED <<up, base, opLog, wire, stage, file>>
      /\ opSeq'[u] = opSeq[u] + 1 /\ \A v \in User \ {u} : opSeq'[v] = opSeq[v]
      /\ op.id = <<u, opSeq[u]>>
  BY DEF RestartTypes, Typing, MayType
<1>2. /\ ToSet(unmerged'[u]) = ToSet(unmerged[u]) \cup {op}
      /\ ToSet(unsent'[u]) = ToSet(unsent[u]) \cup {op}
      /\ Has(u)' = Has(u) \cup {op}
      /\ \A v \in User \ {u} : /\ unmerged'[v] = unmerged[v] /\ unsent'[v] = unsent[v]
                               /\ Has(v)' = Has(v)
      /\ Circulating' = Circulating \cup {op}
  BY TypingAdds
<1>3. \A o \in Circulating : o.id # op.id
  BY <1>1 DEF Alike, NumbersUsed
<1>4. Circulating \subseteq Op
  BY ElementsAreFinite DEF Circulating, Has, RestartTypes, IsLog
<1>5. NumbersUsed'
  <2>1. \A v \in User : opSeq[v] <= opSeq'[v] /\ opSeq[v] \in Nat /\ opSeq'[v] \in Nat
    <3>1. \A v \in User : opSeq[v] \in Nat
      BY DEF RestartTypes
    <3> QED BY <1>1, <3>1
  <2>2. \A o \in Circulating : o.id[2] \in Nat
    BY <1>4 DEF Op
  <2>3. ASSUME NEW o \in Circulating
        PROVE  o.id[1] \in User /\ (up'[o.id[1]] => o.id[2] < opSeq'[o.id[1]])
    BY <1>1, <2>1, <2>2 DEF Alike, NumbersUsed
  <2>4. op.id[1] \in User /\ (up'[op.id[1]] => op.id[2] < opSeq'[op.id[1]])
    BY <1>1
  <2> QED BY <1>2, <2>3, <2>4 DEF NumbersUsed
<1>6. IdsDiffer'
  BY <1>2, <1>3 DEF Alike, IdsDiffer
<1>7. ForeignArrive'
  <2>1. op \notin opLog[u]
    BY <1>3 DEF Circulating, Has
  <2>2. ASSUME NEW v \in User
        PROVE  /\ \A o \in wire'[v] : o.id[1] # v
               /\ \A o \in ToSet(unmerged'[v]) : o \notin opLog'[v]
               /\ ToSet(unsent'[v]) \subseteq Has(v)'
    <3>1. /\ \A o \in wire[v] : o.id[1] # v
          /\ \A o \in ToSet(unmerged[v]) : o \notin opLog[v]
          /\ ToSet(unsent[v]) \subseteq Has(v)
      BY DEF Alike, ForeignArrive
    <3>2. CASE v = u
      BY <1>1, <1>2, <2>1, <3>1, <3>2
    <3>3. CASE v # u
      BY <1>1, <1>2, <3>1, <3>3
    <3> QED BY <3>2, <3>3
  <2> QED BY <2>2 DEF ForeignArrive
<1>8. EveryoneGets'
  <2> SUFFICES ASSUME NEW v \in User, NEW w \in User, up[v], up[w]
               PROVE  /\ base[v] = base[w]
                      /\ Has(v)' \subseteq Has(w)' \cup ToSet(unsent'[v])
    BY <1>1 DEF EveryoneGets
  <2>1. base[v] = base[w] /\ Has(v) \subseteq Has(w) \cup ToSet(unsent[v])
    BY DEF Alike, EveryoneGets
  <2>2. Has(w) \subseteq Has(w)' /\ ToSet(unsent[v]) \subseteq ToSet(unsent'[v])
    BY <1>2
  <2>3. CASE v = u
    BY <1>2, <2>1, <2>2, <2>3
  <2>4. CASE v # u
    BY <1>2, <2>1, <2>2, <2>4
  <2> QED BY <2>1, <2>3, <2>4
<1>9. Settled'
  <2>1. unmerged'[u] # <<>>
    BY <1>2, NothingIn
  <2>2. \A v \in User \ {u} : doc'[v] = doc[v]
    BY DEF Typing, RestartTypes
  <2> QED BY <1>1, <1>2, <2>1, <2>2 DEF Alike, Settled
<1> QED BY <1>5, <1>6, <1>7, <1>8, <1>9 DEF Alike

-----------------------------------------------------------------------------
(***************************************************************************)
(* The network thread sends an operation.                                  *)
(***************************************************************************)
LEMMA HeadAndTail ==
    ASSUME NEW S, NEW q \in Seq(S), q # <<>>
    PROVE  /\ Head(q) \in S /\ Tail(q) \in Seq(S) /\ Len(Tail(q)) = Len(q) - 1
           /\ \A i \in 1..Len(Tail(q)) : i + 1 \in 1..Len(q) /\ Tail(q)[i] = q[i + 1]
           /\ ToSet(q) = {Head(q)} \cup ToSet(Tail(q))
<1>1. /\ Len(q) \in Nat \ {0} /\ DOMAIN q = 1..Len(q) /\ Head(q) = q[1] /\ Head(q) \in S
      /\ Tail(q) \in Seq(S) /\ Len(Tail(q)) = Len(q) - 1
      /\ \A i \in 1..Len(q) - 1 : Tail(q)[i] = q[i + 1]
  OBVIOUS
<1>2. DOMAIN Tail(q) = 1..Len(q) - 1
  BY <1>1
<1>3. \A i \in 1..Len(q) : i = 1 \/ (i - 1 \in 1..Len(q) - 1 /\ (i - 1) + 1 = i)
  BY <1>1
<1>4. \A i \in 1..Len(q) - 1 : i + 1 \in 1..Len(q)
  BY <1>1
<1> DEFINE t == Tail(q)
           h == Head(q)
<1>5. /\ DOMAIN t = 1..Len(q) - 1 /\ h = q[1] /\ 1 \in 1..Len(q)
      /\ \A i \in 1..Len(q) - 1 : t[i] = q[i + 1]
  BY <1>1, <1>2
<1> HIDE DEF t, h
<1>6. ToSet(q) \subseteq {h} \cup ToSet(t)
  <2> SUFFICES ASSUME NEW i \in 1..Len(q) PROVE q[i] = h \/ q[i] \in ToSet(t)
    BY <1>1 DEF ToSet
  <2>1. CASE i # 1
    <3>1. i - 1 \in DOMAIN t /\ t[i - 1] = q[i]
      BY <1>3, <1>5, <2>1
    <3> QED BY <3>1 DEF ToSet
  <2> QED BY <1>5, <2>1
<1>7. {h} \cup ToSet(t) \subseteq ToSet(q)
  BY <1>1, <1>4, <1>5 DEF ToSet
<1> QED BY <1>1, <1>4, <1>6, <1>7 DEF t, h

LEMMA SendInv ==
    ASSUME RestartInv, NEW u \in User, Send(u)
    PROVE  RestartInv'
<1> DEFINE op == Head(unsent[u])
<1>1. /\ RestartTypes /\ OwnNumbers /\ DownIsEmpty /\ up[u]
      /\ unsent[u] \in Seq(Op) /\ unsent[u] # <<>>
      /\ UNCHANGED <<up, base, clock, opSeq, doc, unmerged, opLog, stage, file, typed, starts,
                     agreed>>
  BY DEF RestartInv, RestartTypes, Send
<1>2. /\ wire' = [v \in User |-> IF v # u /\ up[v] THEN wire[v] \cup {op} ELSE wire[v]]
      /\ unsent' = [unsent EXCEPT ![u] = Tail(@)]
  BY DEF Send
<1>3. /\ op \in Op /\ Tail(unsent[u]) \in Seq(Op)
      /\ Len(Tail(unsent[u])) = Len(unsent[u]) - 1
      /\ \A i \in 1..Len(Tail(unsent[u])) : /\ i + 1 \in 1..Len(unsent[u])
                                            /\ Tail(unsent[u])[i] = unsent[u][i + 1]
      /\ ToSet(unsent[u]) = {op} \cup ToSet(Tail(unsent[u]))
  BY <1>1, HeadAndTail
<1>4. /\ unsent'[u] = Tail(unsent[u])
      /\ \A v \in User \ {u} : unsent'[v] = unsent[v]
      /\ \A v \in User : wire'[v] = IF v # u /\ up[v] THEN wire[v] \cup {op} ELSE wire[v]
  BY <1>1, <1>2 DEF RestartTypes
<1>5. op.id[1] = u
  <2>1. 1 \in 1..Len(unsent[u]) /\ op = unsent[u][1]
    BY <1>1
  <2> QED BY <1>1, <2>1 DEF OwnNumbers
<1>6. RestartTypes'
  <2>1. wire' \in [User -> SUBSET Op] /\ unsent' \in [User -> Seq(Op)]
    <3>1. wire \in [User -> SUBSET Op] /\ unsent \in [User -> Seq(Op)]
      BY <1>1 DEF RestartTypes
    <3> QED BY <1>2, <1>3, <3>1
  <2> QED BY <1>1, <2>1 DEF RestartTypes
<1> HIDE DEF op
<1>7. OwnNumbers'
  <2>1. \A i \in 1..Len(unsent'[u]) : unsent'[u][i].id[1] = u
    BY <1>1, <1>3, <1>4 DEF OwnNumbers
  <2>2. \A v \in User : \A i \in 1..Len(unsent'[v]) : unsent'[v][i].id[1] = v
    <3> SUFFICES ASSUME NEW v \in User PROVE \A i \in 1..Len(unsent'[v]) : unsent'[v][i].id[1] = v
      OBVIOUS
    <3>1. CASE v = u
      BY <2>1, <3>1
    <3>2. CASE v # u
      BY <1>1, <1>4, <3>2 DEF OwnNumbers
    <3> QED BY <3>1, <3>2
  <2> QED BY <1>1, <2>2 DEF OwnNumbers
<1>8. DownIsEmpty'
  BY <1>1, <1>4 DEF DownIsEmpty
<1>9. ASSUME agreed PROVE Alike'
  <2>1. Alike
    BY <1>9 DEF RestartInv
  <2>2. op \in Has(u) /\ ToSet(unsent[u]) \subseteq Has(u)
    BY <1>3, <2>1 DEF Alike, ForeignArrive
  <2>3. \A v \in User : /\ Has(v)' = IF v # u /\ up[v] THEN Has(v) \cup {op} ELSE Has(v)
                        /\ ToSet(unsent'[v]) \subseteq ToSet(unsent[v])
    BY <1>1, <1>3, <1>4 DEF Has
  <2>4. Circulating' \subseteq Circulating
    BY <2>2, <2>3 DEF Circulating
  <2>5. NumbersUsed' /\ IdsDiffer'
    BY <1>1, <2>1, <2>4 DEF Alike, NumbersUsed, IdsDiffer
  <2>6. ForeignArrive'
    <3> SUFFICES ASSUME NEW v \in User
                 PROVE  /\ \A o \in wire'[v] : o.id[1] # v
                        /\ \A o \in ToSet(unmerged'[v]) : o \notin opLog'[v]
                        /\ ToSet(unsent'[v]) \subseteq Has(v)'
      BY DEF ForeignArrive
    <3>1. /\ \A o \in wire[v] : o.id[1] # v
          /\ \A o \in ToSet(unmerged[v]) : o \notin opLog[v]
          /\ ToSet(unsent[v]) \subseteq Has(v)
      BY <2>1 DEF Alike, ForeignArrive
    <3>2. \A o \in wire'[v] : o.id[1] # v
      <4>1. wire'[v] = wire[v] \/ (v # u /\ wire'[v] = wire[v] \cup {op})
        BY <1>4
      <4>2. v # u => op.id[1] # v
        BY <1>5
      <4> QED BY <3>1, <4>1, <4>2
    <3> QED BY <1>1, <2>3, <3>1, <3>2
  <2>7. EveryoneGets'
    <3> SUFFICES ASSUME NEW v \in User, NEW w \in User, up[v], up[w]
                 PROVE  /\ base[v] = base[w]
                        /\ Has(v)' \subseteq Has(w)' \cup ToSet(unsent'[v])
      BY <1>1 DEF EveryoneGets
    <3>1. base[v] = base[w] /\ Has(v) \subseteq Has(w) \cup ToSet(unsent[v])
      BY <2>1 DEF Alike, EveryoneGets
    <3>2. op \in Has(w)' /\ Has(w) \subseteq Has(w)'
      BY <2>2, <2>3
    <3>3. Has(v)' \subseteq Has(v) \cup {op}
      BY <2>3
    <3>4. ToSet(unsent[v]) \subseteq {op} \cup ToSet(unsent'[v])
      BY <1>3, <1>4
    <3> QED BY <3>1, <3>2, <3>3, <3>4
  <2>8. Settled'
    BY <1>1, <2>1 DEF Alike, Settled
  <2> QED BY <2>5, <2>6, <2>7, <2>8 DEF Alike
<1> QED BY <1>1, <1>6, <1>7, <1>8, <1>9 DEF RestartInv

-----------------------------------------------------------------------------
(***************************************************************************)
(* A pass of the merge thread.                                             *)
(***************************************************************************)
Merging(u, k, others) ==
    /\ up[u] /\ stage[u] = "idle"
    /\ k \in 0..Len(unmerged[u]) /\ others \in Seq(Op) /\ ToSet(others) \subseteq wire[u]
    /\ MergeOps(u, k, others)
    /\ wire' = [wire EXCEPT ![u] = @ \ ToSet(others)]
    /\ clock' \in [User -> Nat]
    /\ UNCHANGED <<up, base, opSeq, unsent, file, typed, starts, agreed>>

LEMMA PassIsMerging ==
    ASSUME RestartTypes, NEW u \in User, MergeOwn(u) \/ MergeOther(u)
    PROVE  \E k, others : Merging(u, k, others)
<1>1. /\ unmerged[u] \in Seq(Op) /\ Len(unmerged[u]) \in Nat /\ wire \in [User -> SUBSET Op]
      /\ clock \in [User -> Nat]
  BY DEF RestartTypes
<1>2. CASE MergeOwn(u)
  <2>1. PICK k \in 1..Len(unmerged[u]) : MergeOps(u, k, <<>>)
    BY <1>2 DEF MergeOwn
  <2>2. <<>> \in Seq(Op) /\ ToSet(<<>>) = {}
    BY NothingIn
  <2>3. wire' = [wire EXCEPT ![u] = @ \ ToSet(<<>>)]
    BY <1>1, <1>2, <2>2 DEF MergeOwn
  <2>4. k \in 0..Len(unmerged[u])
    BY <1>1
  <2>5. Merging(u, k, <<>>)
    BY <1>1, <1>2, <2>1, <2>2, <2>3, <2>4 DEF MergeOwn, Merging
  <2> QED BY <2>5
<1>3. CASE MergeOther(u)
  <2>1. PICK op \in wire[u] :
          /\ wire' = [wire EXCEPT ![u] = @ \ {op}]
          /\ clock' = [clock EXCEPT ![u] = Max({@, op.ts}) + 1]
          /\ \E k \in 0..Len(unmerged[u]) : MergeOps(u, k, <<op>>)
    BY <1>3 DEF MergeOther
  <2>2. PICK k \in 0..Len(unmerged[u]) : MergeOps(u, k, <<op>>)
    BY <2>1
  <2>3. op \in Op
    BY <1>1
  <2>4. <<op>> \in Seq(Op) /\ ToSet(<<op>>) = {op}
    BY <2>3 DEF ToSet
  <2>5. Max({clock[u], op.ts}) \in Nat
    <3>1. clock[u] \in Nat /\ op.ts \in Nat
      BY <1>1, <2>3 DEF Op
    <3>2. {op} \subseteq Op /\ IsFiniteSet({op})
      BY <2>3, FS_Singleton
    <3>3. {clock[u]} \cup {o.ts : o \in {op}} = {clock[u], op.ts}
      OBVIOUS
    <3> QED BY <3>1, <3>2, <3>3, LatestIsLatest
  <2>6. clock' \in [User -> Nat]
    BY <1>1, <2>1, <2>5
  <2>7. Merging(u, k, <<op>>)
    BY <1>3, <2>1, <2>2, <2>4, <2>6 DEF MergeOther, Merging
  <2> QED BY <2>7
<1> QED BY <1>2, <1>3

\* The pass and what it leaves.
Taken(u, k, others) == SubSeq(unmerged[u], 1, k) \o others

Passed(u, k, others) ==
    /\ Taken(u, k, others) \in Seq(Op)
    /\ ToSet(Taken(u, k, others)) = ToSet(SubSeq(unmerged[u], 1, k)) \cup ToSet(others)
    /\ \A i \in 1..k : unmerged[u][i] \in ToSet(SubSeq(unmerged[u], 1, k))
    /\ \A o \in ToSet(SubSeq(unmerged[u], 1, k)) : \E i \in 1..k : o = unmerged[u][i]
    /\ opLog'[u] = AddToLog(opLog[u], Taken(u, k, others))
    /\ unmerged'[u] \in Seq(Op) /\ Len(unmerged'[u]) = Len(unmerged[u]) - k
    /\ \A i \in 1..Len(unmerged'[u]) : unmerged'[u][i] = unmerged[u][k + i]
    /\ ToSet(unmerged[u]) = ToSet(SubSeq(unmerged[u], 1, k)) \cup ToSet(unmerged'[u])
    /\ wire'[u] = wire[u] \ ToSet(others)
    /\ \/ /\ opLog'[u] # opLog[u] /\ doc'[u] = Replay(base[u], opLog'[u])
          /\ stage'[u] = "replayed"
       \/ opLog'[u] = opLog[u] /\ doc'[u] = doc[u] /\ stage'[u] = stage[u]
    /\ \A v \in User \ {u} : /\ opLog'[v] = opLog[v] /\ unmerged'[v] = unmerged[v]
                             /\ wire'[v] = wire[v] /\ doc'[v] = doc[v]
                             /\ stage'[v] = stage[v]
    /\ DOMAIN opLog' = User /\ DOMAIN unmerged' = User /\ DOMAIN doc' = User
    /\ DOMAIN stage' = User /\ DOMAIN wire' = User

LEMMA PassFacts ==
    ASSUME RestartTypes, NEW u \in User, NEW k, NEW others, Merging(u, k, others)
    PROVE  Passed(u, k, others)
<1> DEFINE p == SubSeq(unmerged[u], 1, k)
           r == SubSeq(unmerged[u], k + 1, Len(unmerged[u]))
<1>1. /\ unmerged \in [User -> Seq(Op)] /\ DOMAIN opLog = User /\ DOMAIN doc = User
      /\ DOMAIN stage = User /\ DOMAIN wire = User
      /\ k \in 0..Len(unmerged[u]) /\ others \in Seq(Op)
  BY DEF RestartTypes, Merging
<1>2. /\ p \in Seq(Op) /\ Len(p) = k /\ \A i \in 1..k : p[i] = unmerged[u][i]
      /\ r \in Seq(Op) /\ Len(r) = Len(unmerged[u]) - k
      /\ \A i \in 1..Len(r) : r[i] = unmerged[u][k + i]
      /\ ToSet(unmerged[u]) = ToSet(p) \cup ToSet(r)
  <2>1. unmerged[u] \in Seq(Op)
    BY <1>1
  <2> QED BY <1>1, <2>1, Parts
<1>3. Taken(u, k, others) = p \o others
  BY DEF Taken
<1>4. /\ opLog' = [opLog EXCEPT ![u] = AddToLog(opLog[u], p \o others)]
      /\ unmerged' = [unmerged EXCEPT ![u] = r]
      /\ IF AddToLog(opLog[u], p \o others) = opLog[u] THEN UNCHANGED <<doc, stage>>
         ELSE /\ doc' = [doc EXCEPT ![u] = Replay(base[u], AddToLog(opLog[u], p \o others))]
              /\ stage' = [stage EXCEPT ![u] = "replayed"]
      /\ wire' = [wire EXCEPT ![u] = wire[u] \ ToSet(others)]
  BY DEF Merging, MergeOps
<1> HIDE DEF p, r
<1>5. p \o others \in Seq(Op) /\ ToSet(p \o others) = ToSet(p) \cup ToSet(others)
  BY <1>1, <1>2, JoinedHolds
<1> DEFINE log == AddToLog(opLog[u], p \o others)
<1> HIDE DEF log
<1>6. /\ opLog'[u] = log /\ unmerged'[u] = r /\ wire'[u] = wire[u] \ ToSet(others)
      /\ \A v \in User \ {u} : /\ opLog'[v] = opLog[v] /\ unmerged'[v] = unmerged[v]
                               /\ wire'[v] = wire[v]
      /\ DOMAIN opLog' = User /\ DOMAIN unmerged' = User /\ DOMAIN wire' = User
  BY <1>1, <1>4 DEF log
<1>7. /\ \/ log # opLog[u] /\ doc'[u] = Replay(base[u], log) /\ stage'[u] = "replayed"
         \/ log = opLog[u] /\ doc'[u] = doc[u] /\ stage'[u] = stage[u]
      /\ \A v \in User \ {u} : doc'[v] = doc[v] /\ stage'[v] = stage[v]
      /\ DOMAIN doc' = User /\ DOMAIN stage' = User
  BY <1>1, <1>4 DEF log
<1>8. DOMAIN p = 1..k
  BY <1>1, <1>2
<1>9. ASSUME NEW i \in 1..k PROVE unmerged[u][i] \in ToSet(p)
  <2>1. p[i] = unmerged[u][i] /\ i \in DOMAIN p
    BY <1>2, <1>8
  <2> QED BY <2>1 DEF ToSet
<1>10. ASSUME NEW o \in ToSet(p) PROVE \E i \in 1..k : o = unmerged[u][i]
  <2>1. PICK i \in DOMAIN p : o = p[i]
    BY DEF ToSet
  <2>2. i \in 1..k /\ o = unmerged[u][i]
    BY <1>2, <1>8, <2>1
  <2> QED BY <2>2
<1> QED BY <1>2, <1>3, <1>5, <1>6, <1>7, <1>9, <1>10 DEF p, log, Passed

LEMMA MergingTypes ==
    ASSUME RestartTypes, NEW u \in User, NEW k, NEW others, Merging(u, k, others)
    PROVE  RestartTypes'
<1> DEFINE pass == Taken(u, k, others)
<1>0. Passed(u, k, others)
  BY PassFacts
<1>1. IsLog(opLog[u]) /\ base[u] \in Seq(Glyph) /\ InSync(doc[u]) /\ pass \in Seq(Op)
  BY <1>0 DEF Passed, RestartTypes
<1>2. IsLog(opLog'[u])
  BY <1>0, <1>1, AddToLogIsLog DEF Passed
<1>3. InSync(doc'[u])
  BY <1>0, <1>1, <1>2, ReplayIsDocument DEF Passed
<1>4. \A v \in User : InSync(doc'[v]) /\ IsLog(opLog'[v])
  <2> SUFFICES ASSUME NEW v \in User PROVE InSync(doc'[v]) /\ IsLog(opLog'[v])
    OBVIOUS
  <2>1. CASE v = u
    BY <1>2, <1>3, <2>1
  <2>2. CASE v # u
    BY <1>0, <2>2 DEF Passed, RestartTypes
  <2> QED BY <2>1, <2>2
<1>5. unmerged' \in [User -> Seq(Op)]
  <2>1. unmerged' = [unmerged EXCEPT ![u] = SubSeq(@, k + 1, Len(@))]
    BY DEF Merging, MergeOps
  <2>2. unmerged \in [User -> Seq(Op)] /\ unmerged'[u] \in Seq(Op)
    BY <1>0 DEF Passed, RestartTypes
  <2> QED BY <2>1, <2>2
<1>6. wire' \in [User -> SUBSET Op]
  BY DEF RestartTypes, Merging
<1>7. stage' \in [User -> {"idle", "replayed", "writing"}]
  <2>1. stage' = stage \/ stage' = [stage EXCEPT ![u] = "replayed"]
    BY DEF Merging, MergeOps
  <2>2. stage \in [User -> {"idle", "replayed", "writing"}]
    BY DEF RestartTypes
  <2> QED BY <2>1, <2>2
<1>8. DOMAIN doc' = User /\ DOMAIN opLog' = User
  BY <1>0 DEF Passed
<1> QED BY <1>4, <1>5, <1>6, <1>7, <1>8 DEF RestartTypes, Merging

LEMMA MergingInv ==
    ASSUME RestartInv, NEW u \in User, NEW k, NEW others, Merging(u, k, others)
    PROVE  RestartInv'
<1> DEFINE pass  == Taken(u, k, others)
           first == ToSet(SubSeq(unmerged[u], 1, k))
<1>0. RestartTypes /\ OwnNumbers /\ DownIsEmpty
  BY DEF RestartInv
<1>1. /\ up[u] /\ stage[u] = "idle" /\ k \in 0..Len(unmerged[u])
      /\ ToSet(others) \subseteq wire[u] /\ others \in Seq(Op)
      /\ UNCHANGED <<up, base, opSeq, unsent, file, typed, starts, agreed>>
  BY DEF Merging
<1>2. /\ pass \in Seq(Op) /\ ToSet(pass) = first \cup ToSet(others)
      /\ \A i \in 1..k : unmerged[u][i] \in first
      /\ \A o \in first : \E i \in 1..k : o = unmerged[u][i]
      /\ opLog'[u] = AddToLog(opLog[u], pass)
      /\ unmerged'[u] \in Seq(Op) /\ Len(unmerged'[u]) = Len(unmerged[u]) - k
      /\ \A i \in 1..Len(unmerged'[u]) : unmerged'[u][i] = unmerged[u][k + i]
      /\ ToSet(unmerged[u]) = first \cup ToSet(unmerged'[u])
      /\ wire'[u] = wire[u] \ ToSet(others)
      /\ \A v \in User \ {u} : /\ opLog'[v] = opLog[v] /\ unmerged'[v] = unmerged[v]
                               /\ wire'[v] = wire[v] /\ doc'[v] = doc[v]
                               /\ stage'[v] = stage[v]
  <2>1. Passed(u, k, others)
    BY <1>0, PassFacts
  <2> QED BY <2>1 DEF Passed
<1>3. Len(unmerged[u]) \in Nat /\ unmerged[u] \in Seq(Op) /\ IsLog(opLog[u])
  BY <1>0 DEF RestartTypes
<1> HIDE DEF pass, first
<1>4. RestartTypes'
  BY <1>0, MergingTypes
<1>5. \A i \in 1..Len(unmerged'[u]) : k + i \in 1..Len(unmerged[u])
  BY <1>1, <1>2, <1>3
<1>6. OwnNumbers'
  <2> SUFFICES ASSUME NEW v \in User
               PROVE  /\ \A i \in 1..Len(unmerged'[v]) : /\ unmerged'[v][i].id[1] = v
                                                         /\ unmerged'[v][i].id[2] < opSeq[v]
                      /\ \A i, j \in 1..Len(unmerged'[v]) :
                            i < j => unmerged'[v][i].id[2] < unmerged'[v][j].id[2]
                      /\ \A i \in 1..Len(unsent[v]) : unsent[v][i].id[1] = v
    BY <1>1 DEF OwnNumbers
  <2>1. /\ \A i \in 1..Len(unmerged[v]) : /\ unmerged[v][i].id[1] = v
                                          /\ unmerged[v][i].id[2] < opSeq[v]
        /\ \A i, j \in 1..Len(unmerged[v]) :
              i < j => unmerged[v][i].id[2] < unmerged[v][j].id[2]
        /\ \A i \in 1..Len(unsent[v]) : unsent[v][i].id[1] = v
    BY <1>0 DEF OwnNumbers
  <2>2. CASE v = u
    <3>1. \A i, j \in 1..Len(unmerged'[u]) : i < j => k + i < k + j
      <4>1. k \in Int /\ Len(unmerged'[u]) \in Int
        BY <1>1, <1>2, <1>3
      <4> QED BY <4>1
    <3>2. ASSUME NEW i \in 1..Len(unmerged'[u])
          PROVE  /\ k + i \in 1..Len(unmerged[u])
                 /\ unmerged'[u][i] = unmerged[u][k + i]
      BY <1>2, <1>5
    <3>3. \A i \in 1..Len(unmerged'[u]) : /\ unmerged'[u][i].id[1] = u
                                          /\ unmerged'[u][i].id[2] < opSeq[u]
      BY <2>1, <2>2, <3>2
    <3>4. \A i, j \in 1..Len(unmerged'[u]) :
             i < j => unmerged'[u][i].id[2] < unmerged'[u][j].id[2]
      BY <2>1, <2>2, <3>1, <3>2
    <3> QED BY <2>1, <2>2, <3>3, <3>4
  <2>3. CASE v # u
    BY <1>2, <2>1, <2>3
  <2> QED BY <2>2, <2>3
<1>7. DownIsEmpty'
  BY <1>0, <1>1, <1>2 DEF DownIsEmpty
<1>8. ASSUME agreed PROVE Alike'
  <2>1. Alike
    BY <1>8 DEF RestartInv
  <2>2. opLog'[u] = opLog[u] \cup first \cup ToSet(others)
    <3>1. \A o, p \in Circulating : o.id = p.id => o = p
      BY <2>1 DEF Alike, IdsDiffer
    <3>2. opLog[u] \in SUBSET Circulating
      BY DEF Circulating, Has
    <3>3. pass \in Seq(Circulating)
      <4>1. first \cup ToSet(others) \subseteq Has(u)
        BY <1>1, <1>2 DEF Has
      <4>2. ToSet(pass) \subseteq Circulating
        BY <1>2, <4>1 DEF Circulating
      <4>3. pass = [i \in 1..Len(pass) |-> pass[i]] /\ Len(pass) \in Nat /\ DOMAIN pass = 1..Len(pass)
        BY <1>2
      <4>4. \A i \in 1..Len(pass) : pass[i] \in Circulating
        BY <4>2, <4>3 DEF ToSet
      <4> QED BY <4>3, <4>4, IsASeq
    <3>4. AddToLog(opLog[u], pass) = opLog[u] \cup ToSet(pass)
      BY <3>1, <3>2, <3>3, AddToLogIsUnion
    <3> QED BY <1>2, <3>4
  <2>3. \A v \in User : Has(v)' = Has(v)
    <3>1. Has(u)' = Has(u)
      BY <1>1, <1>2, <2>2 DEF Has
    <3>2. \A v \in User \ {u} : Has(v)' = Has(v)
      BY <1>2 DEF Has
    <3> QED BY <3>1, <3>2
  <2>4. Circulating' = Circulating
    BY <1>1, <2>3 DEF Circulating
  <2>5. NumbersUsed' /\ IdsDiffer' /\ EveryoneGets'
    BY <1>1, <2>1, <2>3, <2>4 DEF Alike, NumbersUsed, IdsDiffer, EveryoneGets
  <2>6. ForeignArrive'
    <3>1. ASSUME NEW o \in ToSet(unmerged'[u])
          PROVE  o \notin opLog'[u]
      <4>1. PICK i \in 1..Len(unmerged'[u]) : o = unmerged[u][k + i]
        <5>1. DOMAIN unmerged'[u] = 1..Len(unmerged'[u])
          BY <1>2
        <5> QED BY <1>2, <3>1, <5>1 DEF ToSet
      <4>2. k + i \in 1..Len(unmerged[u]) /\ \A j \in 1..k : j \in 1..Len(unmerged[u]) /\ j < k + i
        BY <1>1, <1>2, <1>3, <1>5
      <4>3. o \notin first
        <5>1. \A j \in 1..k : unmerged[u][j].id[2] < o.id[2] /\ unmerged[u][j].id[2] \in Nat
          <6>1. \A j \in 1..k : unmerged[u][j] \in Op
            BY <1>3, <4>2
          <6> QED BY <1>0, <4>1, <4>2, <6>1 DEF OwnNumbers, Op
        <5>2. \A j \in 1..k : unmerged[u][j] # o
          BY <5>1
        <5> QED BY <1>2, <5>2
      <4>4. o \notin ToSet(others)
        <5>1. o.id[1] = u
          BY <1>0, <4>1, <4>2 DEF OwnNumbers
        <5> QED BY <1>1, <2>1, <5>1 DEF Alike, ForeignArrive
      <4>5. o \notin opLog[u]
        BY <1>2, <2>1, <3>1 DEF Alike, ForeignArrive
      <4> QED BY <2>2, <4>3, <4>4, <4>5
    <3> SUFFICES ASSUME NEW v \in User
                 PROVE  /\ \A o \in wire'[v] : o.id[1] # v
                        /\ \A o \in ToSet(unmerged'[v]) : o \notin opLog'[v]
                        /\ ToSet(unsent[v]) \subseteq Has(v)'
      BY <1>1 DEF ForeignArrive
    <3>2. /\ \A o \in wire[v] : o.id[1] # v
          /\ \A o \in ToSet(unmerged[v]) : o \notin opLog[v]
          /\ ToSet(unsent[v]) \subseteq Has(v)
      BY <2>1 DEF Alike, ForeignArrive
    <3>3. CASE v = u
      BY <1>2, <2>3, <3>1, <3>2, <3>3
    <3>4. CASE v # u
      BY <1>2, <2>3, <3>2, <3>4
    <3> QED BY <3>3, <3>4
  <2>7. Settled'
    <3>1. /\ \/ /\ opLog'[u] # opLog[u] /\ doc'[u] = Replay(base[u], opLog'[u])
                /\ stage'[u] = "replayed"
             \/ opLog'[u] = opLog[u] /\ doc'[u] = doc[u] /\ stage'[u] = stage[u]
      <4>1. Passed(u, k, others)
        BY <1>0, PassFacts
      <4> QED BY <4>1 DEF Passed
    <3>2. opLog'[u] = opLog[u] => k = 0
      <4> SUFFICES ASSUME k # 0 PROVE opLog'[u] # opLog[u]
        OBVIOUS
      <4>1. 1 \in 1..k /\ 1 \in 1..Len(unmerged[u])
        BY <1>1, <1>3
      <4>2. unmerged[u][1] \in first /\ unmerged[u][1] \notin opLog[u]
        BY <1>2, <2>1, <4>1 DEF Alike, ForeignArrive
      <4> QED BY <2>2, <4>2
    <3>3. opLog'[u] = opLog[u] /\ unmerged'[u] = <<>> => unmerged[u] = <<>>
      BY <1>2, <1>3, <3>2
    <3>4. up[u] /\ unmerged'[u] = <<>> =>
            /\ doc'[u] = Replay(base[u], opLog'[u])
            /\ stage'[u] = "idle" => file[u] = Text(doc'[u])
      BY <2>1, <3>1, <3>3 DEF Alike, Settled
    <3> SUFFICES ASSUME NEW v \in User, up[v], unmerged'[v] = <<>>
                 PROVE  /\ doc'[v] = Replay(base[v], opLog'[v])
                        /\ stage'[v] = "idle" => file[v] = Text(doc'[v])
      BY <1>1 DEF Settled
    <3>5. CASE v = u
      BY <3>4, <3>5
    <3>6. CASE v # u
      BY <1>2, <2>1, <3>6 DEF Alike, Settled
    <3> QED BY <3>5, <3>6
  <2> QED BY <2>5, <2>6, <2>7 DEF Alike
<1> QED BY <1>1, <1>4, <1>6, <1>7, <1>8 DEF RestartInv

-----------------------------------------------------------------------------
(***************************************************************************)
(* The file is written, and takes the place of the old one.                *)
(***************************************************************************)
LEMMA WriteInv ==
    ASSUME RestartInv, NEW u \in User, BeginWrite(u) \/ Rename(u)
    PROVE  RestartInv'
<1>1. /\ RestartTypes /\ OwnNumbers /\ DownIsEmpty /\ InSync(doc[u])
      /\ UNCHANGED <<up, base, clock, opSeq, doc, unmerged, unsent, opLog, wire, typed, starts,
                     agreed>>
  BY DEF RestartInv, RestartTypes, BeginWrite, Rename
<1>2. /\ \A v \in User \ {u} : file'[v] = file[v] /\ stage'[v] = stage[v]
      /\ stage'[u] # "idle" \/ file'[u] = Text(doc[u])
      /\ file' \in [User -> Seq(Glyph)]
      /\ stage' \in [User -> {"idle", "replayed", "writing"}]
  <2>1. /\ file \in [User -> Seq(Glyph)] /\ Text(doc[u]) \in Seq(Glyph)
        /\ stage \in [User -> {"idle", "replayed", "writing"}]
    BY <1>1, TextIsContent DEF RestartTypes
  <2> QED BY <2>1 DEF BeginWrite, Rename
<1>3. RestartTypes' /\ OwnNumbers' /\ DownIsEmpty'
  BY <1>1, <1>2 DEF RestartTypes, OwnNumbers, DownIsEmpty
<1>4. ASSUME agreed PROVE Alike'
  <2>1. Alike /\ Circulating' = Circulating /\ \A v \in User : Has(v)' = Has(v)
    BY <1>1, <1>4 DEF RestartInv, Circulating, Has
  <2>2. NumbersUsed' /\ IdsDiffer' /\ ForeignArrive' /\ EveryoneGets'
    BY <1>1, <2>1 DEF Alike, NumbersUsed, IdsDiffer, ForeignArrive, EveryoneGets
  <2>3. Settled'
    BY <1>1, <1>2, <2>1 DEF Alike, Settled
  <2> QED BY <2>2, <2>3 DEF Alike
<1> QED BY <1>1, <1>3, <1>4 DEF RestartInv

-----------------------------------------------------------------------------
(***************************************************************************)
(* A process ends, or starts.                                              *)
(***************************************************************************)
\* What u has then, and the others keep.
Renewed(u) ==
    /\ base'[u] = file[u] /\ doc'[u] = LoadFromString(file[u]) /\ opSeq'[u] = 1
    /\ unmerged'[u] = <<>> /\ unsent'[u] = <<>> /\ opLog'[u] = {} /\ stage'[u] = "idle"
    /\ \A v \in User \ {u} :
          /\ up'[v] = up[v] /\ base'[v] = base[v] /\ doc'[v] = doc[v] /\ opSeq'[v] = opSeq[v]
          /\ unmerged'[v] = unmerged[v] /\ unsent'[v] = unsent[v]
          /\ opLog'[v] = opLog[v] /\ wire'[v] = wire[v] /\ stage'[v] = stage[v]
    /\ UNCHANGED <<file, typed>>

LEMMA NewProcessRenews ==
    ASSUME RestartTypes, NEW u \in User, Crash(u) \/ Start(u)
    PROVE  Renewed(u)
<1>1. NewProcess(u) /\ UNCHANGED <<file, typed>>
  BY DEF Crash, Start
<1>2. /\ DOMAIN base = User /\ DOMAIN doc = User /\ DOMAIN opSeq = User
      /\ DOMAIN unmerged = User /\ DOMAIN unsent = User /\ DOMAIN opLog = User
      /\ DOMAIN stage = User /\ DOMAIN up = User /\ DOMAIN wire = User
  BY DEF RestartTypes
<1>3. \A v \in User \ {u} : up'[v] = up[v] /\ wire'[v] = wire[v]
  BY <1>2 DEF Crash, Start
<1> QED BY <1>1, <1>2, <1>3 DEF NewProcess, Renewed

LEMMA NewProcessTypes ==
    ASSUME RestartTypes, NEW u \in User, Crash(u) \/ Start(u)
    PROVE  RestartTypes'
<1>1. Renewed(u)
  BY NewProcessRenews
<1>2. InSync(LoadFromString(file[u])) /\ file[u] \in Seq(Glyph)
  BY LoadInSync DEF RestartTypes
<1>3. IsLog({})
  BY FS_EmptySet DEF IsLog
<1>4. \A v \in User : InSync(doc'[v]) /\ IsLog(opLog'[v])
  <2> SUFFICES ASSUME NEW v \in User PROVE InSync(doc'[v]) /\ IsLog(opLog'[v])
    OBVIOUS
  <2>1. CASE v = u
    BY <1>1, <1>2, <1>3, <2>1 DEF Renewed
  <2>2. CASE v # u
    BY <1>1, <2>2 DEF Renewed, RestartTypes
  <2> QED BY <2>1, <2>2
<1>5. NewProcess(u) /\ UNCHANGED <<file, typed>>
  BY DEF Crash, Start
<1>6. /\ base' \in [User -> Seq(Glyph)] /\ clock' \in [User -> Nat]
      /\ opSeq' \in [User -> Nat \ {0}] /\ stage' \in [User -> {"idle", "replayed", "writing"}]
      /\ DOMAIN doc' = User /\ DOMAIN opLog' = User
  BY <1>2, <1>5 DEF RestartTypes, NewProcess
<1>7. unmerged' \in [User -> Seq(Op)] /\ unsent' \in [User -> Seq(Op)]
  <2>1. <<>> \in Seq(Op)
    OBVIOUS
  <2> QED BY <1>5, <2>1 DEF RestartTypes, NewProcess
<1>8. wire' \in [User -> SUBSET Op]
  <2>1. wire \in [User -> SUBSET Op]
    BY DEF RestartTypes
  <2>2. CASE Crash(u)
    BY <2>1, <2>2 DEF Crash
  <2>3. CASE Start(u)
    <3>1. ASSUME NEW v \in User PROVE opLog[v] \cup ToSet(unmerged[v]) \subseteq Op
      <4>1. unmerged[v] \in Seq(Op) /\ opLog[v] \subseteq Op
        BY DEF RestartTypes, IsLog
      <4> QED BY <4>1, ElementsAreFinite
    <3>2. UNION {opLog[v] \cup ToSet(unmerged[v]) : v \in Others(u)} \subseteq Op
      BY <3>1 DEF Others
    <3> QED BY <2>1, <2>3, <3>2 DEF Start
  <2> QED BY <2>2, <2>3
<1>9. up' \in [User -> BOOLEAN]
  BY DEF RestartTypes, Crash, Start
<1>10. agreed' \in BOOLEAN
  BY DEF RestartTypes, Crash, Start
<1>11. typed' \in Nat /\ file' \in [User -> Seq(Glyph)]
  BY <1>5 DEF RestartTypes
<1> QED BY <1>4, <1>6, <1>7, <1>8, <1>9, <1>10, <1>11 DEF RestartTypes

LEMMA NewProcessNumbers ==
    ASSUME RestartTypes, OwnNumbers, DownIsEmpty, NEW u \in User, Crash(u) \/ Start(u)
    PROVE  OwnNumbers' /\ DownIsEmpty'
<1>1. Renewed(u)
  BY NewProcessRenews
<1>2. OwnNumbers'
  <2> SUFFICES ASSUME NEW v \in User
               PROVE  /\ \A i \in 1..Len(unmerged'[v]) : /\ unmerged'[v][i].id[1] = v
                                                         /\ unmerged'[v][i].id[2] < opSeq'[v]
                      /\ \A i, j \in 1..Len(unmerged'[v]) :
                            i < j => unmerged'[v][i].id[2] < unmerged'[v][j].id[2]
                      /\ \A i \in 1..Len(unsent'[v]) : unsent'[v][i].id[1] = v
    BY DEF OwnNumbers
  <2>1. CASE v = u
    BY <1>1, <2>1 DEF Renewed
  <2>2. CASE v # u
    <3>1. unmerged'[v] = unmerged[v] /\ unsent'[v] = unsent[v] /\ opSeq'[v] = opSeq[v]
      BY <1>1, <2>2 DEF Renewed
    <3>2. /\ \A i \in 1..Len(unmerged[v]) : /\ unmerged[v][i].id[1] = v
                                            /\ unmerged[v][i].id[2] < opSeq[v]
          /\ \A i, j \in 1..Len(unmerged[v]) :
                i < j => unmerged[v][i].id[2] < unmerged[v][j].id[2]
          /\ \A i \in 1..Len(unsent[v]) : unsent[v][i].id[1] = v
      BY DEF OwnNumbers
    <3> QED BY <3>1, <3>2, Zenon
  <2> QED BY <2>1, <2>2
<1>3. ~up'[u] => wire'[u] = {}
  BY DEF Crash, Start, RestartTypes
<1>4. DownIsEmpty'
  <2>1. \A v \in User \ {u} : ~up'[v] => /\ opLog'[v] = {} /\ wire'[v] = {}
                                         /\ unmerged'[v] = <<>> /\ unsent'[v] = <<>>
    BY <1>1 DEF Renewed, DownIsEmpty
  <2>2. opLog'[u] = {} /\ unmerged'[u] = <<>> /\ unsent'[u] = <<>>
    BY <1>1 DEF Renewed
  <2> QED BY <1>3, <2>1, <2>2 DEF DownIsEmpty
<1> QED BY <1>2, <1>4

LEMMA CrashAlike ==
    ASSUME RestartTypes, DownIsEmpty, Alike, NEW u \in User, Crash(u)
    PROVE  Alike'
<1>1. Renewed(u)
  BY NewProcessRenews
<1>2. ~up'[u] /\ wire'[u] = {}
  BY DEF Crash, RestartTypes
<1>3. Has(u)' = {} /\ ToSet(unsent'[u]) = {} /\ ToSet(unmerged'[u]) = {}
  BY <1>1, <1>2, NothingIn DEF Has, Renewed
<1>4. \A v \in User \ {u} : Has(v)' = Has(v) /\ unsent'[v] = unsent[v]
  BY <1>1 DEF Has, Renewed
<1>5. Circulating' \subseteq Circulating
  BY <1>3, <1>4 DEF Circulating
<1>6. \A v \in User \ {u} : up'[v] = up[v] /\ opSeq'[v] = opSeq[v]
  BY <1>1 DEF Renewed
<1>7. NumbersUsed' /\ IdsDiffer'
  BY <1>2, <1>5, <1>6 DEF Alike, NumbersUsed, IdsDiffer
<1>8. ForeignArrive'
  BY <1>1, <1>2, <1>3, <1>4 DEF Alike, ForeignArrive, Renewed
<1>9. EveryoneGets'
  BY <1>1, <1>2, <1>4 DEF Alike, EveryoneGets, Renewed
<1>10. Settled'
  BY <1>1, <1>2 DEF Alike, Settled, Renewed
<1> QED BY <1>7, <1>8, <1>9, <1>10 DEF Alike

\* Who starts alike finds nothing around.
LEMMA StartAlike ==
    ASSUME RestartTypes, DownIsEmpty, agreed => Alike, NEW u \in User, Start(u), agreed'
    PROVE  Alike'
<1>1. Renewed(u)
  BY NewProcessRenews
<1>2. /\ up'[u] /\ file[u] \in Seq(Glyph)
      /\ wire'[u] = UNION {opLog[v] \cup ToSet(unmerged[v]) : v \in Others(u)}
      /\ \/ Others(u) = {}
         \/ agreed /\ \A v \in Others(u) : base[v] = file[u] /\ Has(v) = {}
  BY DEF Start, RestartTypes
<1>3. \A v \in Others(u) : /\ agreed /\ base[v] = file[u] /\ Has(v) = {}
                           /\ ToSet(unsent[v]) = {}
  BY <1>2 DEF Alike, ForeignArrive, Others
<1>4. \A v \in User \ {u} : Has(v) = {} /\ ToSet(unsent[v]) = {}
  <2> SUFFICES ASSUME NEW v \in User \ {u} PROVE Has(v) = {} /\ ToSet(unsent[v]) = {}
    OBVIOUS
  <2>1. CASE up[v]
    BY <1>3, <2>1 DEF Others
  <2>2. CASE ~up[v]
    BY <2>2, NothingIn DEF DownIsEmpty, Has
  <2> QED BY <2>1, <2>2
<1>5. wire'[u] = {}
  <2>1. \A v \in Others(u) : opLog[v] \cup ToSet(unmerged[v]) = {}
    BY <1>3 DEF Has
  <2> QED BY <1>2, <2>1
<1>6. \A v \in User : Has(v)' = {} /\ ToSet(unsent'[v]) = {}
  <2>1. Has(u)' = {} /\ ToSet(unsent'[u]) = {}
    BY <1>1, <1>5, NothingIn DEF Has, Renewed
  <2>2. \A v \in User \ {u} : Has(v)' = Has(v) /\ unsent'[v] = unsent[v]
    BY <1>1 DEF Has, Renewed
  <2> QED BY <1>4, <2>1, <2>2
<1>7. Circulating' = {}
  BY <1>6 DEF Circulating
<1>8. NumbersUsed' /\ IdsDiffer'
  BY <1>7 DEF NumbersUsed, IdsDiffer
<1>9. ForeignArrive'
  <2>1. \A v \in User : wire'[v] = {} /\ ToSet(unmerged'[v]) = {}
    BY <1>6 DEF Has
  <2> QED BY <1>6, <2>1 DEF ForeignArrive
<1>10. \A v \in User : up'[v] => base'[v] = file[u]
  BY <1>1, <1>3 DEF Renewed, Others
<1>11. EveryoneGets'
  BY <1>6, <1>10 DEF EveryoneGets
<1>12. Settled'
  <2> SUFFICES ASSUME NEW v \in User, up'[v], unmerged'[v] = <<>>
               PROVE  /\ doc'[v] = Replay(base'[v], opLog'[v])
                      /\ stage'[v] = "idle" => file'[v] = Text(doc'[v])
    BY DEF Settled
  <2>1. CASE v = u
    <3>1. LoadFromString(file[u]) = Replay(file[u], {})
      BY <1>2, ReplayOfNothing
    <3>2. Text(LoadFromString(file[u])) = file[u]
      BY <1>2, TextOfLoaded
    <3> QED BY <1>1, <2>1, <3>1, <3>2 DEF Renewed
  <2>2. CASE v # u
    <3>1. up[v] /\ v \in Others(u)
      BY <1>1, <2>2 DEF Renewed, Others
    <3>2. Settled
      BY <1>3, <3>1 DEF Alike
    <3> QED BY <1>1, <2>2, <3>1, <3>2 DEF Renewed, Settled
  <2> QED BY <2>1, <2>2
<1> QED BY <1>8, <1>9, <1>11, <1>12 DEF Alike

-----------------------------------------------------------------------------
(***************************************************************************)
(* The invariant holds, and says what the properties of Restart say.       *)
(***************************************************************************)
LEMMA RestartStepInv == RestartInv /\ [Next]_vars => RestartInv'
<1> SUFFICES ASSUME RestartInv, [Next]_vars PROVE RestartInv'
  OBVIOUS
<1>0. RestartTypes /\ OwnNumbers /\ DownIsEmpty
  BY DEF RestartInv
<1>1. ASSUME NEW u \in User, Type(u) PROVE RestartInv'
  <2>1. PICK op : Typing(u, op)
    BY <1>0, <1>1, TypeIsTyping
  <2>2. RestartTypes' /\ OwnNumbers' /\ DownIsEmpty'
    BY <1>0, <2>1, TypingTypes, TypingNumbers
  <2>3. agreed' = agreed
    BY <2>1 DEF Typing
  <2>4. agreed => Alike'
    BY <1>0, <2>1, TypingAlike DEF RestartInv
  <2> QED BY <2>2, <2>3, <2>4 DEF RestartInv
<1>2. ASSUME NEW u \in User, Send(u) PROVE RestartInv'
  BY <1>2, SendInv
<1>3. ASSUME NEW u \in User, MergeOwn(u) \/ MergeOther(u) PROVE RestartInv'
  <2>1. PICK k, others : Merging(u, k, others)
    BY <1>0, <1>3, PassIsMerging
  <2> QED BY <2>1, MergingInv
<1>4. ASSUME NEW u \in User, BeginWrite(u) \/ Rename(u) PROVE RestartInv'
  BY <1>4, WriteInv
<1>5. ASSUME NEW u \in User, Crash(u) \/ Start(u) PROVE RestartInv'
  <2>1. RestartTypes' /\ OwnNumbers' /\ DownIsEmpty'
    BY <1>0, <1>5, NewProcessTypes, NewProcessNumbers
  <2>2. agreed' => Alike'
    <3>1. CASE Crash(u)
      <4>1. agreed' = agreed
        BY <3>1 DEF Crash
      <4> QED BY <1>0, <3>1, <4>1, CrashAlike DEF RestartInv
    <3>2. CASE Start(u)
      <4>1. agreed => Alike
        BY DEF RestartInv
      <4> QED BY <1>0, <3>2, <4>1, StartAlike
    <3> QED BY <1>5, <3>1, <3>2
  <2> QED BY <2>1, <2>2 DEF RestartInv
<1>6. CASE UNCHANGED vars
  <2>1. /\ UNCHANGED <<up, base, clock, opSeq, doc, unmerged, unsent, opLog, stage>>
        /\ UNCHANGED <<file, wire, typed, starts, agreed>>
    BY <1>6 DEF vars, process
  <2>2. RestartTypes' /\ OwnNumbers' /\ DownIsEmpty'
    BY <1>0, <2>1 DEF RestartTypes, OwnNumbers, DownIsEmpty
  <2>3. Circulating' = Circulating /\ \A v \in User : Has(v)' = Has(v)
    BY <2>1 DEF Circulating, Has
  <2>4. Alike => Alike'
    BY <2>1, <2>3 DEF Alike, NumbersUsed, IdsDiffer, ForeignArrive, EveryoneGets, Settled
  <2> QED BY <2>1, <2>2, <2>4 DEF RestartInv
<1>7. CASE Next
  BY <1>1, <1>2, <1>3, <1>4, <1>5, <1>7 DEF Next
<1> QED BY <1>6, <1>7

LEMMA RestartInvHolds == Spec => []RestartInv
<1> QED BY RestartInitInv, RestartStepInv, PTL DEF Spec

\* While the users have started alike, an id that op_seq_ has given out names one
\* operation among all that any process has or will get (editor.h, editor.cpp
\* 26-39), whoever crashes and starts again.
THEOREM IdsStayUnique == Spec => []IdsMeanOneOperation
<1>1. RestartInv => IdsMeanOneOperation
  BY DEF RestartInv, Alike, IdsDiffer, IdsMeanOneOperation
<1> QED BY <1>1, RestartInvHolds, PTL

\* Users who have started alike show the same text whenever everything typed has
\* been sent, merged and saved, in every session, and their files say it
\* (editor.cpp 231-294).
THEOREM EverySessionConverges == Spec => []SessionsConverge
<1>1. RestartInv => SessionsConverge
  <2> SUFFICES ASSUME RestartInv, agreed, AtRest, NEW u \in User, NEW v \in User, up[u], up[v]
               PROVE  Text(doc[u]) = Text(doc[v]) /\ file[u] = Text(doc[u])
    BY DEF SessionsConverge
  <2>1. EveryoneGets /\ Settled
    BY DEF RestartInv, Alike
  <2>2. ASSUME NEW w \in User, up[w]
        PROVE  /\ Has(w) = opLog[w] /\ ToSet(unsent[w]) = {}
               /\ doc[w] = Replay(base[w], opLog[w]) /\ file[w] = Text(doc[w])
    BY <2>1, <2>2, NothingIn DEF AtRest, Has, Settled
  <2>3. opLog[u] = opLog[v] /\ base[u] = base[v]
    <3>1. /\ base[u] = base[v] /\ Has(u) \subseteq Has(v) \cup ToSet(unsent[u])
          /\ Has(v) \subseteq Has(u) \cup ToSet(unsent[v])
      BY <2>1 DEF EveryoneGets
    <3>2. /\ Has(u) = opLog[u] /\ ToSet(unsent[u]) = {}
          /\ Has(v) = opLog[v] /\ ToSet(unsent[v]) = {}
      BY <2>2
    <3>3. opLog[u] \subseteq opLog[v] \cup {} /\ opLog[v] \subseteq opLog[u] \cup {}
      BY <3>1, <3>2, Zenon
    <3> QED BY <3>1, <3>3
  <2> QED BY <2>2, <2>3
<1> QED BY <1>1, RestartInvHolds, PTL

-----------------------------------------------------------------------------
(***************************************************************************)
(* What a crash can lose: an invariant of one user.  Pending operations    *)
(* are those whose id the log does not have, so that the next pass can     *)
(* log them.                                                               *)
(***************************************************************************)
Pending(u) == {o \in ToSet(unmerged[u]) : \A p \in opLog[u] : p.id # o.id}

TouchedByPending(u) == UNION {Touched(u, op) : op \in Pending(u)}

SavedInv(u) ==
    /\ OneHead(doc[u])
    /\ {o.id : o \in opLog[u]} \subseteq doc[u].applied
    /\ Chars(doc[u]) \subseteq {NoChar} \cup ToSet(base[u])
                                        \cup Inserted(opLog[u]) \cup Inserted(Pending(u))
    /\ ToSet(file[u]) \subseteq Chars(doc[u]) \cup Inserted(ToSet(unmerged[u]))
    /\ stage[u] = "idle" =>
          /\ ToSet(file[u]) \subseteq CharsShown(doc[u]) \cup TouchedByPending(u)
          /\ CharsShown(doc[u]) \subseteq ToSet(file[u]) \cup TouchedByPending(u)

\* It looks at nothing but what belongs to the user.
LEMMA SavedOfOthers ==
    ASSUME NEW v \in User, SavedInv(v),
           doc'[v] = doc[v], opLog'[v] = opLog[v], base'[v] = base[v], file'[v] = file[v],
           unmerged'[v] = unmerged[v], stage'[v] = stage[v]
    PROVE  SavedInv(v)'
<1>1. Pending(v)' = Pending(v)
  BY DEF Pending
<1>2. \A op : Touched(v, op)' = Touched(v, op)
  BY DEF Touched
<1>3. TouchedByPending(v)' = TouchedByPending(v)
  BY <1>1, <1>2 DEF TouchedByPending
<1> QED BY <1>1, <1>3 DEF SavedInv

LEMMA EntriesAreElements ==
    ASSUME NEW d, InSync(d)
    PROVE  ToSet(d.chars) = EntriesOf(d)
<1>1. d.chars \in Seq(Entry)
  BY DEF InSync, IsDocument
<1> QED BY <1>1 DEF ToSet, EntriesOf

\* In a document the characters touched are those of the entry named.
LEMMA TouchedIs ==
    ASSUME NEW u \in User, InSync(doc[u]), NEW op
    PROVE  Touched(u, op) = IF IsInsert(op) THEN {op.ch} ELSE CharsNamed(doc[u], op.ref)
<1>1. ToSet(doc[u].chars) = EntriesOf(doc[u])
  BY EntriesAreElements
<1> QED BY <1>1 DEF Touched, CharsNamed

\* What shows or can be touched is there.
LEMMA TouchedAreThere ==
    ASSUME NEW u \in User, InSync(doc[u])
    PROVE  /\ CharsShown(doc[u]) \subseteq Chars(doc[u])
           /\ TouchedByPending(u) \subseteq Chars(doc[u]) \cup Inserted(Pending(u))
<1>1. CharsShown(doc[u]) \subseteq Chars(doc[u])
  BY DEF CharsShown, Chars
<1>2. ASSUME NEW op \in Pending(u)
      PROVE  Touched(u, op) \subseteq Chars(doc[u]) \cup Inserted(Pending(u))
  <2>1. CASE IsInsert(op)
    BY <2>1, TouchedIs DEF Inserted
  <2>2. CASE ~IsInsert(op)
    BY <2>2, TouchedIs DEF CharsNamed, Chars
  <2> QED BY <2>1, <2>2
<1> QED BY <1>1, <1>2 DEF TouchedByPending

LEMMA TypingSaved ==
    ASSUME RestartTypes, NEW u \in User, NEW op, Typing(u, op), SavedInv(u)
    PROVE  SavedInv(u)'
<1>1. /\ op \in Op /\ InSync(doc[u]) /\ doc'[u] = ApplyOperation(doc[u], op)
      /\ base'[u] = base[u] /\ opLog'[u] = opLog[u] /\ file'[u] = file[u]
      /\ stage'[u] = stage[u]
  BY DEF RestartTypes, Typing
<1>2. ToSet(unmerged'[u]) = ToSet(unmerged[u]) \cup {op}
  BY TypingAdds
<1>3. InSync(doc'[u]) /\ OneHead(doc'[u]) /\ doc[u].applied \subseteq doc'[u].applied
  BY <1>1, ApplyKeeps, ApplyOneHead DEF Keeps, SavedInv
<1>4. Pending(u) \subseteq Pending(u)'
  BY <1>1, <1>2 DEF Pending
<1>5. /\ Inserted(Pending(u)) \subseteq Inserted(Pending(u)')
      /\ Inserted(ToSet(unmerged[u])) \subseteq Inserted(ToSet(unmerged'[u]))
  BY <1>2, <1>4 DEF Inserted
<1>6. CASE op.id \in doc[u].applied
  <2>1. doc'[u] = doc[u]
    BY <1>1, <1>6 DEF ApplyOperation
  <2>2. TouchedByPending(u) \subseteq TouchedByPending(u)'
    BY <1>4, <2>1 DEF TouchedByPending, Touched
  <2> QED BY <1>1, <1>3, <1>5, <2>1, <2>2 DEF SavedInv
<1>7. CASE op.id \notin doc[u].applied
  <2>1. Alters(doc[u], op, doc'[u])
    BY <1>1, <1>7, ApplyAlters
  <2>2. op \in Pending(u)'
    BY <1>1, <1>2, <1>7 DEF Pending, SavedInv
  <2>3. Inserted({op}) \subseteq Inserted(Pending(u)')
    BY <2>2 DEF Inserted
  <2>4. Chars(doc'[u]) = Chars(doc[u]) \cup Inserted({op})
    BY <2>1 DEF Alters, Inserted
  <2>5. ASSUME NEW o PROVE Touched(u, o) \subseteq Touched(u, o)'
    <3>1. Touched(u, o) = IF IsInsert(o) THEN {o.ch} ELSE CharsNamed(doc[u], o.ref)
      BY <1>1, TouchedIs
    <3>2. Touched(u, o)' = IF IsInsert(o) THEN {o.ch} ELSE CharsNamed(doc'[u], o.ref)
      BY <1>3, EntriesAreElements DEF Touched, CharsNamed
    <3> QED BY <2>1, <3>1, <3>2 DEF Alters
  <2>6. TouchedByPending(u) \subseteq TouchedByPending(u)'
    BY <1>4, <2>5 DEF TouchedByPending
  <2>7. /\ Inserted({op}) \subseteq TouchedByPending(u)'
        /\ IsDelete(op) => CharsNamed(doc'[u], op.ref) \subseteq TouchedByPending(u)'
    <3>1. Touched(u, op)' = IF IsInsert(op) THEN {op.ch} ELSE CharsNamed(doc'[u], op.ref)
      BY <1>3, EntriesAreElements DEF Touched, CharsNamed
    <3>2. Touched(u, op)' \subseteq TouchedByPending(u)'
      BY <2>2 DEF TouchedByPending
    <3> QED BY <3>1, <3>2 DEF Inserted, IsInsert, IsDelete
  <2>8. /\ CharsShown(doc[u]) \subseteq CharsShown(doc'[u]) \cup TouchedByPending(u)'
        /\ CharsShown(doc'[u]) \subseteq CharsShown(doc[u]) \cup TouchedByPending(u)'
    BY <2>1, <2>7 DEF Alters, Inserted
  <2>9. {o.id : o \in opLog'[u]} \subseteq doc'[u].applied
    BY <1>1, <1>3 DEF SavedInv
  <2>10. Chars(doc'[u]) \subseteq {NoChar} \cup ToSet(base'[u])
              \cup Inserted(opLog'[u]) \cup Inserted(Pending(u)')
    BY <1>1, <1>5, <2>3, <2>4 DEF SavedInv
  <2>11. ToSet(file'[u]) \subseteq Chars(doc'[u]) \cup Inserted(ToSet(unmerged'[u]))
    BY <1>1, <1>5, <2>4 DEF SavedInv
  <2>12. stage'[u] = "idle" =>
           /\ ToSet(file'[u]) \subseteq CharsShown(doc'[u]) \cup TouchedByPending(u)'
           /\ CharsShown(doc'[u]) \subseteq ToSet(file'[u]) \cup TouchedByPending(u)'
    BY <1>1, <2>6, <2>8 DEF SavedInv
  <2> QED BY <1>3, <2>9, <2>10, <2>11, <2>12 DEF SavedInv
<1> QED BY <1>6, <1>7

\* The first operation of its id in a pass is logged, if the log has not got the id.
LEMMA FirstIsLogged ==
    ASSUME NEW log, NEW p \in Seq(Op), NEW q \in Seq(Op), NEW i \in 1..Len(p),
           \A j \in 1..i - 1 : p[j].id # p[i].id, \A o \in log : o.id # p[i].id
    PROVE  p[i] \in AddToLog(log, p \o q)
<1> DEFINE ops == p \o q
<1>1. /\ Len(p) \in Nat /\ Len(q) \in Nat
      /\ DOMAIN ops = 1..Len(p) + Len(q)
      /\ \A j \in 1..Len(p) : ops[j] = p[j]
  OBVIOUS
<1> HIDE DEF ops
<1>2. i \in DOMAIN ops /\ ops[i] = p[i]
  BY <1>1
<1>3. \A j \in 1..i - 1 : ops[j] = p[j]
  BY <1>1
<1>4. \A o \in log \cup {ops[j] : j \in 1..i - 1} : o.id # ops[i].id
  BY <1>2, <1>3
<1>5. p[i] \in AddToLog(log, ops)
  BY <1>2, <1>4 DEF AddToLog
<1> QED BY <1>5 DEF ops

LEMMA MergingSaved ==
    ASSUME RestartTypes, OwnNumbers, NEW u \in User, NEW k, NEW others,
           Merging(u, k, others), SavedInv(u)
    PROVE  SavedInv(u)'
<1> DEFINE first == ToSet(SubSeq(unmerged[u], 1, k))
<1>0. Passed(u, k, others)
  BY PassFacts
<1>1. /\ InSync(doc[u]) /\ IsLog(opLog[u]) /\ base[u] \in Seq(Glyph)
      /\ unmerged[u] \in Seq(Op) /\ others \in Seq(Op) /\ k \in 0..Len(unmerged[u])
      /\ stage[u] = "idle" /\ base'[u] = base[u] /\ file'[u] = file[u]
  BY DEF RestartTypes, Merging
<1>2. /\ Taken(u, k, others) \in Seq(Op)
      /\ ToSet(Taken(u, k, others)) = first \cup ToSet(others)
      /\ \A o \in first : \E i \in 1..k : o = unmerged[u][i]
      /\ opLog'[u] = AddToLog(opLog[u], Taken(u, k, others))
      /\ ToSet(unmerged[u]) = first \cup ToSet(unmerged'[u])
  BY <1>0 DEF Passed
<1>3. /\ IsLog(opLog'[u]) /\ opLog[u] \subseteq opLog'[u]
      /\ \A o \in first : \E p \in opLog'[u] : p.id = o.id
  BY <1>1, <1>2, AddToLogIsLog
<1> HIDE DEF first
<1>4. ASSUME NEW o \in first, o \in Pending(u)
      PROVE  o \in opLog'[u]
  <2>1. PICK i \in 1..k : o = unmerged[u][i]
    BY <1>2
  <2> DEFINE p == SubSeq(unmerged[u], 1, k)
  <2>2. p \in Seq(Op) /\ Len(p) = k /\ \A j \in 1..k : p[j] = unmerged[u][j]
    BY <1>1, Parts
  <2>3. \A j \in 1..i - 1 : unmerged[u][j].id # unmerged[u][i].id
    <3> SUFFICES ASSUME NEW j \in 1..i - 1 PROVE unmerged[u][j].id # unmerged[u][i].id
      OBVIOUS
    <3>1. j \in 1..Len(unmerged[u]) /\ i \in 1..Len(unmerged[u]) /\ j < i
      BY <1>1
    <3>2. unmerged[u][j].id[2] < unmerged[u][i].id[2]
      BY <3>1 DEF OwnNumbers
    <3>3. unmerged[u][i] \in Op
      BY <1>1, <3>1
    <3>4. unmerged[u][i].id[2] \in Nat
      BY <3>3 DEF Op
    <3> QED BY <3>2, <3>4
  <2>4. \A x \in opLog[u] : x.id # o.id
    BY <1>4 DEF Pending
  <2>5. Taken(u, k, others) = p \o others
    BY DEF Taken
  <2> HIDE DEF p
  <2>6. i \in 1..Len(p) /\ p[i] = o /\ \A j \in 1..i - 1 : p[j] = unmerged[u][j]
    BY <1>1, <2>1, <2>2
  <2>7. \A j \in 1..i - 1 : p[j].id # p[i].id
    BY <2>1, <2>3, <2>6
  <2>8. p[i] \in AddToLog(opLog[u], p \o others)
    BY <1>1, <2>2, <2>4, <2>6, <2>7, FirstIsLogged
  <2> QED BY <1>2, <2>5, <2>6, <2>8
<1>5. ToSet(file[u]) \subseteq Chars(doc[u]) \cup Inserted(Pending(u))
  BY <1>1, TouchedAreThere DEF SavedInv
<1>6. CASE opLog'[u] = opLog[u]
  <2>1. doc'[u] = doc[u] /\ stage'[u] = stage[u]
    BY <1>0, <1>6 DEF Passed
  <2>2. Pending(u)' = Pending(u)
    BY <1>2, <1>3, <1>6 DEF Pending
  <2>3. TouchedByPending(u)' = TouchedByPending(u)
    BY <2>1, <2>2 DEF TouchedByPending, Touched
  <2>4. Inserted(Pending(u)) \subseteq Inserted(ToSet(unmerged'[u]))
    BY <2>2 DEF Inserted, Pending
  <2>5. ToSet(file'[u]) \subseteq Chars(doc'[u]) \cup Inserted(ToSet(unmerged'[u]))
    BY <1>1, <1>5, <2>1, <2>4
  <2> QED BY <1>1, <1>6, <2>1, <2>2, <2>3, <2>5 DEF SavedInv
<1>7. CASE opLog'[u] # opLog[u]
  <2>1. doc'[u] = Replay(base[u], opLog'[u]) /\ stage'[u] = "replayed"
    BY <1>0, <1>7 DEF Passed
  <2>2. OneHead(doc'[u]) /\ doc'[u].applied = {o.id : o \in opLog'[u]}
    BY <1>1, <1>3, <2>1, ReplayOneHead, ReplayIsDocument
  <2>3. Chars(doc'[u]) = {NoChar} \cup ToSet(base[u]) \cup Inserted(opLog'[u])
    BY <1>1, <1>3, <2>1, ReplayChars
  <2>4. Inserted(opLog[u]) \subseteq Inserted(opLog'[u])
    BY <1>3 DEF Inserted
  <2>5. Inserted(Pending(u)) \subseteq Inserted(opLog'[u]) \cup Inserted(ToSet(unmerged'[u]))
    <3>1. \A o \in Pending(u) : o \in opLog'[u] \/ o \in ToSet(unmerged'[u])
      BY <1>2, <1>4 DEF Pending
    <3> QED BY <3>1 DEF Inserted
  <2>6. Chars(doc[u]) \subseteq {NoChar} \cup ToSet(base[u])
                                        \cup Inserted(opLog[u]) \cup Inserted(Pending(u))
    BY DEF SavedInv
  <2>7. ToSet(file'[u]) \subseteq Chars(doc'[u]) \cup Inserted(ToSet(unmerged'[u]))
    BY <1>1, <1>5, <2>3, <2>4, <2>5, <2>6
  <2> QED BY <1>1, <2>1, <2>2, <2>3, <2>7 DEF SavedInv
<1> QED BY <1>6, <1>7

LEMMA WriteSaved ==
    ASSUME RestartTypes, NEW u \in User, BeginWrite(u) \/ Rename(u), SavedInv(u)
    PROVE  SavedInv(u)'
<1>1. /\ UNCHANGED <<base, doc, unmerged, opLog>> /\ InSync(doc[u])
      /\ DOMAIN file = User /\ DOMAIN stage = User
  BY DEF RestartTypes, BeginWrite, Rename
<1>2. Pending(u)' = Pending(u)
  BY <1>1 DEF Pending
<1>3. CASE BeginWrite(u)
  <2>1. stage'[u] = "writing" /\ file'[u] = file[u]
    BY <1>1, <1>3 DEF BeginWrite
  <2> QED BY <1>1, <1>2, <2>1 DEF SavedInv
<1>4. CASE Rename(u)
  <2>1. file'[u] = Text(doc[u])
    BY <1>1, <1>4 DEF Rename
  <2>2. ToSet(file'[u]) = CharsShown(doc[u]) /\ CharsShown(doc[u]) \subseteq Chars(doc[u])
    BY <1>1, <2>1, TextShows, TouchedAreThere
  <2> QED BY <1>1, <1>2, <2>2 DEF SavedInv
<1> QED BY <1>3, <1>4

\* A process that has just begun shows what is saved.
LEMMA LoadedSaved ==
    ASSUME NEW content \in Seq(Glyph)
    PROVE  LET d == LoadFromString(content)
           IN  /\ OneHead(d) /\ Chars(d) = {NoChar} \cup ToSet(content)
               /\ CharsShown(d) = ToSet(content)
<1> DEFINE d == LoadFromString(content)
<1>1. IsLog({})
  BY FS_EmptySet DEF IsLog
<1>2. OneHead(d)
  BY <1>1, ReplayOfNothing, ReplayOneHead
<1>3. Chars(d) = {NoChar} \cup ToSet(content)
  BY LoadedChars
<1>4. InSync(d) /\ Text(d) = content
  BY LoadInSync, TextOfLoaded
<1>5. CharsShown(d) = ToSet(content)
  BY <1>4, TextShows
<1> QED BY <1>2, <1>3, <1>5

LEMMA NewProcessSaved ==
    ASSUME RestartTypes, NEW u \in User, Crash(u) \/ Start(u)
    PROVE  SavedInv(u)'
<1>1. Renewed(u) /\ file[u] \in Seq(Glyph)
  BY NewProcessRenews DEF RestartTypes
<1> DEFINE d == LoadFromString(file[u])
<1>2. /\ OneHead(d) /\ Chars(d) = {NoChar} \cup ToSet(file[u]) /\ CharsShown(d) = ToSet(file[u])
  BY <1>1, LoadedSaved
<1> HIDE DEF d
<1>3. doc'[u] = d /\ base'[u] = file[u] /\ file'[u] = file[u] /\ opLog'[u] = {}
  BY <1>1 DEF Renewed, d
<1> QED BY <1>2, <1>3 DEF SavedInv

AllSaved == RestartInv /\ \A u \in User : SavedInv(u)

LEMMA AllSavedAtFirst == Init => AllSaved
<1> SUFFICES ASSUME Init PROVE AllSaved
  OBVIOUS
<1>1. RestartInv
  BY RestartInitInv
<1> DEFINE text == [n \in 1..BaseLen |-> BaseChar(n)]
           d    == LoadFromString(text)
<1>2. \A u \in User : /\ doc[u] = d /\ base[u] = text /\ file[u] = text
                       /\ opLog[u] = {}
  BY DEF Init
<1>3. text \in Seq(Glyph)
  BY BoundAssumption DEF BaseChar, Glyph, ID
<1> HIDE DEF text
<1>4. OneHead(d) /\ Chars(d) = {NoChar} \cup ToSet(text) /\ CharsShown(d) = ToSet(text)
  BY <1>3, LoadedSaved
<1> HIDE DEF d
<1>5. \A u \in User : SavedInv(u)
  BY <1>2, <1>4 DEF SavedInv
<1> QED BY <1>1, <1>5 DEF AllSaved

LEMMA AllSavedStep == AllSaved /\ [Next]_vars => AllSaved'
<1> SUFFICES ASSUME AllSaved, [Next]_vars PROVE AllSaved'
  OBVIOUS
<1>0. RestartInv /\ RestartTypes /\ OwnNumbers /\ \A u \in User : SavedInv(u)
  BY DEF AllSaved, RestartInv
<1>1. RestartInv'
  BY <1>0, RestartStepInv
<1> SUFFICES ASSUME NEW v \in User PROVE SavedInv(v)'
  BY <1>1 DEF AllSaved
<1>2. SavedInv(v)
  BY <1>0
<1> DEFINE Same == /\ doc'[v] = doc[v] /\ opLog'[v] = opLog[v] /\ base'[v] = base[v]
                   /\ file'[v] = file[v] /\ unmerged'[v] = unmerged[v]
                   /\ stage'[v] = stage[v]
<1>3. Same => SavedInv(v)'
  BY <1>2, SavedOfOthers
<1>4. ASSUME NEW u \in User, Type(u) PROVE SavedInv(v)'
  <2>1. PICK op : Typing(u, op)
    BY <1>0, <1>4, TypeIsTyping
  <2>2. CASE v = u
    BY <1>0, <1>2, <2>1, <2>2, TypingSaved
  <2>3. CASE v # u
    <3>1. Same
      BY <1>0, <2>1, <2>3 DEF Typing, RestartTypes
    <3> QED BY <1>3, <3>1
  <2> QED BY <2>2, <2>3
<1>5. ASSUME NEW u \in User, Send(u) PROVE SavedInv(v)'
  <2>1. Same
    BY <1>5 DEF Send
  <2> QED BY <1>3, <2>1
<1>6. ASSUME NEW u \in User, MergeOwn(u) \/ MergeOther(u) PROVE SavedInv(v)'
  <2>1. PICK k, others : Merging(u, k, others)
    BY <1>0, <1>6, PassIsMerging
  <2>2. CASE v = u
    BY <1>0, <1>2, <2>1, <2>2, MergingSaved
  <2>3. CASE v # u
    <3>1. Passed(u, k, others) /\ UNCHANGED <<base, file>>
      BY <1>0, <2>1, PassFacts DEF Merging
    <3>2. Same
      BY <2>3, <3>1 DEF Passed
    <3> QED BY <1>3, <3>2
  <2> QED BY <2>2, <2>3
<1>7. ASSUME NEW u \in User, BeginWrite(u) \/ Rename(u) PROVE SavedInv(v)'
  <2>1. CASE v = u
    BY <1>0, <1>2, <1>7, <2>1, WriteSaved
  <2>2. CASE v # u
    <3>1. Same
      BY <1>0, <1>7, <2>2 DEF BeginWrite, Rename, RestartTypes
    <3> QED BY <1>3, <3>1
  <2> QED BY <2>1, <2>2
<1>8. ASSUME NEW u \in User, Crash(u) \/ Start(u) PROVE SavedInv(v)'
  <2>1. CASE v = u
    BY <1>0, <1>8, <2>1, NewProcessSaved
  <2>2. CASE v # u
    <3>1. Renewed(u)
      BY <1>0, <1>8, NewProcessRenews
    <3>2. Same
      BY <2>2, <3>1 DEF Renewed
    <3> QED BY <1>3, <3>2
  <2> QED BY <2>1, <2>2
<1>9. CASE UNCHANGED vars
  <2>1. Same
    BY <1>9 DEF vars, process
  <2> QED BY <1>3, <2>1
<1> QED BY <1>4, <1>5, <1>6, <1>7, <1>8, <1>9 DEF Next

LEMMA AllStaysSaved == Spec => []AllSaved
<1> QED BY AllSavedAtFirst, AllSavedStep, PTL DEF Spec

\* Whoever crashes or restarts, and also when ids are used again: outside of a pass,
\* file and document differ in nothing but what the user's latest keys touch, those
\* whose operations the merge thread has not taken (editor.cpp 281-294).
THEOREM CrashLosesLatestKeys == Spec => []OnlyLatestKeysUnsaved
<1>1. AllSaved => OnlyLatestKeysUnsaved
  <2> SUFFICES ASSUME AllSaved, NEW u \in User, stage[u] = "idle"
               PROVE  (ToSet(file[u]) \ ToSet(Text(doc[u]))) \cup
                          (ToSet(Text(doc[u])) \ ToSet(file[u]))
                        \subseteq UNION {Touched(u, op) : op \in ToSet(unmerged[u])}
    BY DEF OnlyLatestKeysUnsaved
  <2>1. InSync(doc[u]) /\ SavedInv(u)
    BY DEF AllSaved, RestartInv, RestartTypes
  <2>2. ToSet(Text(doc[u])) = CharsShown(doc[u])
    BY <2>1, TextShows
  <2>3. TouchedByPending(u) \subseteq UNION {Touched(u, op) : op \in ToSet(unmerged[u])}
    BY DEF TouchedByPending, Pending
  <2> QED BY <2>1, <2>2, <2>3 DEF SavedInv
<1> QED BY <1>1, AllStaysSaved, PTL

\* A character that was saved leaves the file only when the document has it deleted,
\* or when it is of a key whose operation the merge thread has not taken
\* (utils.cpp 60-74, editor.cpp 281-294).
THEOREM SavedStaysUntilDeleted == Spec => SavedUntilDeleted
<1> DEFINE Excused == \A u \in User : \A c \in ToSet(file[u]) \ ToSet(file'[u]) :
                          \/ \E e \in ToSet(doc[u].chars) : e.ch = c /\ e.deleted
                          \/ \E op \in ToSet(unmerged[u]) : op.ch = c
<1>1. AllSaved /\ [Next]_vars => [Excused]_vars
  <2> SUFFICES ASSUME AllSaved, [Next]_vars, NEW u \in User,
                      NEW c \in ToSet(file[u]) \ ToSet(file'[u])
               PROVE  \/ \E e \in ToSet(doc[u].chars) : e.ch = c /\ e.deleted
                      \/ \E op \in ToSet(unmerged[u]) : op.ch = c
    OBVIOUS
  <2>1. InSync(doc[u]) /\ SavedInv(u) /\ DOMAIN file = User
    BY DEF AllSaved, RestartInv, RestartTypes
  <2>2. file'[u] # file[u]
    OBVIOUS
  <2>3. \E w \in User : Rename(w)
    BY <2>2 DEF Next, vars, process, Type, Send, MergeOwn, MergeOther, BeginWrite, Crash,
                Start
  <2>4. PICK w \in User : Rename(w)
    BY <2>3
  <2>5. file'[u] = Text(doc[u])
    BY <2>1, <2>2, <2>4 DEF Rename
  <2>6. c \notin CharsShown(doc[u])
    BY <2>1, <2>5, TextShows
  <2>7. c \in Chars(doc[u]) \cup Inserted(ToSet(unmerged[u]))
    BY <2>1 DEF SavedInv
  <2>8. CASE c \in Chars(doc[u])
    <3>1. PICK e \in EntriesOf(doc[u]) : e.ch = c
      BY <2>8 DEF Chars
    <3>2. ~Shows(e)
      BY <2>6, <3>1 DEF CharsShown
    <3>3. e.deleted
      BY <2>1, <3>1, <3>2, HiddenIsDeleted DEF SavedInv
    <3> QED BY <2>1, <3>1, <3>3, EntriesAreElements
  <2>9. CASE c \in Inserted(ToSet(unmerged[u]))
    BY <2>9 DEF Inserted
  <2> QED BY <2>7, <2>8, <2>9
<1> QED BY <1>1, AllStaysSaved, PTL DEF Spec, SavedUntilDeleted
=============================================================================
