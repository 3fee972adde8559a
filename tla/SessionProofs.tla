---------------------------- MODULE SessionProofs ----------------------------
(***************************************************************************)
(* Proofs about one editor and about the whole system, for any users,      *)
(* links, file, capacities and bounds.  First what every step of an editor *)
(* keeps, whatever surrounds it; then the theorems about OneEditor, where  *)
(* the network may bring anything; then those about Session: the threads   *)
(* and links together implement SharedText, and links that are up deliver  *)
(* every operation.                                                        *)
(***************************************************************************)
EXTENDS Session, OneEditor, DocumentProofs

-----------------------------------------------------------------------------
(***************************************************************************)
(* Queues                                                                  *)
(***************************************************************************)
LEMMA SeqOfMore ==
    ASSUME NEW S, NEW T, S \subseteq T, NEW q \in Seq(S)
    PROVE  q \in Seq(T)
  OBVIOUS

LEMMA PushToType ==
    ASSUME NEW S, NEW q \in Seq(S), NEW x \in S, NEW cap \in Nat
    PROVE  /\ PushTo(q, x, cap) \in Seq(S)
           /\ Len(q) <= cap => Len(PushTo(q, x, cap)) <= cap
           /\ \A i \in DOMAIN PushTo(q, x, cap) :
                \/ PushTo(q, x, cap)[i] = x
                \/ i \in DOMAIN q /\ PushTo(q, x, cap)[i] = q[i]
  BY DEF PushTo

LEMMA TailType ==
    ASSUME NEW S, NEW q \in Seq(S), q # <<>>
    PROVE  /\ Head(q) \in S
           /\ Tail(q) \in Seq(S)
           /\ Len(Tail(q)) <= Len(q)
  OBVIOUS

LEMMA CapsAreNatural ==
    {LocalCap, InboundCap, OutboundCap, SyncCap} \subseteq Nat
  BY CapAssumption

\* The log grows by operations of the pass.
LEMMA AddToLogType ==
    ASSUME NEW S, NEW log \in SUBSET S, NEW ops \in Seq(S)
    PROVE  /\ AddToLog(log, ops) \in SUBSET S
           /\ log \subseteq AddToLog(log, ops)
           /\ \A o \in AddToLog(log, ops) :
                o \in log \/ \E i \in DOMAIN ops : o = ops[i]
  BY DEF AddToLog

\* A new operation takes nothing away from what the queues and logs may hold.
LEMMA MoreIssued ==
    ASSUME NEW S, NEW T, S \subseteq T
    PROVE  /\ Seq(S) \subseteq Seq(T)
           /\ Seq(Seq(S)) \subseteq Seq(Seq(T))
           /\ Seq(SUBSET S) \subseteq Seq(SUBSET T)
<1>1. Seq(S) \subseteq Seq(T)
  BY SeqOfMore
<1>2. \A q \in Seq(Seq(S)) : q \in Seq(Seq(T))
  BY <1>1, SeqOfMore
<1>3. \A q \in Seq(SUBSET S) : q \in Seq(SUBSET T)
  BY SeqOfMore
<1> QED BY <1>1, <1>2, <1>3

LEMMA BaseIsContent == Base \in Seq(Glyph) /\ Len(Base) = BaseLen
<1>1. \A n \in 1..BaseLen : BaseChar(n) \in Glyph
  BY BoundAssumption DEF BaseChar, Glyph, ID
<1>2. Base = [n \in 1..BaseLen |-> Base[n]] /\ \A n \in 1..BaseLen : Base[n] \in Glyph
  BY <1>1 DEF Base
<1> QED BY <1>2, BoundAssumption, IsASeq

-----------------------------------------------------------------------------
(***************************************************************************)
(* The invariant of an editor.                                             *)
(***************************************************************************)
EditorTypes ==
    /\ EditorTypeOK
    /\ issued \subseteq Op /\ IsFiniteSet(issued)
    /\ fallback \in [User -> Nat] /\ DOMAIN doc = User
    /\ \A u \in User : mainPc[u] = "push" => pending[u] # <<>>

Unique == \A o, p \in issued : o.id = p.id => o = p

\* Every operation of a user has a number already used and a time not beyond the
\* user's clock.
NumbersUsed ==
    \A o \in issued : o.id[1] \in User => /\ o.id[2] < opSeq[o.id[1]]
                                          /\ o.ts <= clock[o.id[1]]

\* All numbers used are those of operations.
AllNumbersUsed ==
    \A u \in User : Cardinality({o \in issued : o.id[1] = u}) = opSeq[u] - 1

OwnInHand ==
    \A u \in User :
        /\ \A i \in DOMAIN pending[u] : pending[u][i].id[1] = u
        /\ \A i \in DOMAIN localOps[u] : localOps[u][i].id[1] = u

\* Nothing shown, logged or about to be logged is later than the clock.
BehindClock ==
    \A u \in User :
        /\ \A o \in Shown(u) \cup opLog[u] : o.ts <= clock[u]
        /\ \A i \in DOMAIN batch[u] : batch[u][i].ts <= clock[u]

\* The document shows what is logged and, besides, only what its user typed.
ShownIsLoggedOrOwn ==
    \A u \in User : /\ opLog[u] \subseteq Shown(u)
                    /\ \A o \in Shown(u) : o \in opLog[u] \/ o.id[1] = u

EditorInv ==
    /\ EditorTypes /\ Unique /\ NumbersUsed /\ AllNumbersUsed /\ OwnInHand
    /\ BehindClock /\ ShownIsLoggedOrOwn /\ DocumentIsReplay

\* The parts of the types the steps below need.
LEMMA TypeFacts ==
    ASSUME EditorTypes
    PROVE  /\ clock \in [User -> Nat]
           /\ opSeq \in [User -> Nat \ {0}]
           /\ opLog \in [User -> SUBSET issued]
           /\ pending \in [User -> Seq(issued)] /\ batch \in [User -> Seq(issued)]
           /\ localOps \in [User -> Seq(issued)] /\ inbound \in [User -> Seq(issued)]
           /\ fallback \in [User -> Nat] /\ DOMAIN doc = User
           /\ \A u \in User : mainPc[u] = "push" => pending[u] # <<>>
           /\ issued \subseteq Op /\ IsFiniteSet(issued)
           /\ \A o \in issued : o.ts \in Nat \ {0} /\ o.id[2] \in Nat /\ o.id[1] \in Nat \ {0}
<1>1. 1..MaxOps + 1 \subseteq Nat \ {0}
  BY BoundAssumption
<1>2. \A o \in Op : o.ts \in Nat \ {0} /\ o.id[2] \in Nat /\ o.id[1] \in Nat \ {0}
  BY DEF Op
<1> QED BY <1>1, <1>2 DEF EditorTypes, EditorTypeOK

\* Any issued operations make a log.
LEMMA IssuedAreLogs ==
    ASSUME EditorTypes, Unique, NEW log, log \subseteq issued
    PROVE  IsLog(log)
<1>1. IsFiniteSet(log) /\ issued \subseteq Op
  BY TypeFacts, FS_Subset
<1> QED BY <1>1 DEF IsLog, Unique

\* Where ids are unique, a set of operations is known by its ids.
LEMMA KnownByIds ==
    ASSUME NEW all, \A o, p \in all : o.id = p.id => o = p, NEW S \in SUBSET all
    PROVE  {o \in all : o.id \in {p.id : p \in S}} = S
  OBVIOUS

\* The documents of the users.
LEMMA DocumentFacts ==
    ASSUME EditorInv, NEW u \in User
    PROVE  /\ InSync(doc[u])
           /\ DOMAIN doc[u].index = Spoken(BaseLen, Shown(u))
           /\ doc[u].applied = {o.id : o \in Shown(u)}
           /\ Shown(u) \subseteq issued /\ IsLog(Shown(u))
           /\ OneHead(doc[u])
<1>1. Shown(u) \subseteq issued
  BY DEF Shown
<1>2. IsLog(Shown(u))
  BY <1>1, IssuedAreLogs DEF EditorInv
<1>3. doc[u] = Replay(Base, Shown(u))
  BY DEF EditorInv, DocumentIsReplay
<1>4. Base \in Seq(Glyph) /\ Len(Base) = BaseLen
  BY BaseIsContent
<1>5. /\ InSync(doc[u])
      /\ DOMAIN doc[u].index = Spoken(BaseLen, Shown(u))
      /\ doc[u].applied = {o.id : o \in Shown(u)}
  BY <1>2, <1>3, <1>4, ReplayIsDocument
<1>6. OneHead(doc[u])
  <2>1. \A o \in Shown(u) : o.id[1] \in Nat
    BY <1>2 DEF IsLog, Op
  <2> QED BY <1>5, <2>1 DEF OneHead, Spoken, IsHead, HeadID, BaseChar
<1> QED BY <1>1, <1>2, <1>5, <1>6

LEMMA CursorIsInText ==
    ASSUME EditorInv, NEW u \in User
    PROVE  /\ VisibleCharCount(doc[u]) \in Nat
           /\ CursorPos(u) \in 0..VisibleCharCount(doc[u])
<1> DEFINE p == PositionOfCharID(doc[u], anchor[u])
           n == VisibleCharCount(doc[u])
<1>1. p \in Nat \cup {-1}
  BY DocumentFacts, PositionIsNumber
<1>2. n \in Nat
  BY DocumentFacts, VisibleAreThere
<1>3. fallback[u] \in Nat
  BY TypeFacts DEF EditorInv
<1>4. ~IsHead(anchor[u]) /\ p >= 0 => p \in 0..n - 1
  BY DocumentFacts, PositionIsVisible
<1>5. CursorPos(u) = IF IsHead(anchor[u]) THEN 0
                     ELSE IF p >= 0 THEN p + 1
                     ELSE IF fallback[u] < n THEN fallback[u] ELSE n
  BY DEF CursorPos
<1> HIDE DEF p, n
<1>6. CursorPos(u) \in 0..n
  BY <1>1, <1>2, <1>3, <1>4, <1>5
<1> QED BY <1>2, <1>6 DEF n

-----------------------------------------------------------------------------
(***************************************************************************)
(* What a key makes: an operation with the next number, later than the     *)
(* clock, on a character the document has.                                 *)
(***************************************************************************)
Makes(u, op) ==
    /\ op \in Op /\ op.id = NewID(u) /\ op.ts = clock[u] + 1
    /\ op.ref \in DOMAIN doc[u].index
    /\ \/ op = Insert(op.id, op.ts, op.ref, op.id)
       \/ op = Delete(op.id, op.ts, op.ref) /\ op.ref # HeadID

Typing(u, op, pos) ==
    /\ MayType(u) /\ Makes(u, op) /\ pos \in Nat /\ Perform(u, op, pos)

LEMMA InsertMakes ==
    ASSUME EditorInv, NEW u \in User, NEW ref \in DOMAIN doc[u].index \cap ID
    PROVE  Makes(u, Insert(NewID(u), clock[u] + 1, ref, NewID(u)))
<1>1. clock[u] \in Nat /\ opSeq[u] \in Nat /\ u \in Nat \ {0}
  BY TypeFacts, UserAssumption DEF EditorInv
<1>2. NewID(u) \in (Nat \ {0}) \X Nat /\ NewID(u) \in Glyph /\ clock[u] + 1 \in Nat \ {0}
  BY <1>1 DEF NewID, Glyph, ID
<1> QED BY <1>2 DEF Makes, Insert, Op

LEMMA DeleteMakes ==
    ASSUME EditorInv, NEW u \in User, NEW ref \in DOMAIN doc[u].index \cap ID,
           ref # HeadID
    PROVE  Makes(u, Delete(NewID(u), clock[u] + 1, ref))
<1>1. clock[u] \in Nat /\ opSeq[u] \in Nat /\ u \in Nat \ {0}
  BY TypeFacts, UserAssumption DEF EditorInv
<1>2. NewID(u) \in (Nat \ {0}) \X Nat /\ NoChar \in Glyph /\ clock[u] + 1 \in Nat \ {0}
  BY <1>1 DEF NewID, Glyph
<1> QED BY <1>2 DEF Makes, Delete, Op

LEMMA KeyMakes ==
    ASSUME EditorInv, NEW u \in User, TypeChar(u) \/ Backspace(u) \/ ForwardDelete(u)
    PROVE  \E op, pos : Typing(u, op, pos)
<1> DEFINE pos == CursorPos(u)
           n == VisibleCharCount(doc[u])
<1>1. n \in Nat /\ pos \in 0..n
  BY CursorIsInText
<1>2. InSync(doc[u])
  BY DocumentFacts
<1>3. \A i \in Int : /\ VisibleCharID(doc[u], i) \in DOMAIN doc[u].index \cap ID
                     /\ i \in 0..n - 1 => VisibleCharID(doc[u], i) # HeadID
  BY <1>2, VisibleIDIsThere
<1>4. HeadID \in DOMAIN doc[u].index \cap ID
  BY <1>2, Places DEF HeadID, ID
<1> HIDE DEF n
<1>5. CASE TypeChar(u)
  <2> DEFINE op == Insert(NewID(u), clock[u] + 1, CharBefore(doc[u], pos), NewID(u))
  <2>1. CharBefore(doc[u], pos) \in DOMAIN doc[u].index \cap ID
    BY <1>1, <1>3, <1>4 DEF CharBefore
  <2>2. Makes(u, op)
    BY <2>1, InsertMakes
  <2>3. MayType(u) /\ Perform(u, op, pos + 1) /\ pos + 1 \in Nat
    BY <1>1, <1>5 DEF TypeChar
  <2> QED BY <2>2, <2>3 DEF Typing
<1>6. CASE Backspace(u)
  <2> DEFINE op == Delete(NewID(u), clock[u] + 1, VisibleCharID(doc[u], pos - 1))
  <2>1. MayType(u) /\ Perform(u, op, pos - 1) /\ pos > 0
    BY <1>6 DEF Backspace
  <2>2. pos - 1 \in 0..n - 1 /\ pos - 1 \in Nat
    BY <1>1, <2>1
  <2>3. Makes(u, op)
    BY <1>3, <2>2, DeleteMakes
  <2> QED BY <2>1, <2>2, <2>3 DEF Typing
<1>7. CASE ForwardDelete(u)
  <2> DEFINE op == Delete(NewID(u), clock[u] + 1, VisibleCharID(doc[u], pos))
  <2>1. MayType(u) /\ Perform(u, op, pos) /\ pos < n
    BY <1>7 DEF ForwardDelete, n
  <2>2. pos \in 0..n - 1 /\ pos \in Nat
    BY <1>1, <2>1
  <2>3. Makes(u, op)
    BY <1>3, <2>2, DeleteMakes
  <2> QED BY <2>1, <2>2, <2>3 DEF Typing
<1> QED BY <1>5, <1>6, <1>7

-----------------------------------------------------------------------------
(***************************************************************************)
(* Types                                                                   *)
(***************************************************************************)
LEMMA InitTypes ==
    ASSUME EditorInit
    PROVE  EditorTypes
<1>1. \A u \in User : /\ Len(localOps[u]) <= LocalCap /\ Len(inbound[u]) <= InboundCap
                      /\ Len(outbound[u]) <= OutboundCap /\ Len(syncs[u]) <= SyncCap
  BY CapsAreNatural DEF EditorInit
<1>2. EditorTypeOK
  BY <1>1, BoundAssumption DEF EditorInit, EditorTypeOK
<1> QED BY <1>2, FS_EmptySet DEF EditorInit, EditorTypes

LEMMA TypingTypes ==
    ASSUME EditorTypes, NEW u \in User, NEW op, NEW pos, Typing(u, op, pos)
    PROVE  EditorTypes'
<1> USE DEF EditorTypes, EditorTypeOK
<1>1. /\ MayType(u) /\ Perform(u, op, pos) /\ pos \in Nat /\ op \in Op
      /\ op.ts = clock[u] + 1
  BY DEF Typing, Makes
<1>2. issued' = issued \cup {op} /\ issued \subseteq issued' /\ op \in issued'
  BY <1>1 DEF Perform
<1>3. /\ Seq(issued) \subseteq Seq(issued')
      /\ Seq(Seq(issued)) \subseteq Seq(Seq(issued'))
      /\ Seq(SUBSET issued) \subseteq Seq(SUBSET issued')
  BY <1>2, MoreIssued
<1>4. /\ clock' \in [User -> Nat] /\ opSeq' \in [User -> 1..MaxOps + 1]
      /\ fallback' \in [User -> Nat]
  <2>1. clock' = [clock EXCEPT ![u] = clock[u] + 1] /\ clock[u] \in Nat
    BY <1>1 DEF Perform
  <2>2. /\ opSeq' = [opSeq EXCEPT ![u] = opSeq[u] + 1]
        /\ opSeq[u] \in 1..MaxOps + 1 /\ opSeq[u] <= MaxOps /\ MaxOps \in Nat
    BY <1>1, BoundAssumption DEF Perform, MayType
  <2>3. opSeq[u] + 1 \in 1..MaxOps + 1
    BY <2>2
  <2>4. fallback' = [fallback EXCEPT ![u] = pos] /\ pos \in Nat
    BY <1>1 DEF Perform, SetCursor
  <2>5. clock' \in [User -> Nat]
    BY <1>1, <2>1
  <2>6. opSeq' \in [User -> 1..MaxOps + 1]
    BY <1>1, <2>2, <2>3
  <2>7. fallback' \in [User -> Nat]
    BY <1>1, <2>4
  <2> QED BY <2>5, <2>6, <2>7
<1>5. /\ mainPc' \in [User -> {"key", "push", "flush", "stopped"}]
      /\ pending' \in [User -> Seq(issued')]
      /\ \A v \in User : mainPc'[v] = "push" => pending'[v] # <<>>
  BY <1>1, <1>2, <1>3 DEF Perform
<1>6. /\ UNCHANGED <<running, mergePc, opLog, batch, localOps, inbound, outbound, syncs>>
      /\ DOMAIN doc' = User
  BY <1>1 DEF Perform, mergeVars, netQueues
<1>7. opLog' \in [User -> SUBSET issued'] /\ issued' \subseteq Op /\ IsFiniteSet(issued')
  <2>1. IsFiniteSet(issued')
    BY <1>2, FS_AddElement
  <2> QED BY <1>1, <1>2, <1>6, <2>1
<1>8. /\ batch' \in [User -> Seq(issued')] /\ localOps' \in [User -> Seq(issued')]
      /\ inbound' \in [User -> Seq(issued')]
      /\ outbound' \in [User -> Seq(Seq(issued'))]
      /\ syncs' \in [User -> Seq(SUBSET issued')]
  BY <1>3, <1>6
<1> QED BY <1>4, <1>5, <1>6, <1>7, <1>8

LEMMA MoveCursorTypes ==
    ASSUME EditorInv, NEW u \in User, MoveCursor(u)
    PROVE  EditorTypes'
<1>1. VisibleCharCount(doc[u]) \in Nat
  BY CursorIsInText
<1>2. fallback \in [User -> Nat]
  BY TypeFacts DEF EditorInv
<1>3. fallback' \in [User -> Nat]
  BY <1>1, <1>2 DEF MoveCursor, SetCursor
<1> QED BY <1>3 DEF EditorInv, MoveCursor, EditorTypes, EditorTypeOK, mergeVars, bothVars,
                    netQueues

LEMMA QuitTypes ==
    ASSUME EditorTypes, NEW u \in User, Quit(u)
    PROVE  EditorTypes'
  BY DEF Quit, EditorTypes, EditorTypeOK, mergeVars, netQueues

LEMMA PushLocalFits ==
    ASSUME EditorTypes, NEW u \in User, PushLocal(u)
    PROVE  /\ PushTo(localOps[u], pending[u][1], LocalCap) \in Seq(issued)
           /\ Len(PushTo(localOps[u], pending[u][1], LocalCap)) <= LocalCap
<1>1. pending[u][1] \in issued
  BY TypeFacts DEF PushLocal
<1>2. localOps[u] \in Seq(issued) /\ Len(localOps[u]) <= LocalCap /\ LocalCap \in Nat
  BY CapsAreNatural DEF EditorTypes, EditorTypeOK
<1> QED BY <1>1, <1>2, PushToType

LEMMA HandTypes ==
    ASSUME EditorTypes, NEW u \in User, Hand(u)
    PROVE  EditorTypes'
<1> USE DEF EditorTypes, EditorTypeOK
<1>1. CASE PushLocal(u)
  <2>1. /\ localOps' \in [User -> Seq(issued')]
        /\ \A v \in User : Len(localOps'[v]) <= LocalCap
    BY <1>1, PushLocalFits DEF PushLocal
  <2> QED BY <1>1, <2>1 DEF PushLocal, mergeVars, netQueues
<1>2. CASE FlushBatch(u)
  <2>1. /\ PushTo(outbound[u], pending[u], OutboundCap) \in Seq(Seq(issued))
        /\ Len(PushTo(outbound[u], pending[u], OutboundCap)) <= OutboundCap
    BY PushToType, CapsAreNatural
  <2>2. /\ outbound' \in [User -> Seq(Seq(issued'))]
        /\ \A v \in User : Len(outbound'[v]) <= OutboundCap
    BY <1>2, <2>1 DEF FlushBatch
  <2>3. /\ pending' \in [User -> Seq(issued')]
        /\ mainPc' \in [User -> {"key", "push", "flush", "stopped"}]
        /\ \A v \in User : mainPc'[v] = "push" => pending'[v] # <<>>
    BY <1>2 DEF FlushBatch
  <2> QED BY <1>2, <2>2, <2>3 DEF FlushBatch, mergeVars, bothVars
<1> QED BY <1>1, <1>2 DEF Hand

LEMMA SnapshotFits ==
    ASSUME EditorTypes, NEW u \in User
    PROVE  /\ PushTo(syncs[u], opLog[u], SyncCap) \in Seq(SUBSET issued)
           /\ Len(PushTo(syncs[u], opLog[u], SyncCap)) <= SyncCap
<1>1. /\ syncs[u] \in Seq(SUBSET issued) /\ Len(syncs[u]) <= SyncCap
      /\ opLog[u] \in SUBSET issued /\ SyncCap \in Nat
  BY CapsAreNatural DEF EditorTypes, EditorTypeOK
<1> QED BY <1>1, PushToType

LEMMA MergeTypes ==
    ASSUME EditorTypes, NEW u \in User, Merge(u)
    PROVE  EditorTypes'
<1> USE DEF EditorTypes, EditorTypeOK
<1>1. CASE DrainLocal(u)
  <2>1. /\ batch' \in [User -> Seq(issued')] /\ localOps' \in [User -> Seq(issued')]
        /\ mergePc' \in [User -> {"local", "inbound", "tick", "write", "peers", "stopped"}]
        /\ \A v \in User : Len(localOps'[v]) <= LocalCap
    BY <1>1, CapsAreNatural DEF DrainLocal, GoTo, mainVars
  <2> QED BY <1>1, <2>1 DEF DrainLocal, mainVars, netQueues
<1>2. CASE ReceiveOp(u)
  <2> DEFINE op == Head(inbound[u])
  <2>1. /\ op \in issued /\ Tail(inbound[u]) \in Seq(issued)
        /\ Len(Tail(inbound[u])) <= InboundCap
    BY <1>2, TailType, CapsAreNatural DEF ReceiveOp
  <2>2. Later(clock[u], op.ts) \in Nat
    BY <2>1, TypeFacts DEF Later
  <2>3. Append(batch[u], op) \in Seq(issued)
    BY <2>1
  <2> HIDE DEF op
  <2>4. TakeIn(u, Later(clock[u], op.ts), Append(batch[u], op))
    BY <1>2 DEF ReceiveOp, op
  <2>5. /\ batch' \in [User -> Seq(issued')] /\ inbound' \in [User -> Seq(issued')]
        /\ clock' \in [User -> Nat]
        /\ mergePc' \in [User -> {"local", "inbound", "tick", "write", "peers", "stopped"}]
        /\ \A v \in User : Len(inbound'[v]) <= InboundCap
    BY <2>1, <2>2, <2>3, <2>4 DEF TakeIn, GoTo, mainVars
  <2> QED BY <2>4, <2>5 DEF TakeIn, mainVars
<1>3. CASE ReceiveTick(u)
  <2>1. /\ clock' \in [User -> Nat]
        /\ mergePc' \in [User -> {"local", "inbound", "tick", "write", "peers", "stopped"}]
    BY <1>3 DEF ReceiveTick, GoTo
  <2> QED BY <1>3, <2>1 DEF ReceiveTick, mainVars, netQueues
<1>4. CASE MergeOps(u)
  <2>1. PICK log, d, pc : /\ EndPass(u, log, d, pc)
                          /\ log \in SUBSET issued
                          /\ pc \in {"write", "peers"}
    BY <1>4, AddToLogType DEF MergeOps
  <2>2. /\ opLog' \in [User -> SUBSET issued'] /\ batch' \in [User -> Seq(issued')]
        /\ mergePc' \in [User -> {"local", "inbound", "tick", "write", "peers", "stopped"}]
    BY <2>1 DEF EndPass, GoTo, mainVars
  <2> QED BY <2>1, <2>2 DEF EndPass, mainVars, netQueues
<1>5. ASSUME syncs' = [syncs EXCEPT ![u] = PushTo(@, opLog[u], SyncCap)], UNCHANGED issued
      PROVE  /\ syncs' \in [User -> Seq(SUBSET issued')]
             /\ \A v \in User : Len(syncs'[v]) <= SyncCap
  <2> QED BY <1>5, SnapshotFits
<1>6. CASE WriteFile(u)
  BY <1>5, <1>6 DEF WriteFile, GoTo, mainVars, bothVars
<1>7. CASE NoticePeers(u)
  <2>1. \/ syncs' = [syncs EXCEPT ![u] = PushTo(@, opLog[u], SyncCap)]
        \/ syncs' = syncs
    BY <1>7 DEF NoticePeers
  <2>2. UNCHANGED issued
    BY <1>7 DEF NoticePeers, mainVars
  <2>3. /\ syncs' \in [User -> Seq(SUBSET issued')]
        /\ \A v \in User : Len(syncs'[v]) <= SyncCap
    BY <1>5, <2>1, <2>2
  <2> QED BY <1>7, <2>3 DEF NoticePeers, GoTo, mainVars, bothVars
<1>8. CASE StopMerge(u)
  BY <1>8 DEF StopMerge, GoTo, mainVars, bothVars, netQueues
<1> QED BY <1>1, <1>2, <1>3, <1>4, <1>6, <1>7, <1>8 DEF Merge

-----------------------------------------------------------------------------
(***************************************************************************)
(* Every step of an editor keeps its invariant.                            *)
(***************************************************************************)
LEMMA InitInv ==
    ASSUME EditorInit
    PROVE  EditorInv
<1>1. EditorTypes
  BY InitTypes
<1>2. issued = {} /\ \A u \in User : opSeq[u] = 1 /\ opLog[u] = {} /\ batch[u] = <<>>
  BY DEF EditorInit
<1>3. \A u \in User : pending[u] = <<>> /\ localOps[u] = <<>>
  BY DEF EditorInit
<1>4. Unique /\ NumbersUsed /\ OwnInHand
  BY <1>2, <1>3 DEF Unique, NumbersUsed, OwnInHand
<1>5. AllNumbersUsed
  <2>1. \A u \in User : {o \in issued : o.id[1] = u} = {}
    BY <1>2
  <2> QED BY <1>2, <2>1, FS_EmptySet DEF AllNumbersUsed
<1>6. \A u \in User : Shown(u) = {} /\ doc[u] = LoadFromString(Base)
  BY <1>2 DEF EditorInit, Shown
<1>7. BehindClock /\ ShownIsLoggedOrOwn
  BY <1>2, <1>6 DEF BehindClock, ShownIsLoggedOrOwn
<1>8. DocumentIsReplay
  BY <1>6, ReplayOfNothing DEF DocumentIsReplay
<1> QED BY <1>1, <1>4, <1>5, <1>7, <1>8 DEF EditorInv

\* A step that moves operations on and may raise the clock.
LEMMA NothingShown ==
    ASSUME EditorInv, EditorTypes', OwnInHand',
           UNCHANGED <<issued, opSeq, doc, opLog>>,
           \A u \in User : clock'[u] \in Nat /\ clock[u] <= clock'[u],
           \A u \in User : \A i \in DOMAIN batch'[u] : batch'[u][i].ts <= clock'[u]
    PROVE  EditorInv'
<1>1. \A u \in User : Shown(u)' = Shown(u)
  BY DEF Shown
<1>2. \A u \in User : opLog[u] \subseteq issued /\ clock[u] \in Nat
  BY TypeFacts DEF EditorInv
<1>3. \A o \in issued : o.ts \in Nat
  BY TypeFacts DEF EditorInv
<1>4. BehindClock'
  <2> SUFFICES ASSUME NEW u \in User
               PROVE  /\ \A o \in Shown(u)' \cup opLog'[u] : o.ts <= clock'[u]
                      /\ \A i \in DOMAIN batch'[u] : batch'[u][i].ts <= clock'[u]
    BY DEF BehindClock
  <2>1. \A o \in Shown(u) \cup opLog[u] : o \in issued /\ o.ts <= clock[u]
    BY <1>2 DEF EditorInv, BehindClock, Shown
  <2> QED BY <1>1, <1>2, <1>3, <2>1
<1>5. NumbersUsed'
  BY <1>2, <1>3 DEF EditorInv, NumbersUsed
<1>6. Unique' /\ AllNumbersUsed'
  BY DEF EditorInv, Unique, AllNumbersUsed
<1>7. ShownIsLoggedOrOwn' /\ DocumentIsReplay'
  BY <1>1 DEF EditorInv, ShownIsLoggedOrOwn, DocumentIsReplay
<1> QED BY <1>4, <1>5, <1>6, <1>7 DEF EditorInv

\* A key that makes an operation.  Its number is new.
LEMMA TypingIsNew ==
    ASSUME EditorInv, NEW u \in User, NEW op, NEW pos, Typing(u, op, pos)
    PROVE  /\ op.id[1] = u /\ op.id[2] = opSeq[u] /\ op \in Op
           /\ \A o \in issued : o.id # op.id
           /\ op \notin issued /\ issued' = issued \cup {op}
           /\ Unique'
<1>1. op.id = <<u, opSeq[u]>> /\ issued' = issued \cup {op} /\ op \in Op
  BY DEF Typing, Makes, NewID, Perform
<1>2. \A o \in issued : o.id # op.id
  <2> SUFFICES ASSUME NEW o \in issued, o.id = op.id PROVE FALSE
    OBVIOUS
  <2>1. o.id[1] = u /\ o.id[2] = opSeq[u] /\ opSeq[u] \in Nat
    BY <1>1, TypeFacts DEF EditorInv
  <2> QED BY <2>1 DEF EditorInv, NumbersUsed
<1>3. Unique'
  BY <1>1, <1>2 DEF EditorInv, Unique
<1> QED BY <1>1, <1>2, <1>3

LEMMA TypingShows ==
    ASSUME EditorInv, EditorTypes', NEW u \in User, NEW op, NEW pos, Typing(u, op, pos)
    PROVE  /\ Shown(u)' = Shown(u) \cup {op}
           /\ doc'[u] = Replay(Base, Shown(u) \cup {op})
           /\ \A v \in User \ {u} : Shown(v)' = Shown(v) /\ doc'[v] = doc[v]
<1>1. /\ op \in Op /\ op \notin issued /\ issued' = issued \cup {op} /\ Unique'
      /\ \A o \in issued : o.id # op.id
  BY TypingIsNew
<1>2. /\ op.ts = clock[u] + 1
      /\ doc' = [doc EXCEPT ![u] = ApplyOperation(doc[u], op)]
  BY DEF Typing, Makes, Perform
<1>3. \A v \in User : /\ Shown(v) \subseteq issued /\ IsLog(Shown(v))
                      /\ doc[v].applied = {o.id : o \in Shown(v)}
  BY DocumentFacts
<1>4. IsLog(Shown(u) \cup {op})
  <2>1. Shown(u) \cup {op} \subseteq issued'
    BY <1>1, <1>3
  <2>2. IsFiniteSet(issued') /\ issued' \subseteq Op
    BY DEF EditorTypes
  <2> QED BY <1>1, <2>1, <2>2, FS_Subset DEF IsLog, Unique
<1>5. AllBefore(Shown(u), op)
  <2>1. \A o \in Shown(u) : o.ts <= clock[u] /\ o.ts \in Nat /\ clock[u] \in Nat
    BY <1>3, TypeFacts DEF EditorInv, BehindClock
  <2> QED BY <1>2, <2>1 DEF AllBefore, Before
<1>6. Replay(Base, Shown(u) \cup {op}) = ApplyOperation(doc[u], op)
  <2>1. doc[u] = Replay(Base, Shown(u)) /\ op \notin Shown(u)
    BY <1>1, <1>3 DEF EditorInv, DocumentIsReplay
  <2>2. Replay(Base, Shown(u) \cup {op}) = ApplyOperation(Replay(Base, Shown(u)), op)
    BY <1>3, <1>4, <1>5, <2>1, ReplayOfLatest
  <2> QED BY <2>1, <2>2
<1>7. doc'[u] = ApplyOperation(doc[u], op) /\ \A v \in User \ {u} : doc'[v] = doc[v]
  BY <1>2, TypeFacts DEF EditorInv
<1>8. doc'[u] = Replay(Base, Shown(u) \cup {op})
  BY <1>6, <1>7
<1>9. Shown(u)' = Shown(u) \cup {op}
  <2> DEFINE S == Shown(u) \cup {op}
  <2>1. doc'[u].applied = {o.id : o \in S}
    BY <1>4, <1>8, BaseIsContent, ReplayIsDocument
  <2>2. S \in SUBSET issued' /\ \A o, p \in issued' : o.id = p.id => o = p
    BY <1>1, <1>3 DEF Unique
  <2> HIDE DEF S
  <2>3. {o \in issued' : o.id \in {p.id : p \in S}} = S
    BY <2>2, KnownByIds
  <2> QED BY <2>1, <2>3 DEF Shown, S
<1>10. \A v \in User \ {u} : Shown(v)' = Shown(v) /\ doc'[v] = doc[v]
  <2> SUFFICES ASSUME NEW v \in User \ {u}
               PROVE  Shown(v)' = Shown(v) /\ doc'[v] = doc[v]
    OBVIOUS
  <2>1. doc'[v] = doc[v]
    BY <1>7
  <2>2. op.id \notin doc[v].applied
    BY <1>1, <1>3
  <2> QED BY <1>1, <2>1, <2>2 DEF Shown
<1> QED BY <1>8, <1>9, <1>10

LEMMA TypingInv ==
    ASSUME EditorInv, NEW u \in User, NEW op, NEW pos, Typing(u, op, pos)
    PROVE  EditorInv'
<1>1. EditorTypes'
  BY TypingTypes DEF EditorInv
<1>2. /\ op.id[1] = u /\ op.id[2] = opSeq[u] /\ op \in Op /\ op.ts = clock[u] + 1
      /\ \A o \in issued : o.id # op.id
      /\ op \notin issued /\ issued' = issued \cup {op} /\ Unique'
  BY TypingIsNew DEF Typing, Makes
<1>3. /\ clock' = [clock EXCEPT ![u] = clock[u] + 1]
      /\ opSeq' = [opSeq EXCEPT ![u] = opSeq[u] + 1]
      /\ pending' = [pending EXCEPT ![u] = <<op>>]
      /\ UNCHANGED <<localOps, batch, opLog>>
  BY <1>2 DEF Typing, Perform, mergeVars
<1>4. /\ clock \in [User -> Nat] /\ opSeq \in [User -> Nat] /\ opLog \in [User -> SUBSET issued]
      /\ batch \in [User -> Seq(issued)] /\ pending \in [User -> Seq(issued)]
      /\ IsFiniteSet(issued) /\ \A o \in issued : o.ts \in Nat
  BY TypeFacts DEF EditorInv
<1>5. \A v \in User : /\ opSeq[v] \in Nat /\ opSeq'[v] \in Nat /\ opSeq[v] <= opSeq'[v]
                      /\ clock[v] \in Nat /\ clock'[v] \in Nat /\ clock[v] <= clock'[v]
                      /\ v # u => opSeq'[v] = opSeq[v]
  BY <1>3, <1>4
<1>6. NumbersUsed'
  <2>1. op.id[2] < opSeq'[u] /\ op.ts <= clock'[u]
    BY <1>2, <1>3, <1>4
  <2>2. ASSUME NEW o \in issued, o.id[1] \in User
        PROVE  o.id[2] < opSeq'[o.id[1]] /\ o.ts <= clock'[o.id[1]]
    <3>1. /\ o.id[2] < opSeq[o.id[1]] /\ o.ts <= clock[o.id[1]]
          /\ o.id[2] \in Nat /\ o.ts \in Nat
      BY <2>2, TypeFacts DEF EditorInv, NumbersUsed
    <3> QED BY <1>5, <2>2, <3>1
  <2> QED BY <1>2, <2>1, <2>2 DEF NumbersUsed
<1>7. AllNumbersUsed'
  <2> SUFFICES ASSUME NEW v \in User
               PROVE  Cardinality({o \in issued' : o.id[1] = v}) = opSeq'[v] - 1
    BY DEF AllNumbersUsed
  <2> DEFINE S == {o \in issued : o.id[1] = v}
  <2>1. IsFiniteSet(S) /\ op \notin S /\ Cardinality(S) = opSeq[v] - 1
    BY <1>2, <1>4, FS_Subset DEF EditorInv, AllNumbersUsed
  <2>2. CASE v = u
    <3>1. {o \in issued' : o.id[1] = v} = S \cup {op}
      BY <1>2, <2>2
    <3> HIDE DEF S
    <3>2. Cardinality(S \cup {op}) = Cardinality(S) + 1
      BY <2>1, FS_AddElement
    <3>3. opSeq'[v] = opSeq[v] + 1 /\ opSeq[v] \in Nat
      BY <1>3, <1>4, <2>2
    <3>4. Cardinality(S \cup {op}) = opSeq'[v] - 1
      BY <2>1, <3>2, <3>3
    <3> QED BY <3>1, <3>4
  <2>3. CASE v # u
    <3>1. {o \in issued' : o.id[1] = v} = S
      BY <1>2, <2>3
    <3> QED BY <1>5, <2>1, <2>3, <3>1
  <2> QED BY <2>2, <2>3
<1>8. OwnInHand'
  BY <1>2, <1>3, <1>4 DEF EditorInv, OwnInHand
<1>9. /\ Shown(u)' = Shown(u) \cup {op}
      /\ doc'[u] = Replay(Base, Shown(u) \cup {op})
      /\ \A v \in User \ {u} : Shown(v)' = Shown(v) /\ doc'[v] = doc[v]
  BY <1>1, TypingShows
<1>10. \A v \in User : Shown(v) \subseteq issued
  BY DEF Shown
<1>11. BehindClock'
  <2> SUFFICES ASSUME NEW v \in User
               PROVE  /\ \A o \in Shown(v)' \cup opLog'[v] : o.ts <= clock'[v]
                      /\ \A i \in DOMAIN batch'[v] : batch'[v][i].ts <= clock'[v]
    BY DEF BehindClock
  <2>1. \A o \in Shown(v) \cup opLog[v] : o.ts <= clock'[v]
    <3>1. \A o \in Shown(v) \cup opLog[v] : o.ts <= clock[v] /\ o.ts \in Nat
      BY <1>4, <1>10 DEF EditorInv, BehindClock
    <3> QED BY <1>5, <3>1
  <2>2. \A i \in DOMAIN batch[v] : batch[v][i].ts <= clock'[v]
    <3>1. \A i \in DOMAIN batch[v] : batch[v][i].ts <= clock[v] /\ batch[v][i].ts \in Nat
      BY <1>4 DEF EditorInv, BehindClock
    <3> QED BY <1>5, <3>1
  <2>3. v = u => op.ts <= clock'[v]
    BY <1>2, <1>3, <1>4
  <2> QED BY <1>3, <1>9, <2>1, <2>2, <2>3
<1>12. ShownIsLoggedOrOwn'
  BY <1>2, <1>3, <1>9 DEF EditorInv, ShownIsLoggedOrOwn
<1>13. DocumentIsReplay'
  BY <1>9 DEF EditorInv, DocumentIsReplay
<1> QED BY <1>1, <1>2, <1>6, <1>7, <1>8, <1>11, <1>12, <1>13 DEF EditorInv

LEMMA KeyInv ==
    ASSUME EditorInv, NEW u \in User, Key(u)
    PROVE  EditorInv'
<1>1. CASE TypeChar(u) \/ Backspace(u) \/ ForwardDelete(u)
  BY <1>1, KeyMakes, TypingInv
<1>2. CASE MoveCursor(u) \/ Quit(u)
  <2>1. EditorTypes'
    BY <1>2, MoveCursorTypes, QuitTypes DEF EditorInv
  <2>2. UNCHANGED <<issued, opSeq, clock, doc, pending, localOps, opLog, batch>>
    BY <1>2 DEF MoveCursor, Quit, mergeVars, bothVars
  <2>3. OwnInHand' /\ BehindClock
    BY <2>2 DEF EditorInv, OwnInHand
  <2>4. \A v \in User : clock[v] \in Nat
    BY TypeFacts DEF EditorInv
  <2> QED BY <2>1, <2>2, <2>3, <2>4, NothingShown DEF BehindClock
<1> QED BY <1>1, <1>2 DEF Key

LEMMA HandInv ==
    ASSUME EditorInv, NEW u \in User, Hand(u)
    PROVE  EditorInv'
<1>1. EditorTypes'
  BY HandTypes DEF EditorInv
<1>2. UNCHANGED <<issued, opSeq, clock, doc, opLog, batch>>
  BY DEF Hand, PushLocal, FlushBatch, mergeVars, bothVars
<1>3. /\ pending \in [User -> Seq(issued)] /\ localOps \in [User -> Seq(issued)]
      /\ clock \in [User -> Nat] /\ OwnInHand /\ BehindClock
  BY TypeFacts DEF EditorInv
<1>4. CASE PushLocal(u)
  <2>1. pending[u][1] \in issued /\ pending[u][1].id[1] = u
    BY <1>3, <1>4, TypeFacts DEF PushLocal, OwnInHand, EditorInv
  <2>2. \A i \in DOMAIN PushTo(localOps[u], pending[u][1], LocalCap) :
          PushTo(localOps[u], pending[u][1], LocalCap)[i].id[1] = u
    <3>1. \A i \in DOMAIN PushTo(localOps[u], pending[u][1], LocalCap) :
            \/ PushTo(localOps[u], pending[u][1], LocalCap)[i] = pending[u][1]
            \/ /\ i \in DOMAIN localOps[u]
               /\ PushTo(localOps[u], pending[u][1], LocalCap)[i] = localOps[u][i]
      BY <1>3, <2>1, PushToType, CapsAreNatural
    <3>2. \A i \in DOMAIN localOps[u] : localOps[u][i].id[1] = u
      BY <1>3 DEF OwnInHand
    <3> QED BY <2>1, <3>1, <3>2
  <2>3. OwnInHand'
    BY <1>3, <1>4, <2>2 DEF PushLocal, OwnInHand
  <2> QED BY <1>1, <1>2, <1>3, <2>3, NothingShown DEF BehindClock
<1>5. CASE FlushBatch(u)
  <2>1. OwnInHand'
    BY <1>3, <1>5 DEF FlushBatch, bothVars, OwnInHand
  <2> QED BY <1>1, <1>2, <1>3, <2>1, NothingShown DEF BehindClock
<1> QED BY <1>4, <1>5 DEF Hand

\* The end of a pass: what was logged, and what is logged now, is shown.
LEMMA MergeOpsInv ==
    ASSUME EditorInv, NEW u \in User, MergeOps(u)
    PROVE  EditorInv'
<1> DEFINE log == AddToLog(opLog[u], batch[u])
<1>1. /\ opLog \in [User -> SUBSET issued] /\ batch \in [User -> Seq(issued)]
      /\ clock \in [User -> Nat] /\ DOMAIN doc = User
      /\ \A o \in issued : o.ts \in Nat
  BY TypeFacts DEF EditorInv
<1>2. log \in SUBSET issued /\ opLog[u] \subseteq log
  BY <1>1, AddToLogType
<1>3. \A o \in log : o.ts <= clock[u]
  <2>1. \A o \in log : o \in opLog[u] \/ \E i \in DOMAIN batch[u] : o = batch[u][i]
    <3>1. opLog[u] \in SUBSET issued /\ batch[u] \in Seq(issued)
      BY <1>1
    <3> QED BY <3>1, AddToLogType
  <2> QED BY <2>1 DEF EditorInv, BehindClock
<1>4. EditorTypes'
  BY MergeTypes DEF Merge, EditorInv
<1>5. PICK d, pc : /\ EndPass(u, log, d, pc)
                   /\ \/ log # opLog[u] /\ d = Replay(Base, log)
                      \/ log = opLog[u] /\ d = doc[u]
  BY DEF MergeOps
<1> HIDE DEF log
<1>6. /\ opLog' = [opLog EXCEPT ![u] = log]
      /\ doc' = [doc EXCEPT ![u] = d]
      /\ batch' = [batch EXCEPT ![u] = <<>>]
      /\ UNCHANGED <<clock, localOps, pending, issued, opSeq>>
  BY <1>5 DEF EndPass, mainVars
<1>7. \A v \in User \ {u} : /\ Shown(v)' = Shown(v) /\ doc'[v] = doc[v]
                            /\ opLog'[v] = opLog[v] /\ batch'[v] = batch[v]
  BY <1>1, <1>6 DEF Shown
<1>8. opLog'[u] = log /\ doc'[u] = d /\ batch'[u] = <<>>
  BY <1>1, <1>6
<1>9. \/ Shown(u)' = log /\ doc'[u] = Replay(Base, log)
      \/ log = opLog[u] /\ Shown(u)' = Shown(u) /\ doc'[u] = doc[u]
  <2>1. CASE log # opLog[u]
    <3>1. doc'[u] = Replay(Base, log)
      BY <1>5, <1>8, <2>1
    <3>2. IsLog(log)
      BY <1>2, IssuedAreLogs DEF EditorInv
    <3>3. doc'[u].applied = {o.id : o \in log}
      BY <3>1, <3>2, BaseIsContent, ReplayIsDocument
    <3>4. {o \in issued : o.id \in {p.id : p \in log}} = log
      BY <1>2, KnownByIds DEF EditorInv, Unique
    <3> QED BY <1>6, <3>1, <3>3, <3>4 DEF Shown
  <2>2. CASE log = opLog[u]
    BY <1>5, <1>6, <1>8, <2>2 DEF Shown
  <2> QED BY <2>1, <2>2
<1>10. BehindClock'
  BY <1>3, <1>6, <1>7, <1>8, <1>9 DEF EditorInv, BehindClock
<1>11. ShownIsLoggedOrOwn'
  BY <1>7, <1>8, <1>9 DEF EditorInv, ShownIsLoggedOrOwn
<1>12. DocumentIsReplay'
  <2>1. doc'[u] = Replay(Base, Shown(u)')
    BY <1>9 DEF EditorInv, DocumentIsReplay
  <2>2. \A v \in User \ {u} : doc'[v] = Replay(Base, Shown(v)')
    BY <1>7 DEF EditorInv, DocumentIsReplay
  <2> QED BY <2>1, <2>2 DEF DocumentIsReplay
<1>13. Unique' /\ NumbersUsed' /\ AllNumbersUsed' /\ OwnInHand'
  BY <1>6 DEF EditorInv, Unique, NumbersUsed, AllNumbersUsed, OwnInHand
<1> QED BY <1>4, <1>10, <1>11, <1>12, <1>13 DEF EditorInv

LEMMA MergeInv ==
    ASSUME EditorInv, NEW u \in User, Merge(u)
    PROVE  EditorInv'
<1>1. EditorTypes'
  BY MergeTypes DEF EditorInv
<1>2. UNCHANGED <<issued, opSeq, pending>>
  BY DEF Merge, DrainLocal, ReceiveOp, TakeIn, ReceiveTick, MergeOps, EndPass, WriteFile,
         NoticePeers, StopMerge, mainVars
<1>3. /\ clock \in [User -> Nat] /\ OwnInHand /\ BehindClock /\ NumbersUsed
      /\ localOps \in [User -> Seq(issued)] /\ batch \in [User -> Seq(issued)]
      /\ inbound \in [User -> Seq(issued)]
      /\ \A o \in issued : o.ts \in Nat
  BY TypeFacts DEF EditorInv
<1>4. CASE DrainLocal(u)
  <2>1. /\ batch' = [batch EXCEPT ![u] = localOps[u]]
        /\ localOps' = [localOps EXCEPT ![u] = <<>>]
        /\ UNCHANGED <<opLog, clock, doc>>
    BY <1>4 DEF DrainLocal
  <2>2. \A i \in DOMAIN localOps[u] : localOps[u][i].ts <= clock[u]
    <3>1. \A i \in DOMAIN localOps[u] : localOps[u][i] \in issued
      BY <1>3
    <3> QED BY <1>3, <3>1 DEF OwnInHand, NumbersUsed
  <2>3. OwnInHand'
    BY <1>2, <1>3, <2>1 DEF OwnInHand
  <2>4. \A v \in User : \A i \in DOMAIN batch'[v] : batch'[v][i].ts <= clock'[v]
    BY <1>3, <2>1, <2>2 DEF BehindClock
  <2> QED BY <1>1, <1>2, <1>3, <2>1, <2>3, <2>4, NothingShown
<1>5. CASE ReceiveOp(u)
  <2> DEFINE op == Head(inbound[u])
             now == Later(clock[u], op.ts)
  <2>1. op \in issued
    BY <1>3, <1>5 DEF ReceiveOp
  <2>2. TakeIn(u, now, Append(batch[u], op))
    BY <1>5 DEF ReceiveOp
  <2> HIDE DEF op
  <2>3. now \in Nat /\ op.ts <= now /\ clock[u] <= now
    BY <1>3, <2>1 DEF Later
  <2> HIDE DEF now
  <2>4. /\ clock' = [clock EXCEPT ![u] = now]
        /\ batch' = [batch EXCEPT ![u] = Append(batch[u], op)]
        /\ UNCHANGED <<opLog, localOps, doc>>
    BY <2>2 DEF TakeIn
  <2>5. \A v \in User : clock[v] \in Nat /\ clock'[v] \in Nat /\ clock[v] <= clock'[v]
    BY <1>3, <2>3, <2>4
  <2>6. \A v \in User : \A i \in DOMAIN batch'[v] : batch'[v][i].ts <= clock'[v]
    <3>1. \A i \in DOMAIN batch[u] : batch[u][i].ts <= clock[u] /\ batch[u][i].ts \in Nat
      BY <1>3 DEF BehindClock
    <3>2. \A i \in DOMAIN batch'[u] : batch'[u][i].ts <= clock'[u]
      BY <1>3, <2>3, <2>4, <2>5, <3>1
    <3>3. \A v \in User \ {u} : batch'[v] = batch[v] /\ clock'[v] = clock[v]
      BY <1>3, <2>4
    <3> QED BY <1>3, <3>2, <3>3 DEF BehindClock
  <2>7. OwnInHand'
    BY <1>2, <1>3, <2>4 DEF OwnInHand
  <2> QED BY <1>1, <1>2, <2>4, <2>5, <2>6, <2>7, NothingShown
<1>6. CASE ReceiveTick(u)
  <2>1. /\ clock' = [clock EXCEPT ![u] = clock[u] + 1]
        /\ UNCHANGED <<batch, opLog, localOps, doc>>
    BY <1>6 DEF ReceiveTick
  <2>2. \A v \in User : clock[v] \in Nat /\ clock'[v] \in Nat /\ clock[v] <= clock'[v]
    BY <1>3, <2>1
  <2>3. \A v \in User : \A i \in DOMAIN batch[v] : batch[v][i].ts <= clock'[v]
    <3>1. \A v \in User : \A i \in DOMAIN batch[v] : /\ batch[v][i].ts <= clock[v]
                                                     /\ batch[v][i].ts \in Nat
      BY <1>3 DEF BehindClock
    <3> QED BY <2>2, <3>1
  <2>4. OwnInHand'
    BY <1>2, <1>3, <2>1 DEF OwnInHand
  <2> QED BY <1>1, <1>2, <2>1, <2>2, <2>3, <2>4, NothingShown
<1>7. CASE WriteFile(u) \/ NoticePeers(u) \/ StopMerge(u)
  <2>1. UNCHANGED <<clock, localOps, opLog, batch, doc>>
    BY <1>7 DEF WriteFile, NoticePeers, StopMerge, bothVars
  <2>2. OwnInHand'
    BY <1>2, <1>3, <2>1 DEF OwnInHand
  <2> QED BY <1>1, <1>2, <1>3, <2>1, <2>2, NothingShown DEF BehindClock
<1> QED BY <1>4, <1>5, <1>6, <1>7, MergeOpsInv DEF Merge

LEMMA EditorStepInv ==
    ASSUME EditorInv, NEW u \in User, EditorStep(u)
    PROVE  EditorInv'
  BY KeyInv, HandInv, MergeInv DEF EditorStep

\* Typing is the only step of an editor that issues operations.
LEMMA EditorIssues ==
    ASSUME EditorInv, NEW u \in User, EditorStep(u)
    PROVE  \/ UNCHANGED issued
           \/ \E op, pos : Typing(u, op, pos)
<1>1. CASE TypeChar(u) \/ Backspace(u) \/ ForwardDelete(u)
  BY <1>1, KeyMakes
<1>2. CASE MoveCursor(u) \/ Quit(u)
  BY <1>2 DEF MoveCursor, Quit
<1>3. CASE Hand(u)
  BY <1>3 DEF Hand, PushLocal, FlushBatch
<1>4. CASE Merge(u)
  BY <1>4 DEF Merge, DrainLocal, ReceiveOp, TakeIn, ReceiveTick, MergeOps, EndPass,
              WriteFile, NoticePeers, StopMerge, mainVars
<1> QED BY <1>1, <1>2, <1>3, <1>4 DEF EditorStep, Key

\* A step of the surroundings: nothing but the queues of the network thread
\* changes, and others may have issued operations.
LEMMA OutsideInv ==
    ASSUME EditorInv, EditorTypeOK', Unique',
           UNCHANGED <<mainPc, opSeq, fallback, pending, batch, opLog, clock, doc, localOps>>,
           NEW new, issued' = issued \cup new, IsFiniteSet(new), new \subseteq Op,
           \A o \in new : o.id[1] \notin User
    PROVE  EditorInv'
<1>1. EditorTypes'
  <2>1. IsFiniteSet(issued') /\ issued' \subseteq Op
    BY FS_Union DEF EditorInv, EditorTypes
  <2> QED BY <2>1 DEF EditorInv, EditorTypes
<1>2. \A u \in User : Shown(u)' = Shown(u)
  <2> SUFFICES ASSUME NEW u \in User PROVE Shown(u)' = Shown(u)
    OBVIOUS
  <2>1. Shown(u) \in SUBSET issued' /\ doc[u].applied = {o.id : o \in Shown(u)}
    BY DocumentFacts
  <2>2. {o \in issued' : o.id \in {p.id : p \in Shown(u)}} = Shown(u)
    BY <2>1, KnownByIds DEF Unique
  <2> QED BY <2>1, <2>2 DEF Shown
<1>3. NumbersUsed' /\ OwnInHand'
  BY DEF EditorInv, NumbersUsed, OwnInHand
<1>4. AllNumbersUsed'
  <2> SUFFICES ASSUME NEW u \in User
               PROVE  {o \in issued' : o.id[1] = u} = {o \in issued : o.id[1] = u}
    BY DEF EditorInv, AllNumbersUsed
  <2> QED OBVIOUS
<1>5. BehindClock' /\ ShownIsLoggedOrOwn' /\ DocumentIsReplay'
  BY <1>2 DEF EditorInv, BehindClock, ShownIsLoggedOrOwn, DocumentIsReplay
<1> QED BY <1>1, <1>3, <1>4, <1>5 DEF EditorInv

-----------------------------------------------------------------------------
(***************************************************************************)
(* Nothing typed gets lost on the way to the log, as long as local_ops_    *)
(* has room for it; and what is saved is what is shown.                    *)
(***************************************************************************)
\* No operation is given up: what is pushed finds room.
PushesFit ==
    \A u \in User : PushLocal(u) => Len(localOps[u]) < LocalCap

OwnInReach ==
    \A u \in User : \A o \in issued :
        o.id[1] = u => \/ o \in opLog[u] \cup ToSet(batch[u]) \cup ToSet(localOps[u])
                       \/ mainPc[u] = "push" /\ o = pending[u][1]

BatchOfPass ==
    \A u \in User : mergePc[u] \notin {"inbound", "tick"} => batch[u] = <<>>

\* The file is behind the document only while the document shows something that
\* is not logged, and between a replay and the write that follows it.
FileFollows ==
    /\ DOMAIN file = User
    /\ \A u \in User :
         mergePc[u] # "write" /\ Shown(u) \subseteq opLog[u] => file[u] = Text(doc[u])

LEMMA FollowsInit ==
    ASSUME EditorInit
    PROVE  OwnInReach /\ BatchOfPass /\ FileFollows
<1>1. \A u \in User : doc[u] = LoadFromString(Base) /\ file[u] = Base /\ batch[u] = <<>>
  BY DEF EditorInit
<1>2. Text(LoadFromString(Base)) = Base
  BY BaseIsContent, TextOfLoaded
<1> QED BY <1>1, <1>2 DEF EditorInit, OwnInReach, BatchOfPass, FileFollows

LEMMA BatchOfPassStep ==
    ASSUME EditorInv, BatchOfPass, NEW u \in User, EditorStep(u)
    PROVE  BatchOfPass'
<1>1. /\ batch \in [User -> Seq(issued)] /\ DOMAIN mergePc = User
  BY TypeFacts DEF EditorInv, EditorTypes, EditorTypeOK
<1>2. CASE Key(u) \/ Hand(u)
  <2>1. UNCHANGED <<batch, mergePc>>
    BY <1>2 DEF Key, Hand, TypeChar, Backspace, ForwardDelete, Perform, MoveCursor, Quit,
                PushLocal, FlushBatch, mergeVars
  <2> QED BY <2>1 DEF BatchOfPass
<1>3. CASE DrainLocal(u) \/ ReceiveOp(u) \/ ReceiveTick(u)
  <2>1. /\ mergePc'[u] \in {"inbound", "tick"}
        /\ \A v \in User \ {u} : mergePc'[v] = mergePc[v] /\ batch'[v] = batch[v]
    BY <1>1, <1>3 DEF DrainLocal, ReceiveOp, TakeIn, ReceiveTick, GoTo
  <2> QED BY <2>1 DEF BatchOfPass
<1>4. CASE MergeOps(u)
  <2>1. /\ batch'[u] = <<>>
        /\ \A v \in User \ {u} : mergePc'[v] = mergePc[v] /\ batch'[v] = batch[v]
    BY <1>1, <1>4 DEF MergeOps, EndPass, GoTo
  <2> QED BY <2>1 DEF BatchOfPass
<1>5. CASE WriteFile(u) \/ NoticePeers(u) \/ StopMerge(u)
  <2>1. /\ UNCHANGED batch /\ mergePc[u] \notin {"inbound", "tick"}
        /\ \A v \in User \ {u} : mergePc'[v] = mergePc[v]
    BY <1>1, <1>5 DEF WriteFile, NoticePeers, StopMerge, GoTo
  <2> QED BY <2>1 DEF BatchOfPass
<1> QED BY <1>2, <1>3, <1>4, <1>5 DEF EditorStep, Merge

LEMMA OwnInReachStep ==
    ASSUME EditorInv, BatchOfPass, OwnInReach, PushesFit, NEW u \in User, EditorStep(u)
    PROVE  OwnInReach'
<1>1. /\ opLog \in [User -> SUBSET issued] /\ DOMAIN mainPc = User
      /\ batch \in [User -> Seq(issued)] /\ localOps \in [User -> Seq(issued)]
      /\ pending \in [User -> Seq(issued)] /\ inbound \in [User -> Seq(issued)]
  BY TypeFacts DEF EditorInv, EditorTypes, EditorTypeOK
<1> DEFINE Reach(v) == opLog[v] \cup ToSet(batch[v]) \cup ToSet(localOps[v])
<1>2. \A v \in User, o \in issued :
         o.id[1] = v => o \in Reach(v) \/ (mainPc[v] = "push" /\ o = pending[v][1])
  BY DEF OwnInReach
<1>3. ASSUME NEW op, NEW pos, Typing(u, op, pos)
      PROVE  OwnInReach'
  <2>1. /\ issued' = issued \cup {op} /\ op.id[1] = u
    BY <1>3, TypingIsNew
  <2>2. /\ mainPc[u] = "key"
        /\ mainPc' = [mainPc EXCEPT ![u] = "push"]
        /\ pending' = [pending EXCEPT ![u] = <<op>>]
        /\ UNCHANGED <<opLog, batch, localOps>>
    BY <1>3 DEF Typing, Perform, MayType, AtKey, mergeVars
  <2>3. \A v \in User : Reach(v)' = Reach(v)
    BY <2>2
  <2>4. /\ mainPc'[u] = "push" /\ pending'[u][1] = op
        /\ \A v \in User \ {u} : mainPc'[v] = mainPc[v] /\ pending'[v] = pending[v]
    BY <1>1, <2>2
  <2> SUFFICES ASSUME NEW v \in User, NEW o \in issued', o.id[1] = v
               PROVE  o \in Reach(v)' \/ (mainPc'[v] = "push" /\ o = pending'[v][1])
    BY DEF OwnInReach
  <2> HIDE DEF Reach
  <2>5. CASE o = op
    BY <2>1, <2>4, <2>5
  <2>6. CASE o # op
    BY <1>2, <2>1, <2>2, <2>3, <2>4, <2>6
  <2> QED BY <2>5, <2>6
<1>4. ASSUME UNCHANGED issued,
             \A v \in User \ {u} : /\ opLog'[v] = opLog[v] /\ batch'[v] = batch[v]
                                   /\ localOps'[v] = localOps[v] /\ mainPc'[v] = mainPc[v]
                                   /\ pending'[v] = pending[v],
             Reach(u) \subseteq Reach(u)',
             mainPc[u] = "push" => \/ mainPc'[u] = "push" /\ pending'[u] = pending[u]
                                   \/ pending[u][1] \in Reach(u)'
      PROVE  OwnInReach'
  <2> SUFFICES ASSUME NEW v \in User, NEW o \in issued, o.id[1] = v
               PROVE  o \in Reach(v)' \/ (mainPc'[v] = "push" /\ o = pending'[v][1])
    BY <1>4 DEF OwnInReach
  <2>1. o \in Reach(v) \/ (mainPc[v] = "push" /\ o = pending[v][1])
    BY <1>2
  <2>2. CASE v = u
    <3> HIDE DEF Reach
    <3> QED BY <1>4, <2>1, <2>2
  <2>3. CASE v # u
    BY <1>4, <2>1, <2>3
  <2> QED BY <2>2, <2>3
<1>5. CASE MoveCursor(u) \/ Quit(u)
  <2>1. /\ UNCHANGED <<issued, opLog, batch, localOps, pending>>
        /\ mainPc[u] # "push" /\ \A v \in User \ {u} : mainPc'[v] = mainPc[v]
    BY <1>1, <1>5 DEF MoveCursor, Quit, AtKey, mergeVars, bothVars
  <2> QED BY <1>4, <2>1
<1>6. CASE PushLocal(u)
  <2>1. /\ Len(localOps[u]) < LocalCap /\ mainPc[u] = "push"
        /\ localOps' = [localOps EXCEPT ![u] = PushTo(localOps[u], pending[u][1], LocalCap)]
        /\ mainPc' = [mainPc EXCEPT ![u] = "flush"]
        /\ UNCHANGED <<issued, opLog, batch, pending>>
    BY <1>6 DEF PushLocal, PushesFit, mergeVars
  <2>2. localOps'[u] = Append(localOps[u], pending[u][1])
    BY <1>1, <2>1 DEF PushTo
  <2>3. pending[u][1] \in issued
    <3>1. pending[u] \in Seq(issued) /\ pending[u] # <<>>
      BY <1>1, <2>1, TypeFacts DEF EditorInv
    <3> QED BY <3>1
  <2>4. ToSet(localOps'[u]) = ToSet(localOps[u]) \cup {pending[u][1]}
    BY <1>1, <2>2, <2>3, ToSetOfAppend
  <2>5. \A v \in User \ {u} : localOps'[v] = localOps[v] /\ mainPc'[v] = mainPc[v]
    BY <1>1, <2>1
  <2> QED BY <1>4, <2>1, <2>4, <2>5
<1>7. CASE FlushBatch(u)
  <2>1. /\ UNCHANGED <<issued, opLog, batch, localOps>> /\ mainPc[u] # "push"
        /\ \A v \in User \ {u} : mainPc'[v] = mainPc[v] /\ pending'[v] = pending[v]
    BY <1>1, <1>7 DEF FlushBatch, bothVars, mergeVars
  <2> QED BY <1>4, <2>1
<1>8. CASE DrainLocal(u)
  <2>1. /\ batch' = [batch EXCEPT ![u] = localOps[u]] /\ batch[u] = <<>>
        /\ localOps' = [localOps EXCEPT ![u] = <<>>]
        /\ UNCHANGED <<issued, opLog, mainPc, pending>>
    BY <1>8 DEF DrainLocal, BatchOfPass, mainVars
  <2>2. batch'[u] = localOps[u] /\ ToSet(batch[u]) = {}
    BY <1>1, <2>1 DEF ToSet
  <2>3. \A v \in User \ {u} : batch'[v] = batch[v] /\ localOps'[v] = localOps[v]
    BY <1>1, <2>1
  <2> QED BY <1>4, <2>1, <2>2, <2>3
<1>9. CASE ReceiveOp(u)
  <2>1. PICK op \in issued : batch' = [batch EXCEPT ![u] = Append(batch[u], op)]
    <3>1. Head(inbound[u]) \in issued
      BY <1>1, <1>9 DEF ReceiveOp
    <3> QED BY <1>9, <3>1 DEF ReceiveOp, TakeIn
  <2>2. UNCHANGED <<issued, opLog, localOps, mainPc, pending>>
    BY <1>9 DEF ReceiveOp, TakeIn, mainVars
  <2>3. ToSet(Append(batch[u], op)) = ToSet(batch[u]) \cup {op}
    BY <1>1, ToSetOfAppend
  <2>4. /\ batch'[u] = Append(batch[u], op)
        /\ \A v \in User \ {u} : batch'[v] = batch[v]
    BY <1>1, <2>1
  <2> QED BY <1>4, <2>2, <2>3, <2>4
<1>10. CASE MergeOps(u)
  <2> DEFINE log == AddToLog(opLog[u], batch[u])
  <2>1. log = opLog[u] \cup ToSet(batch[u])
    <3>1. \A o, p \in issued : o.id = p.id => o = p
      BY DEF EditorInv, Unique
    <3>2. opLog[u] \in SUBSET issued /\ batch[u] \in Seq(issued)
      BY <1>1
    <3> QED BY <3>1, <3>2, AddToLogIsUnion
  <2>2. \E d, pc : EndPass(u, log, d, pc)
    BY <1>10 DEF MergeOps
  <2> HIDE DEF log
  <2>3. /\ opLog' = [opLog EXCEPT ![u] = log] /\ batch' = [batch EXCEPT ![u] = <<>>]
        /\ UNCHANGED <<issued, localOps, mainPc, pending>>
    BY <2>2 DEF EndPass, mainVars
  <2>4. /\ opLog'[u] = log
        /\ \A v \in User \ {u} : opLog'[v] = opLog[v] /\ batch'[v] = batch[v]
    BY <1>1, <2>3
  <2> QED BY <1>4, <2>1, <2>3, <2>4
<1>11. CASE ReceiveTick(u) \/ WriteFile(u) \/ NoticePeers(u) \/ StopMerge(u)
  <2>1. UNCHANGED <<issued, opLog, batch, localOps, mainPc, pending>>
    BY <1>11 DEF ReceiveTick, WriteFile, NoticePeers, StopMerge, mainVars, bothVars
  <2> QED BY <1>4, <2>1
<1>12. CASE TypeChar(u) \/ Backspace(u) \/ ForwardDelete(u)
  BY <1>3, <1>12, KeyMakes
<1> QED BY <1>5, <1>6, <1>7, <1>8, <1>9, <1>10, <1>11, <1>12 DEF EditorStep, Key, Hand, Merge

LEMMA FileFollowsStep ==
    ASSUME EditorInv, FileFollows, NEW u \in User, EditorStep(u)
    PROVE  FileFollows'
<1>1. /\ opLog \in [User -> SUBSET issued] /\ DOMAIN doc = User /\ DOMAIN mergePc = User
      /\ DOMAIN file = User
  BY TypeFacts DEF EditorInv, EditorTypes, EditorTypeOK, FileFollows
<1>2. EditorTypes'
  BY EditorStepInv DEF EditorInv
<1>3. ASSUME UNCHANGED <<issued, doc, opLog, file>>,
             mergePc[u] # "write" \/ mergePc'[u] = "write",
             \A v \in User \ {u} : mergePc'[v] = mergePc[v]
      PROVE  FileFollows'
  BY <1>3 DEF FileFollows, Shown
<1>4. CASE TypeChar(u) \/ Backspace(u) \/ ForwardDelete(u)
  <2>1. PICK op, pos : Typing(u, op, pos)
    BY <1>4, KeyMakes
  <2>2. /\ Shown(u)' = Shown(u) \cup {op} /\ op \notin issued
        /\ \A v \in User \ {u} : Shown(v)' = Shown(v) /\ doc'[v] = doc[v]
    BY <1>2, <2>1, TypingShows, TypingIsNew
  <2>3. UNCHANGED <<opLog, file, mergePc>>
    BY <2>1 DEF Typing, Perform, mergeVars
  <2>4. ~(Shown(u)' \subseteq opLog'[u])
    BY <1>1, <2>2, <2>3
  <2> QED BY <2>2, <2>3, <2>4 DEF FileFollows
<1>5. CASE MoveCursor(u) \/ Quit(u) \/ Hand(u)
  <2>1. UNCHANGED <<issued, doc, opLog, file, mergePc>>
    BY <1>5 DEF MoveCursor, Quit, Hand, PushLocal, FlushBatch, mergeVars, bothVars
  <2> QED BY <1>3, <2>1
<1>6. CASE DrainLocal(u) \/ ReceiveOp(u) \/ ReceiveTick(u) \/ NoticePeers(u) \/ StopMerge(u)
  <2>1. /\ UNCHANGED <<issued, doc, opLog, file>> /\ mergePc[u] # "write"
        /\ \A v \in User \ {u} : mergePc'[v] = mergePc[v]
    BY <1>1, <1>6 DEF DrainLocal, ReceiveOp, TakeIn, ReceiveTick, NoticePeers, StopMerge, GoTo,
                      mainVars, bothVars
  <2> QED BY <1>3, <2>1
<1>7. CASE WriteFile(u)
  <2>1. /\ file' = [file EXCEPT ![u] = Text(doc[u])] /\ UNCHANGED <<issued, doc, opLog>>
        /\ \A v \in User \ {u} : mergePc'[v] = mergePc[v]
    BY <1>1, <1>7 DEF WriteFile, GoTo, mainVars, bothVars
  <2>2. /\ file'[u] = Text(doc'[u]) /\ DOMAIN file' = User
        /\ \A v \in User \ {u} : file'[v] = file[v]
    BY <1>1, <2>1
  <2> QED BY <2>1, <2>2 DEF FileFollows, Shown
<1>8. CASE MergeOps(u)
  <2>1. PICK log, d, pc : /\ EndPass(u, log, d, pc)
                          /\ pc = "write" \/ (log = opLog[u] /\ d = doc[u])
                          /\ mergePc[u] = "inbound"
    BY <1>8 DEF MergeOps
  <2>2. /\ opLog' = [opLog EXCEPT ![u] = log] /\ doc' = [doc EXCEPT ![u] = d]
        /\ mergePc' = [mergePc EXCEPT ![u] = pc]
        /\ UNCHANGED <<file, issued>>
    BY <2>1 DEF EndPass, GoTo, mainVars
  <2>3. /\ opLog'[u] = log /\ doc'[u] = d /\ mergePc'[u] = pc
        /\ \A v \in User \ {u} : /\ opLog'[v] = opLog[v] /\ doc'[v] = doc[v]
                                 /\ mergePc'[v] = mergePc[v]
    BY <1>1, <2>2
  <2> QED BY <2>1, <2>2, <2>3 DEF FileFollows, Shown
<1> QED BY <1>4, <1>5, <1>6, <1>7, <1>8 DEF EditorStep, Key, Merge

\* At most as many operations wait in local_ops_, or for it, as were typed.
QueuedAreTyped ==
    \A u \in User : /\ mainPc[u] = "push" => Len(localOps[u]) + 1 < opSeq[u]
                    /\ Len(localOps[u]) < opSeq[u]

LEMMA QueuedAreTypedStep ==
    ASSUME EditorInv, QueuedAreTyped, NEW u \in User, EditorStep(u)
    PROVE  QueuedAreTyped'
<1>1. /\ DOMAIN mainPc = User /\ opSeq \in [User -> Nat \ {0}]
      /\ localOps \in [User -> Seq(issued)] /\ pending \in [User -> Seq(issued)]
  BY TypeFacts DEF EditorInv, EditorTypes, EditorTypeOK
<1>2. CASE TypeChar(u) \/ Backspace(u) \/ ForwardDelete(u)
  <2>1. /\ opSeq' = [opSeq EXCEPT ![u] = opSeq[u] + 1] /\ UNCHANGED localOps
        /\ mainPc' = [mainPc EXCEPT ![u] = "push"]
    BY <1>2, KeyMakes DEF Typing, Perform
  <2>2. /\ opSeq'[u] = opSeq[u] + 1
        /\ \A v \in User \ {u} : opSeq'[v] = opSeq[v] /\ mainPc'[v] = mainPc[v]
    BY <1>1, <2>1
  <2>3. Len(localOps[u]) \in Nat /\ opSeq[u] \in Nat
    BY <1>1
  <2> QED BY <2>1, <2>2, <2>3 DEF QueuedAreTyped
<1>3. CASE MoveCursor(u) \/ Quit(u) \/ FlushBatch(u)
  <2>1. /\ UNCHANGED <<opSeq, localOps>> /\ mainPc'[u] # "push"
        /\ \A v \in User \ {u} : mainPc'[v] = mainPc[v]
    BY <1>1, <1>3 DEF MoveCursor, Quit, FlushBatch, AtKey, bothVars
  <2> QED BY <2>1 DEF QueuedAreTyped
<1>4. CASE PushLocal(u)
  <2>1. /\ mainPc[u] = "push" /\ mainPc'[u] = "flush" /\ UNCHANGED opSeq
        /\ localOps'[u] = PushTo(localOps[u], pending[u][1], LocalCap)
        /\ \A v \in User \ {u} : mainPc'[v] = mainPc[v] /\ localOps'[v] = localOps[v]
    BY <1>1, <1>4 DEF PushLocal
  <2>2. Len(PushTo(localOps[u], pending[u][1], LocalCap)) <= Len(localOps[u]) + 1
    <3>1. localOps[u] \in Seq(issued) /\ pending[u][1] \in issued
      BY <1>1, <2>1, TypeFacts DEF EditorInv
    <3> QED BY <3>1 DEF PushTo
  <2>3. Len(localOps'[u]) \in Nat
    <3>1. localOps'[u] \in Seq(issued)
      BY <1>1, <1>4, <2>1, PushLocalFits DEF EditorInv
    <3> QED BY <3>1
  <2>4. /\ Len(localOps[u]) \in Nat /\ opSeq[u] \in Nat
        /\ Len(localOps[u]) + 1 < opSeq[u]
    BY <1>1, <2>1 DEF QueuedAreTyped
  <2>5. Len(localOps'[u]) < opSeq'[u]
    BY <2>1, <2>2, <2>3, <2>4
  <2> QED BY <2>1, <2>5 DEF QueuedAreTyped
<1>5. CASE Merge(u)
  <2>1. UNCHANGED <<opSeq, mainPc>>
    BY <1>5 DEF Merge, DrainLocal, ReceiveOp, TakeIn, ReceiveTick, MergeOps, EndPass,
                WriteFile, NoticePeers, StopMerge, mainVars
  <2>2. \A v \in User : localOps'[v] = localOps[v] \/ localOps'[v] = <<>>
    BY <1>1, <1>5 DEF Merge, DrainLocal, ReceiveOp, TakeIn, ReceiveTick, MergeOps, EndPass,
                WriteFile, NoticePeers, StopMerge, bothVars
  <2>3. \A v \in User : opSeq[v] \in Nat \ {0} /\ Len(localOps[v]) \in Nat
    BY <1>1
  <2> QED BY <2>1, <2>2, <2>3 DEF QueuedAreTyped
<1> QED BY <1>2, <1>3, <1>4, <1>5 DEF EditorStep, Key, Hand

LEMMA QueuedFit ==
    ASSUME EditorInv, QueuedAreTyped, MaxOps <= LocalCap
    PROVE  PushesFit
<1> SUFFICES ASSUME NEW u \in User, mainPc[u] = "push"
             PROVE  Len(localOps[u]) < LocalCap
  BY DEF PushesFit, PushLocal
<1>1. opSeq[u] \in 1..MaxOps + 1 /\ Len(localOps[u]) \in Nat
  BY DEF EditorInv, EditorTypes, EditorTypeOK
<1>2. Len(localOps[u]) + 1 < opSeq[u] /\ MaxOps \in Nat /\ LocalCap \in Nat
  BY BoundAssumption, CapAssumption DEF QueuedAreTyped
<1> QED BY <1>1, <1>2

-----------------------------------------------------------------------------
(***************************************************************************)
(* The cursor                                                              *)
(***************************************************************************)
\* The anchor of the cursor is a character of the document, or one the user has
\* typed and a replay may have taken off again.
Anchored ==
    /\ DOMAIN anchor = User
    /\ \A u \in User :
         \/ anchor[u] \in Spoken(BaseLen, Shown(u))
         \/ \E o \in issued : IsInsert(o) /\ o.id[1] = u /\ o.id = anchor[u]

LEMMA AnchoredInit == EditorInit => Anchored
  BY DEF EditorInit, Anchored, Spoken

\* Wherever the cursor is put in a replayed document, its anchor is a character
\* of it.
LEMMA CharBeforeIsSpoken ==
    ASSUME NEW log, IsLog(log), NEW pos \in Nat
    PROVE  CharBefore(Replay(Base, log), pos) \in Spoken(BaseLen, log)
<1> DEFINE d == Replay(Base, log)
<1>1. InSync(d) /\ DOMAIN d.index = Spoken(BaseLen, log)
  BY BaseIsContent, ReplayIsDocument
<1>2. VisibleCharID(d, pos - 1) \in DOMAIN d.index
  BY <1>1, VisibleIDIsThere
<1>3. HeadID \in DOMAIN d.index
  BY <1>1, Places
<1> QED BY <1>1, <1>2, <1>3 DEF CharBefore

LEMMA AnchoredStep ==
    ASSUME EditorInv, Anchored, NEW u \in User, EditorStep(u)
    PROVE  Anchored'
<1>1. EditorInv'
  BY EditorStepInv
<1>2. \A v \in User : doc'[v] = Replay(Base, Shown(v)') /\ IsLog(Shown(v)')
  <2> SUFFICES ASSUME NEW v \in User
               PROVE  doc'[v] = Replay(Base, Shown(v)') /\ IsLog(Shown(v)')
    OBVIOUS
  <2>1. doc'[v] = Replay(Base, Shown(v)')
    BY <1>1 DEF EditorInv, DocumentIsReplay
  <2>2. Shown(v)' \subseteq issued' /\ IsFiniteSet(issued') /\ issued' \subseteq Op /\ Unique'
    BY <1>1 DEF Shown, EditorInv, EditorTypes
  <2> QED BY <2>1, <2>2, FS_Subset DEF IsLog, Unique
<1>3. issued \subseteq issued'
  <2>1. UNCHANGED issued \/ \E op, pos : Typing(u, op, pos)
    BY EditorIssues
  <2> QED BY <2>1, TypingIsNew
\* What a user's document showed it still shows, or the user has typed it.
<1>4. \A v \in User : \A o \in Shown(v) : o \in Shown(v)' \/ o.id[1] = v
  <2>1. CASE TypeChar(u) \/ Backspace(u) \/ ForwardDelete(u)
    <3>1. PICK op, pos : Typing(u, op, pos)
      BY <2>1, KeyMakes
    <3> QED BY <1>1, <3>1, TypingShows DEF EditorInv
  <2>2. CASE UNCHANGED <<doc, issued>>
    BY <2>2 DEF Shown
  <2>3. CASE MergeOps(u)
    <3>1. opLog[u] \in SUBSET issued /\ batch[u] \in Seq(issued) /\ DOMAIN doc = User
          /\ opLog \in [User -> SUBSET issued]
      BY TypeFacts DEF EditorInv
    <3>2. PICK log, d, pc : EndPass(u, log, d, pc) /\ opLog[u] \subseteq log
      BY <2>3, <3>1, AddToLogType DEF MergeOps
    <3>3. /\ opLog' = [opLog EXCEPT ![u] = log] /\ doc' = [doc EXCEPT ![u] = d]
          /\ UNCHANGED issued
      BY <3>2 DEF EndPass, mainVars
    <3>4. opLog'[u] = log /\ \A v \in User \ {u} : doc'[v] = doc[v]
      BY <3>1, <3>3
    <3>5. \A v \in User \ {u} : Shown(v)' = Shown(v)
      BY <3>3, <3>4 DEF Shown
    <3>6. opLog'[u] \subseteq Shown(u)'
      BY <1>1 DEF EditorInv, ShownIsLoggedOrOwn
    <3>7. \A o \in Shown(u) : o \in opLog[u] \/ o.id[1] = u
      BY DEF EditorInv, ShownIsLoggedOrOwn
    <3> QED BY <3>2, <3>4, <3>5, <3>6, <3>7
  <2>4. CASE MoveCursor(u) \/ Quit(u) \/ Hand(u)
    BY <2>2, <2>4 DEF MoveCursor, Quit, Hand, PushLocal, FlushBatch, bothVars
  <2>5. CASE Merge(u) /\ ~MergeOps(u)
    BY <2>2, <2>5 DEF Merge, DrainLocal, ReceiveOp, TakeIn, ReceiveTick, WriteFile,
                      NoticePeers, StopMerge, mainVars, bothVars
  <2> QED BY <2>1, <2>3, <2>4, <2>5 DEF EditorStep, Key
<1>5. CASE UNCHANGED anchor
  <2> SUFFICES ASSUME NEW v \in User
               PROVE  \/ anchor[v] \in Spoken(BaseLen, Shown(v)')
                      \/ \E o \in issued' : IsInsert(o) /\ o.id[1] = v /\ o.id = anchor[v]
    BY <1>5 DEF Anchored
  <2>1. CASE anchor[v] \in Spoken(BaseLen, Shown(v))
    <3>1. CASE \E o \in Shown(v) : IsInsert(o) /\ o.id = anchor[v]
      <4>1. PICK o \in Shown(v) : IsInsert(o) /\ o.id = anchor[v]
        BY <3>1
      <4>2. o \in issued
        BY DEF Shown
      <4> QED BY <1>3, <1>4, <4>1, <4>2 DEF Spoken
    <3>2. CASE ~\E o \in Shown(v) : IsInsert(o) /\ o.id = anchor[v]
      BY <2>1, <3>2 DEF Spoken
    <3> QED BY <3>1, <3>2
  <2>2. CASE anchor[v] \notin Spoken(BaseLen, Shown(v))
    BY <1>3, <2>2 DEF Anchored
  <2> QED BY <2>1, <2>2
<1>6. ASSUME NEW pos \in Nat, SetCursor(u, doc'[u], pos),
             \A v \in User \ {u} : Shown(v)' = Shown(v)
      PROVE  Anchored'
  <2>1. DOMAIN anchor = User
    BY DEF Anchored
  <2>2. anchor' = [anchor EXCEPT ![u] = CharBefore(doc'[u], pos)]
    BY <1>6 DEF SetCursor
  <2>3. anchor'[u] \in Spoken(BaseLen, Shown(u)')
    BY <1>2, <2>1, <2>2, CharBeforeIsSpoken
  <2>4. \A v \in User \ {u} : anchor'[v] = anchor[v]
    BY <2>1, <2>2
  <2> QED BY <1>3, <1>6, <2>1, <2>2, <2>3, <2>4 DEF Anchored
<1>7. CASE TypeChar(u) \/ Backspace(u) \/ ForwardDelete(u)
  <2>1. PICK op, pos : Typing(u, op, pos)
    BY <1>7, KeyMakes
  <2>2. \A v \in User \ {u} : Shown(v)' = Shown(v)
    BY <1>1, <2>1, TypingShows DEF EditorInv
  <2>3. pos \in Nat /\ SetCursor(u, doc'[u], pos)
    <3>1. DOMAIN doc = User
      BY TypeFacts DEF EditorInv
    <3> QED BY <2>1, <3>1 DEF Typing, Perform
  <2> QED BY <1>6, <2>2, <2>3
<1>8. CASE MoveCursor(u)
  <2>1. PICK pos \in 0..VisibleCharCount(doc[u]) : SetCursor(u, doc[u], pos)
    BY <1>8 DEF MoveCursor
  <2>2. pos \in Nat
    BY CursorIsInText
  <2>3. UNCHANGED <<doc, issued>>
    BY <1>8 DEF MoveCursor, bothVars
  <2> QED BY <1>6, <2>1, <2>2, <2>3 DEF Shown
<1>9. CASE Quit(u) \/ Hand(u) \/ Merge(u)
  <2>1. UNCHANGED anchor
    BY <1>9 DEF Quit, Hand, PushLocal, FlushBatch, Merge, DrainLocal, ReceiveOp, TakeIn,
                ReceiveTick, MergeOps, EndPass, WriteFile, NoticePeers, StopMerge, mainVars
  <2> QED BY <1>5, <2>1
<1> QED BY <1>7, <1>8, <1>9 DEF EditorStep, Key

\* While the anchor is shown the cursor is right behind it.
LEMMA CursorIsBehindAnchor ==
    ASSUME EditorInv, Anchored, NEW u \in User,
           CharBefore(doc[u], CursorPos(u)) # anchor[u]
    PROVE  \/ \E o \in issued : IsDelete(o) /\ o.ref = anchor[u]
           \/ \E o \in issued \ Shown(u) : o.id[1] = u /\ o.id = anchor[u]
<1> DEFINE d == doc[u]
           a == anchor[u]
           p == PositionOfCharID(d, a)
           i == FindByID(d, a)
<1>1. /\ InSync(d) /\ OneHead(d) /\ DOMAIN d.index = Spoken(BaseLen, Shown(u))
      /\ Shown(u) \subseteq issued /\ IsLog(Shown(u)) /\ d = Replay(Base, Shown(u))
  BY DocumentFacts DEF EditorInv, DocumentIsReplay
<1>2. \/ a \in DOMAIN d.index
      \/ \E o \in issued : IsInsert(o) /\ o.id[1] = u /\ o.id = a
  BY <1>1 DEF Anchored
<1>3. CursorPos(u) = IF IsHead(a) THEN 0 ELSE IF p >= 0 THEN p + 1
                     ELSE CursorPos(u)
  BY DEF CursorPos
<1>4. ~IsHead(a)
  <2> SUFFICES ASSUME IsHead(a) PROVE FALSE
    OBVIOUS
  <2>1. CharBefore(d, CursorPos(u)) = HeadID
    BY <1>3 DEF CharBefore
  <2>2. a # HeadID
    BY <2>1
  <2>3. \E o \in issued : o.id[1] = u /\ o.id = a
    BY <1>1, <1>2, <2>2 DEF OneHead
  <2> QED BY <2>3, UserAssumption DEF IsHead, HeadID
<1>5. p \in Nat \cup {-1}
  BY <1>1, PositionIsNumber
<1>6. p = -1
  <2> SUFFICES ASSUME p \in Nat PROVE FALSE
    BY <1>5
  <2>1. p >= 0 /\ VisibleCharID(d, p) = a
    BY <1>1, <1>4, PositionIsVisible
  <2>2. CursorPos(u) = p + 1 /\ p + 1 > 0 /\ (p + 1) - 1 = p
    BY <1>3, <1>4, <2>1
  <2>3. CharBefore(d, CursorPos(u)) = a
    BY <2>1, <2>2 DEF CharBefore
  <2> QED BY <2>3
<1>7. CASE a \in DOMAIN d.index
  <2>1. /\ i = d.index[a]
        /\ \E k \in 1..Len(d.chars) : d.chars[k].id = a
        /\ \A k \in 1..Len(d.chars) : d.index[d.chars[k].id] = k
    BY <1>1, <1>7 DEF FindByID, InSync
  <2>2. i \in 1..Len(d.chars) /\ d.chars[i].id = a /\ i # 0
    BY <2>1
  <2>3. d.chars[i].deleted
    <3>1. p = IF d.chars[i].deleted THEN -1
              ELSE Cardinality({j \in 2..i - 1 : ~d.chars[j].deleted})
      BY <1>4, <2>2 DEF PositionOfCharID
    <3>2. Cardinality({j \in 2..i - 1 : ~d.chars[j].deleted}) \in Nat
      <4> DEFINE S == {j \in 2..i - 1 : ~d.chars[j].deleted}
      <4>1. S \in SUBSET (2..i - 1)
        OBVIOUS
      <4>2. i - 1 \in Int
        BY <2>2
      <4> HIDE DEF S, i
      <4>3. IsFiniteSet(2..i - 1)
        BY <4>2, FS_Interval
      <4>4. Cardinality(S) \in Nat
        BY <4>1, <4>3, FS_Subset, FS_CardinalityType
      <4> QED BY <4>4 DEF S, i
    <3> QED BY <1>6, <3>1, <3>2
  <2>4. d.chars[i] \in EntriesOf(d) /\ a # HeadID
    BY <1>4, <2>2 DEF EntriesOf, IsHead
  <2>5. \E o \in Shown(u) : IsDelete(o) /\ o.ref = a
    BY <1>1, <2>2, <2>3, <2>4, BaseIsContent, ReplayLeaves
  <2> QED BY <1>1, <2>5
<1>8. CASE a \notin DOMAIN d.index
  <2>1. PICK o \in issued : IsInsert(o) /\ o.id[1] = u /\ o.id = a
    BY <1>2, <1>8
  <2>2. o \notin Shown(u)
    BY <1>1, <1>8, <2>1 DEF Spoken
  <2> QED BY <2>1, <2>2
<1> QED BY <1>7, <1>8

-----------------------------------------------------------------------------
(***************************************************************************)
(* What a key does to the text                                             *)
(***************************************************************************)
\* What is typed now is later than everything in the document.
LEMMA TypedIsLatest ==
    ASSUME EditorInv, NEW u \in User, NEW op, op.ts = clock[u] + 1
    PROVE  IsLatest(doc[u], op)
<1> SUFFICES ASSUME NEW x \in EntriesOf(doc[u]) PROVE x.stamp.ts < op.ts
  BY DEF IsLatest
<1>1. clock[u] \in Nat /\ IsLog(Shown(u)) /\ doc[u] = Replay(Base, Shown(u))
  BY TypeFacts, DocumentFacts DEF EditorInv, DocumentIsReplay
<1>2. x.stamp = NoStamp \/ \E o \in Shown(u) : x.stamp = Stamp(o)
  BY <1>1, BaseIsContent, ReplayLeaves
<1>3. \A o \in Shown(u) : o.ts <= clock[u] /\ o.ts \in Nat
  BY TypeFacts DEF EditorInv, BehindClock, Shown
<1>4. NoStamp.ts = 0 /\ \A o \in Shown(u) : Stamp(o).ts = o.ts
  BY DEF NoStamp, Stamp
<1> QED BY <1>1, <1>2, <1>3, <1>4

LEMMA InsertEdits ==
    ASSUME EditorInv, NEW u \in User, TypeChar(u)
    PROVE  Text(doc'[u]) = InsertAt(Text(doc[u]), CursorPos(u) + 1, NewID(u))
<1> DEFINE pos == CursorPos(u)
           d   == doc[u]
           op  == Insert(NewID(u), clock[u] + 1, CharBefore(d, pos), NewID(u))
<1>1. pos \in 0..VisibleCharCount(d) /\ VisibleCharCount(d) \in Nat /\ InSync(d)
      /\ d.applied = {o.id : o \in Shown(u)} /\ Shown(u) \subseteq issued
  BY CursorIsInText, DocumentFacts
<1>2. CharBefore(d, pos) = IF pos > 0 THEN VisibleCharID(d, pos - 1) ELSE HeadID
  BY DEF CharBefore
<1>3. CharBefore(d, pos) \in DOMAIN d.index \cap ID
  <2>1. VisibleCharID(d, pos - 1) \in DOMAIN d.index \cap ID
    BY <1>1, VisibleIDIsThere
  <2>2. HeadID \in DOMAIN d.index \cap ID
    BY <1>1, Places DEF HeadID, ID
  <2> QED BY <1>2, <2>1, <2>2
<1>4. Makes(u, op) /\ IsInsert(op) /\ op.ref = CharBefore(d, pos) /\ op.ch = NewID(u)
      /\ op.ts = clock[u] + 1
  BY <1>3, InsertMakes DEF Insert, IsInsert
<1>5. MayType(u) /\ Perform(u, op, pos + 1) /\ pos + 1 \in Nat
  BY <1>1 DEF TypeChar
<1> HIDE DEF op, pos
<1>6. op \in Op /\ op.id \notin d.applied
  <2>1. Typing(u, op, pos + 1)
    BY <1>4, <1>5 DEF Typing
  <2>2. op \in Op /\ \A o \in issued : o.id # op.id
    BY <2>1, TypingIsNew
  <2> QED BY <1>1, <2>2
<1>7. doc'[u] = ApplyOperation(d, op)
  BY <1>5, TypeFacts DEF Perform, EditorInv
<1>8. IsLatest(d, op)
  BY <1>4, TypedIsLatest
<1> HIDE DEF d
<1>9. /\ Visible(d) \in Seq(Entry) /\ pos + 1 \in 1..Len(Visible(d)) + 1
      /\ NewEntry(op) \in Entry
      /\ Visible(ApplyOperation(d, op)) = InsertAt(Visible(d), pos + 1, NewEntry(op))
  BY <1>1, <1>2, <1>4, <1>6, <1>8, TypedAppears
<1>10. Glyphs(InsertAt(Visible(d), pos + 1, NewEntry(op))) =
           InsertAt(Glyphs(Visible(d)), pos + 1, NewEntry(op).ch)
  BY <1>9, GlyphsInsert
<1>11. NewEntry(op).ch = NewID(u)
  BY <1>4 DEF NewEntry
<1>12. Text(doc'[u]) = InsertAt(Text(d), pos + 1, NewID(u))
  BY <1>7, <1>9, <1>10, <1>11 DEF Text, Glyphs
<1> QED BY <1>12 DEF d, pos

LEMMA DeleteEdits ==
    ASSUME EditorInv, NEW u \in User, NEW pos \in 0..VisibleCharCount(doc[u]) - 1, NEW to,
           to \in Nat, MayType(u),
           Perform(u, Delete(NewID(u), clock[u] + 1, VisibleCharID(doc[u], pos)), to)
    PROVE  Text(doc'[u]) = RemoveAt(Text(doc[u]), pos + 1)
<1> DEFINE d  == doc[u]
           op == Delete(NewID(u), clock[u] + 1, VisibleCharID(d, pos))
<1>1. VisibleCharCount(d) \in Nat /\ InSync(d)
      /\ d.applied = {o.id : o \in Shown(u)} /\ Shown(u) \subseteq issued
  BY CursorIsInText, DocumentFacts
<1>2. VisibleCharID(d, pos) \in DOMAIN d.index \cap ID /\ VisibleCharID(d, pos) # HeadID
  BY <1>1, VisibleIDIsThere
<1>3. Makes(u, op) /\ IsDelete(op) /\ op.ref = VisibleCharID(d, pos) /\ op.ts = clock[u] + 1
  BY <1>2, DeleteMakes DEF Delete, IsDelete
<1>4. Perform(u, op, to)
  OBVIOUS
<1> HIDE DEF op
<1>5. op \in Op /\ op.id \notin d.applied
  <2>1. Typing(u, op, to)
    BY <1>3, <1>4 DEF Typing
  <2>2. op \in Op /\ \A o \in issued : o.id # op.id
    BY <2>1, TypingIsNew
  <2> QED BY <1>1, <2>2
<1>6. doc'[u] = ApplyOperation(d, op)
  BY <1>4, TypeFacts DEF Perform, EditorInv
<1>7. IsLatest(d, op)
  BY <1>3, TypedIsLatest
<1>8. pos \in 0..VisibleCharCount(d) - 1
  OBVIOUS
<1> HIDE DEF d
<1>9. /\ Visible(d) \in Seq(Entry) /\ pos + 1 \in 1..Len(Visible(d))
      /\ Visible(ApplyOperation(d, op)) = RemoveAt(Visible(d), pos + 1)
  BY <1>1, <1>3, <1>5, <1>7, <1>8, DeletedDisappears
<1>10. Glyphs(RemoveAt(Visible(d), pos + 1)) = RemoveAt(Glyphs(Visible(d)), pos + 1)
  BY <1>9, GlyphsRemove
<1>11. Text(doc'[u]) = RemoveAt(Text(d), pos + 1)
  BY <1>6, <1>9, <1>10 DEF Text, Glyphs
<1> QED BY <1>11 DEF d

\* An insertion shows its own id, as every typed character is told from the
\* others.
InsertsAreNamed == \A o \in issued : IsInsert(o) => o.ch = o.id

LEMMA TypedIsNewChar ==
    ASSUME EditorInv, InsertsAreNamed, NEW u \in User
    PROVE  NewID(u) \notin ToSet(Text(doc[u]))
<1> DEFINE d == doc[u]
           id == NewID(u)
<1>1. /\ InSync(d) /\ IsLog(Shown(u)) /\ Shown(u) \subseteq issued
      /\ d = Replay(Base, Shown(u))
  BY DocumentFacts DEF EditorInv, DocumentIsReplay
<1>2. ToSet(Text(d)) \subseteq Chars(d)
  BY <1>1, TextShows DEF CharsShown, Chars
<1>3. Chars(d) = {NoChar} \cup ToSet(Base) \cup Inserted(Shown(u))
  BY <1>1, BaseIsContent, ReplayChars
<1>4. id = <<u, opSeq[u]>> /\ u \in Nat \ {0} /\ opSeq[u] \in Nat
  BY UserAssumption, TypeFacts DEF NewID, EditorInv
<1> HIDE DEF d, id
<1>5. id # NoChar
  BY <1>4 DEF NoChar
<1>6. id \notin ToSet(Base)
  <2>1. \A n \in DOMAIN Base : Base[n] = <<0, n>>
    BY DEF Base, BaseChar
  <2> QED BY <1>4, <2>1 DEF ToSet
<1>7. id \notin Inserted(Shown(u))
  <2> SUFFICES ASSUME NEW o \in Shown(u), IsInsert(o), o.ch = id PROVE FALSE
    BY DEF Inserted
  <2>1. o \in issued /\ o.id = id
    BY <1>1 DEF InsertsAreNamed
  <2>2. o.id[1] = u /\ o.id[2] = opSeq[u]
    BY <1>4, <2>1
  <2> QED BY <1>4, <2>1, <2>2 DEF EditorInv, NumbersUsed
<1> QED BY <1>2, <1>3, <1>5, <1>6, <1>7 DEF d, id

-----------------------------------------------------------------------------
(***************************************************************************)
(* One editor and all that could happen to it.                             *)
(***************************************************************************)
\* The others number their operations from 1.
RemoteNumbered ==
    \A o \in issued : o.id[1] \in Remote => o.id[2] <= Cardinality(By(o.id[1]))

OneInv ==
    /\ EditorInv /\ RemoteNumbered
    /\ sent \subseteq issued /\ arrivals \in 0..MaxArrivals

LEMMA OneInitInv == OneInit => OneInv
  BY InitInv, RemoteAssumption DEF OneInit, EditorInit, OneInv, RemoteNumbered

\* What another user issues is a proper operation with a new number.
LEMMA ElsewhereIssues ==
    ASSUME OneInv, NEW r \in Remote, Elsewhere(r)
    PROVE  \E op \in Op : /\ issued' = issued \cup {op}
                          /\ op.id = <<r, Cardinality(By(r)) + 1>>
                          /\ IsInsert(op) => op.ch = op.id
<1> DEFINE id   == <<r, Cardinality(By(r)) + 1>>
           seen == sent \cup Foreign
<1>1. issued \subseteq Op /\ IsFiniteSet(issued) /\ sent \subseteq issued
  BY TypeFacts DEF OneInv, EditorInv
<1>2. By(r) \subseteq issued /\ seen \subseteq issued
  BY <1>1 DEF By, Foreign
<1>3. IsFiniteSet(By(r)) /\ Cardinality(By(r)) \in Nat /\ By(r) \subseteq Op
  BY <1>1, <1>2, FS_Subset, FS_CardinalityType
<1>4. r \in Nat \ {0}
  BY RemoteAssumption
<1>5. id \in (Nat \ {0}) \X Nat /\ id \in ID
  BY <1>3, <1>4 DEF ID
<1> HIDE DEF id
<1>6. PICK ref \in {HeadID} \cup {BaseChar(n) : n \in 1..BaseLen}
                     \cup {o.id : o \in {p \in seen : IsInsert(p)}} :
        \E ts \in Max({TimeOf(seen, ref)} \cup {o.ts : o \in By(r)}) + 1 .. MaxTime :
          \E op \in {Insert(id, ts, ref, id)}
                    \cup (IF IsHead(ref) THEN {} ELSE {Delete(id, ts, ref)}) :
             issued' = issued \cup {op}
  BY DEF Elsewhere, id
<1> HIDE DEF seen
<1>7. ref \in ID
  <2>1. \A p \in seen : p.id \in ID
    BY <1>1, <1>2 DEF Op, ID
  <2>2. HeadID \in ID /\ \A n \in 1..BaseLen : BaseChar(n) \in ID
    BY BoundAssumption DEF HeadID, BaseChar, ID
  <2> QED BY <2>1, <2>2
<1>8. TimeOf(seen, ref) \in Nat
  <2> DEFINE ops == {p \in seen : p.id = ref}
  <2>1. ops \subseteq Op /\ IsFiniteSet(ops)
    <3>1. ops \subseteq issued
      BY <1>2
    <3> HIDE DEF ops
    <3> QED BY <1>1, <3>1, FS_Subset
  <2> HIDE DEF ops
  <2>2. Max({0} \cup {o.ts : o \in ops}) \in Nat
    BY <2>1, LatestIsLatest
  <2> QED BY <2>2 DEF TimeOf, ops
<1>9. Max({TimeOf(seen, ref)} \cup {o.ts : o \in By(r)}) \in Nat
  BY <1>3, <1>8, LatestIsLatest
<1> DEFINE latest == Max({TimeOf(seen, ref)} \cup {o.ts : o \in By(r)})
<1>10. PICK ts \in latest + 1 .. MaxTime :
          \E op \in {Insert(id, ts, ref, id)}
                    \cup (IF IsHead(ref) THEN {} ELSE {Delete(id, ts, ref)}) :
             issued' = issued \cup {op}
  BY <1>6
<1>11. latest \in Nat
  BY <1>9
<1> HIDE DEF latest
<1>12. ts \in Nat \ {0}
  BY <1>10, <1>11, RemoteAssumption
<1>13. /\ Insert(id, ts, ref, id) \in Op /\ Insert(id, ts, ref, id).id = id
       /\ Delete(id, ts, ref) \in Op /\ Delete(id, ts, ref).id = id
  BY <1>5, <1>7, <1>12 DEF Insert, Delete, Op, Glyph, NoChar
<1>14. /\ Insert(id, ts, ref, id).ch = id /\ ~IsInsert(Delete(id, ts, ref))
  BY DEF Insert, Delete, IsInsert
<1> QED BY <1>10, <1>13, <1>14 DEF id

LEMMA ElsewhereInv ==
    ASSUME OneInv, NEW r \in Remote, Elsewhere(r), UNCHANGED othersVars
    PROVE  OneInv'
<1>1. PICK op \in Op : /\ issued' = issued \cup {op}
                       /\ op.id = <<r, Cardinality(By(r)) + 1>>
  BY ElsewhereIssues
<1>2. /\ op.id[1] = r /\ r \notin User /\ issued \subseteq issued'
      /\ UNCHANGED <<inbound, outbound, syncs, sent, arrivals>>
  BY <1>1, RemoteAssumption DEF Elsewhere, netQueues
<1>3. /\ IsFiniteSet(issued) /\ \A o \in issued : o.id[2] \in Nat
      /\ RemoteNumbered /\ Unique
  BY TypeFacts DEF OneInv, EditorInv
<1>4. IsFiniteSet(By(r)) /\ Cardinality(By(r)) \in Nat
  <2>1. By(r) \subseteq issued
    BY DEF By
  <2> QED BY <1>3, <2>1, FS_Subset, FS_CardinalityType
<1>5. \A o \in issued : o.id # op.id
  <2>1. op.id[2] = Cardinality(By(r)) + 1
    BY <1>1
  <2>2. \A o \in issued : o.id[1] = r => o.id[2] <= Cardinality(By(r))
    BY <1>3 DEF RemoteNumbered
  <2> QED BY <1>2, <1>3, <1>4, <2>1, <2>2
<1>6. Unique'
  BY <1>1, <1>3, <1>5 DEF Unique
<1>7. RemoteNumbered'
  <2>1. By(r)' = By(r) \cup {op} /\ op \notin By(r)
    BY <1>1, <1>2, <1>5 DEF By
  <2>2. Cardinality(By(r)') = Cardinality(By(r)) + 1
    BY <1>4, <2>1, FS_AddElement
  <2>3. \A q \in Remote \ {r} : By(q)' = By(q)
    BY <1>1, <1>2 DEF By
  <2> SUFFICES ASSUME NEW o \in issued', o.id[1] \in Remote
               PROVE  o.id[2] <= Cardinality(By(o.id[1])')
    BY DEF RemoteNumbered
  <2>4. CASE o = op
    BY <1>1, <1>2, <1>4, <2>2, <2>4
  <2>5. CASE o # op /\ o.id[1] = r
    BY <1>1, <1>3, <1>4, <2>2, <2>5 DEF RemoteNumbered
  <2>6. CASE o # op /\ o.id[1] # r
    BY <1>1, <1>3, <2>3, <2>6 DEF RemoteNumbered
  <2> QED BY <2>4, <2>5, <2>6
<1>8. EditorTypeOK'
  <2>1. /\ Seq(issued) \subseteq Seq(issued')
        /\ Seq(Seq(issued)) \subseteq Seq(Seq(issued'))
        /\ Seq(SUBSET issued) \subseteq Seq(SUBSET issued')
    BY <1>2, MoreIssued
  <2> USE DEF EditorTypeOK
  <2>2. EditorTypeOK
    BY DEF OneInv, EditorInv, EditorTypes
  <2>3. opLog' \in [User -> SUBSET issued']
    BY <1>2, <2>2 DEF othersVars, mergeVars
  <2>4. /\ pending' \in [User -> Seq(issued')] /\ batch' \in [User -> Seq(issued')]
        /\ localOps' \in [User -> Seq(issued')] /\ inbound' \in [User -> Seq(issued')]
        /\ outbound' \in [User -> Seq(Seq(issued'))]
        /\ syncs' \in [User -> Seq(SUBSET issued')]
    BY <1>2, <2>1, <2>2 DEF othersVars, mergeVars, bothVars
  <2> QED BY <1>2, <2>2, <2>3, <2>4 DEF othersVars, mergeVars, bothVars
<1>9. EditorInv'
  <2>1. UNCHANGED <<mainPc, opSeq, fallback, pending, batch, opLog, clock, doc, localOps>>
    BY DEF othersVars, mergeVars, bothVars
  <2>2. issued' = issued \cup {op} /\ IsFiniteSet({op}) /\ {op} \subseteq Op
        /\ \A o \in {op} : o.id[1] \notin User
    BY <1>1, <1>2, FS_Singleton
  <2> QED BY <1>6, <1>8, <2>1, <2>2, OutsideInv DEF OneInv
<1> QED BY <1>2, <1>7, <1>9 DEF OneInv

LEMMA ArrivalInv ==
    ASSUME OneInv, UNCHANGED othersVars, UNCHANGED issued, NEW u \in User,
           Send(u) \/ Arrive(u)
    PROVE  OneInv'
<1>1. /\ UNCHANGED <<mainPc, opSeq, fallback, pending, batch, opLog, clock, doc, localOps,
                     running, mergePc, issued>>
      /\ EditorTypeOK /\ sent \subseteq issued /\ arrivals \in 0..MaxArrivals
  BY DEF othersVars, mergeVars, bothVars, OneInv, EditorInv, EditorTypes
<1>2. /\ EditorTypeOK' /\ sent' \subseteq issued' /\ arrivals' \in 0..MaxArrivals
  <2>1. CASE Send(u)
    <3>1. \A i \in DOMAIN outbound[u] : ToSet(outbound[u][i]) \subseteq issued
      BY <1>1 DEF ToSet, EditorTypeOK
    <3>2. /\ sent' \subseteq issued'
          /\ outbound' \in [User -> Seq(Seq(issued'))]
          /\ \A v \in User : Len(outbound'[v]) <= OutboundCap
      <4>1. /\ sent' = sent \cup UNION {ToSet(outbound[u][i]) : i \in DOMAIN outbound[u]}
            /\ outbound' = [outbound EXCEPT ![u] = <<>>] /\ issued' = issued
        BY <1>1, <2>1 DEF Send
      <4>2. /\ outbound \in [User -> Seq(Seq(issued))]
            /\ \A v \in User : Len(outbound[v]) <= OutboundCap
        BY <1>1 DEF EditorTypeOK
      <4>3. sent' \subseteq issued'
        BY <1>1, <3>1, <4>1
      <4>4. outbound' \in [User -> Seq(Seq(issued))]
        BY <4>1, <4>2
      <4>5. ASSUME NEW v \in User PROVE Len(outbound'[v]) <= OutboundCap
        <5>1. outbound'[v] = <<>> \/ outbound'[v] = outbound[v]
          BY <4>1, <4>2
        <5>2. Len(<<>>) <= OutboundCap
          BY CapsAreNatural
        <5> QED BY <4>2, <5>1, <5>2
      <4> QED BY <4>1, <4>3, <4>4, <4>5
    <3> QED BY <1>1, <2>1, <3>2 DEF Send, EditorTypeOK
  <2>2. CASE Arrive(u)
    <3>1. PICK op \in Foreign \cup sent :
            inbound' = [inbound EXCEPT ![u] = PushTo(@, op, InboundCap)]
      BY <2>2 DEF Arrive
    <3>2. /\ op \in issued /\ inbound[u] \in Seq(issued) /\ Len(inbound[u]) <= InboundCap
          /\ InboundCap \in Nat
      BY <1>1, CapsAreNatural DEF Foreign, EditorTypeOK
    <3>3. /\ PushTo(inbound[u], op, InboundCap) \in Seq(issued)
          /\ Len(PushTo(inbound[u], op, InboundCap)) <= InboundCap
      BY <3>2, PushToType
    <3>4. /\ inbound' \in [User -> Seq(issued')]
          /\ \A v \in User : Len(inbound'[v]) <= InboundCap
      BY <1>1, <3>1, <3>3 DEF EditorTypeOK
    <3>5. arrivals' \in 0..MaxArrivals
      BY <1>1, <2>2, RemoteAssumption DEF Arrive
    <3> QED BY <1>1, <2>2, <3>4, <3>5 DEF Arrive, EditorTypeOK
  <2> QED BY <2>1, <2>2
<1>3. EditorInv'
  <2>1. issued' = issued \cup {} /\ IsFiniteSet({}) /\ {} \subseteq Op
    BY <1>1, FS_EmptySet
  <2>2. EditorInv /\ Unique'
    BY <1>1 DEF OneInv, EditorInv, Unique
  <2> QED BY <1>1, <1>2, <2>1, <2>2, OutsideInv
<1>4. RemoteNumbered'
  BY <1>1 DEF OneInv, RemoteNumbered, By
<1> QED BY <1>2, <1>3, <1>4 DEF OneInv

LEMMA OneStepInv == OneInv /\ [OneNext]_oneVars => OneInv'
<1> SUFFICES ASSUME OneInv, [OneNext]_oneVars PROVE OneInv'
  OBVIOUS
<1>1. ASSUME NEW u \in User, EditorStep(u), UNCHANGED envVars
      PROVE  OneInv'
  <2>1. EditorInv /\ EditorInv'
    BY <1>1, EditorStepInv DEF OneInv
  <2>2. CASE UNCHANGED issued
    BY <1>1, <2>1, <2>2 DEF OneInv, RemoteNumbered, By, envVars
  <2>3. ASSUME NEW op, NEW pos, Typing(u, op, pos)
        PROVE  OneInv'
    <3>1. issued' = issued \cup {op} /\ op.id[1] = u /\ u \notin Remote
      BY <2>1, <2>3, TypingIsNew, RemoteAssumption
    <3>2. \A r \in Remote : By(r)' = By(r)
      BY <3>1 DEF By
    <3>3. RemoteNumbered'
      BY <3>1, <3>2 DEF OneInv, RemoteNumbered
    <3> QED BY <1>1, <2>1, <3>1, <3>3 DEF OneInv, envVars
  <2> QED BY <1>1, <2>1, <2>2, <2>3, EditorIssues
<1>2. CASE Environment
  BY <1>2, ElsewhereInv, ArrivalInv DEF Environment
<1>3. CASE UNCHANGED oneVars
  BY <1>3 DEF oneVars, editorVars, envVars, mainVars, mergeVars, bothVars, netQueues, OneInv,
              EditorInv, EditorTypes, EditorTypeOK, Unique, NumbersUsed, AllNumbersUsed,
              OwnInHand, BehindClock, ShownIsLoggedOrOwn, DocumentIsReplay, Shown,
              RemoteNumbered, By
<1> QED BY <1>1, <1>2, <1>3 DEF OneNext

LEMMA OneInvariant == OneSpec => []OneInv
  BY OneInitInv, OneStepInv, PTL DEF OneSpec

\* For every capacity of the queues, whatever the network brings and in
\* whatever order the threads run, queues hold issued operations only and
\* never more than fit (utils.h 54-63).
THEOREM TypeCorrect == OneSpec => []OneTypeOK
<1>1. OneInv => OneTypeOK
  BY DEF OneInv, EditorInv, EditorTypes, OneTypeOK
<1> QED BY <1>1, OneInvariant, PTL

\* No two operations of a user have the same id (DESIGN.md 44), as long as the
\* process runs.
THEOREM UniqueIds == OneSpec => []IdsAreUnique
<1>1. OneInv => IdsAreUnique
  BY DEF OneInv, EditorInv, Unique, IdsAreUnique
<1> QED BY <1>1, OneInvariant, PTL

\* The document is at any moment the replay of what it shows, whether a pass of
\* the merge thread has replayed the log or keys have been applied one by one
\* (editor.cpp 185, 281-286).
THEOREM DocumentAlwaysReplay == OneSpec => []DocumentIsReplay
<1>1. OneInv => DocumentIsReplay
  BY DEF OneInv, EditorInv
<1> QED BY <1>1, OneInvariant, PTL

\* The clock is never behind an operation the user sees or has logged
\* (editor.cpp 256-262).
THEOREM ClockStaysAhead == OneSpec => []ClockAhead
<1>1. OneInv => ClockAhead
  BY DEF OneInv, EditorInv, BehindClock, ClockAhead
<1> QED BY <1>1, OneInvariant, PTL

\* What is logged stays in the document, whatever is queued again (editor.cpp
\* 264-286).
THEOREM LoggedAlwaysShown == OneSpec => []LoggedIsShown
<1>1. OneInv => LoggedIsShown
  BY DEF OneInv, EditorInv, ShownIsLoggedOrOwn, Shown, LoggedIsShown
<1> QED BY <1>1, OneInvariant, PTL

\* A typed operation is later than everything logged at that moment (editor.cpp
\* 260, ui.cpp 394): the condition under which sorting by time puts causes
\* before effects.
THEOREM CausesBeforeEffects == OneSpec => TypedAfterLogged
<1>1. ASSUME OneInv, [OneNext]_oneVars
      PROVE  [\A u \in User : \A o \in issued' \ issued :
                o.id[1] = u => \A p \in opLog[u] : p.ts < o.ts]_editorVars
  <2> SUFFICES ASSUME NEW u \in User, NEW o \in issued' \ issued, o.id[1] = u,
                      NEW p \in opLog[u]
               PROVE  p.ts < o.ts
    OBVIOUS
  <2>0. EditorInv
    BY <1>1 DEF OneInv
  <2>1. p.ts \in Nat /\ p.ts <= clock[u] /\ clock[u] \in Nat
    BY <2>0, TypeFacts DEF EditorInv, BehindClock
  <2>2. ASSUME NEW v \in User, EditorStep(v)
        PROVE  p.ts < o.ts
    <3>1. PICK op, pos : Typing(v, op, pos)
      BY <2>0, <2>2, EditorIssues
    <3>2. o = op /\ u = v
      BY <2>0, <3>1, TypingIsNew
    <3>3. op.ts = clock[v] + 1
      BY <3>1 DEF Typing, Makes
    <3> QED BY <2>1, <3>2, <3>3
  <2>3. ~Environment
    <3>1. ASSUME NEW r \in Remote, Elsewhere(r) PROVE FALSE
      <4>1. PICK op \in Op : issued' = issued \cup {op} /\ op.id[1] = r
        BY <1>1, <3>1, ElsewhereIssues
      <4>2. o.id[1] = r
        BY <4>1
      <4> QED BY <4>2, RemoteAssumption
    <3> QED BY <3>1 DEF Environment
  <2>4. UNCHANGED oneVars => UNCHANGED issued
    BY DEF oneVars, editorVars, mainVars
  <2> QED BY <1>1, <2>2, <2>3, <2>4 DEF OneNext
<1> QED BY <1>1, OneInvariant, PTL DEF OneSpec, TypedAfterLogged

\* Nothing issued is ever taken back.
LEMMA EnvironmentKeeps ==
    ASSUME OneInv, Environment
    PROVE  issued \subseteq issued'
<1>1. ASSUME NEW r \in Remote, Elsewhere(r) PROVE issued \subseteq issued'
  BY <1>1, ElsewhereIssues
<1> QED BY <1>1 DEF Environment

\* Others cannot issue what this user types.
LEMMA EnvironmentIssues ==
    ASSUME OneInv, Environment
    PROVE  /\ UNCHANGED <<mainPc, opSeq, pending, localOps, batch, opLog, mergePc>>
           /\ \A o \in issued' \ issued : o.id[1] \notin User
<1>1. UNCHANGED <<mainPc, opSeq, pending, localOps, batch, opLog, mergePc>>
  BY DEF Environment, othersVars, mergeVars, bothVars
<1>2. ASSUME NEW r \in Remote, Elsewhere(r)
      PROVE  \A o \in issued' \ issued : o.id[1] \notin User
  <2>1. PICK op \in Op : issued' = issued \cup {op} /\ op.id[1] = r
    BY <1>2, ElsewhereIssues
  <2> QED BY <2>1, RemoteAssumption
<1> QED BY <1>1, <1>2 DEF Environment

\* An operation that is not in its author's document is on its way to the next
\* replay, as long as local_ops_ takes what is pushed: pushWithRetry gives an
\* operation up when it finds no room (editor.cpp 188-195, 258, 281-286).
THEOREM OwnOperationsComeBack == OneSpec /\ [][PushesFit]_oneVars => []OwnOpsComeBack
<1> DEFINE I == OneInv /\ BatchOfPass /\ OwnInReach
<1>1. OneInit => I
  BY OneInitInv, FollowsInit DEF OneInit
<1>2. ASSUME I, [OneNext]_oneVars, [PushesFit]_oneVars
      PROVE  I'
  <2>1. OneInv /\ OneInv' /\ EditorInv
    BY <1>2, OneStepInv DEF OneInv
  <2>2. ASSUME NEW u \in User, EditorStep(u), PushesFit
        PROVE  BatchOfPass' /\ OwnInReach'
    BY <1>2, <2>1, <2>2, BatchOfPassStep, OwnInReachStep
  <2>3. CASE Environment
    BY <1>2, <2>1, <2>3, EnvironmentIssues DEF BatchOfPass, OwnInReach
  <2>4. CASE UNCHANGED oneVars
    BY <1>2, <2>1, <2>4 DEF BatchOfPass, OwnInReach, oneVars, editorVars, mainVars, mergeVars,
                      bothVars
  <2> QED BY <1>2, <2>1, <2>2, <2>3, <2>4 DEF OneNext
<1>3. I => OwnOpsComeBack
  <2> SUFFICES ASSUME I, NEW u \in User, NEW o \in issued \ Shown(u), o.id[1] = u
               PROVE  o \in ToSet(pending[u]) \cup ToSet(localOps[u]) \cup ToSet(batch[u])
    BY DEF OwnOpsComeBack
  <2>1. o \notin opLog[u]
    BY DEF OneInv, EditorInv, ShownIsLoggedOrOwn
  <2>2. mainPc[u] = "push" => pending[u][1] \in ToSet(pending[u])
    <3>1. pending[u] \in Seq(issued) /\ (mainPc[u] = "push" => pending[u] # <<>>)
      BY TypeFacts DEF OneInv, EditorInv
    <3>2. ASSUME pending[u] # <<>> PROVE 1 \in DOMAIN pending[u]
      BY <3>1, <3>2
    <3> QED BY <3>1, <3>2 DEF ToSet
  <2> QED BY <2>1, <2>2 DEF OwnInReach
<1> QED BY <1>1, <1>2, <1>3, PTL DEF OneSpec

\* Such is the case while the user has typed no more than local_ops_ holds.
THEOREM QueueHasRoom ==
    ASSUME MaxOps <= LocalCap
    PROVE  OneSpec => [][PushesFit]_oneVars
<1> DEFINE I == OneInv /\ QueuedAreTyped
<1>1. OneInit => I
  BY OneInitInv DEF OneInit, EditorInit, QueuedAreTyped
<1>2. I /\ [OneNext]_oneVars => I'
  <2> SUFFICES ASSUME I, [OneNext]_oneVars PROVE I'
    OBVIOUS
  <2>1. OneInv /\ OneInv' /\ EditorInv
    BY OneStepInv DEF OneInv
  <2>2. ASSUME NEW u \in User, EditorStep(u)
        PROVE  QueuedAreTyped'
    BY <2>1, <2>2, QueuedAreTypedStep
  <2>3. CASE Environment
    BY <2>1, <2>3, EnvironmentIssues DEF QueuedAreTyped
  <2>4. CASE UNCHANGED oneVars
    BY <2>1, <2>4 DEF QueuedAreTyped, oneVars, editorVars, mainVars, mergeVars, bothVars
  <2> QED BY <2>1, <2>2, <2>3, <2>4 DEF OneNext
<1>3. I => PushesFit
  BY QueuedFit DEF OneInv
<1> QED BY <1>1, <1>2, <1>3, PTL DEF OneSpec

\* The cursor stays behind its anchor, whatever arrives, unless the anchor is
\* deleted or waits for the next replay (ui.h 58-59, ui.cpp 279-291, editor.cpp
\* 281-286).
THEOREM CursorFollowsAnchor == OneSpec /\ [][PushesFit]_oneVars => []CursorStaysAtAnchor
<1> DEFINE I == OneInv /\ BatchOfPass /\ OwnInReach /\ Anchored
<1>1. OneInit => I
  BY OneInitInv, FollowsInit, AnchoredInit DEF OneInit
<1>2. ASSUME I, [OneNext]_oneVars, [PushesFit]_oneVars
      PROVE  I'
  <2>1. OneInv /\ OneInv' /\ EditorInv
    BY <1>2, OneStepInv DEF OneInv
  <2>2. ASSUME NEW u \in User, EditorStep(u), PushesFit
        PROVE  BatchOfPass' /\ OwnInReach' /\ Anchored'
    BY <1>2, <2>1, <2>2, BatchOfPassStep, OwnInReachStep, AnchoredStep
  <2>3. CASE Environment
    <3>1. BatchOfPass' /\ OwnInReach'
      BY <1>2, <2>1, <2>3, EnvironmentIssues DEF BatchOfPass, OwnInReach
    <3>2. UNCHANGED <<anchor, doc>> /\ issued \subseteq issued'
      BY <2>1, <2>3, EnvironmentKeeps DEF Environment, othersVars, bothVars
    <3>3. \A u \in User : Shown(u) \subseteq Shown(u)'
      BY <3>2 DEF Shown
    <3>4. \A u \in User : Spoken(BaseLen, Shown(u)) \subseteq Spoken(BaseLen, Shown(u)')
      BY <3>3 DEF Spoken
    <3>5. Anchored'
      BY <1>2, <3>2, <3>4 DEF Anchored
    <3> QED BY <2>1, <3>1, <3>5
  <2>4. CASE UNCHANGED oneVars
    BY <1>2, <2>1, <2>4 DEF BatchOfPass, OwnInReach, Anchored, Shown, oneVars, editorVars,
                      mainVars, mergeVars, bothVars
  <2> QED BY <1>2, <2>1, <2>2, <2>3, <2>4 DEF OneNext
<1>3. I => CursorStaysAtAnchor
  <2> SUFFICES ASSUME I, NEW u \in User, AtKey(u),
                      CharBefore(doc[u], CursorPos(u)) # anchor[u]
               PROVE  \/ \E o \in issued : IsDelete(o) /\ o.ref = anchor[u]
                      \/ \E o \in ToSet(localOps[u]) \cup ToSet(batch[u]) : o.id = anchor[u]
    BY DEF CursorStaysAtAnchor
  <2>1. EditorInv /\ Anchored
    BY DEF OneInv
  <2>2. CASE \E o \in issued : IsDelete(o) /\ o.ref = anchor[u]
    BY <2>2
  <2>3. CASE \E o \in issued \ Shown(u) : o.id[1] = u /\ o.id = anchor[u]
    <3>1. PICK o \in issued \ Shown(u) : o.id[1] = u /\ o.id = anchor[u]
      BY <2>3
    <3>2. o \notin opLog[u]
      BY <2>1 DEF EditorInv, ShownIsLoggedOrOwn
    <3> QED BY <3>1, <3>2 DEF OwnInReach, AtKey
  <2> QED BY <2>1, <2>2, <2>3, CursorIsBehindAnchor
<1> QED BY <1>1, <1>2, <1>3, PTL DEF OneSpec

\* A key edits the text at the cursor and leaves the rest alone, wherever the
\* cursor is and whatever the merge thread is doing (ui.cpp 351-403).
THEOREM KeysEdit == OneSpec => KeysEditAtCursor
<1> DEFINE I == OneInv /\ InsertsAreNamed
           Edits == \A u \in User :
                      LET pos == CursorPos(u)
                          old == Text(doc[u])
                          new == Text(doc'[u])
                      IN  /\ TypeChar(u) => \E ch \in ToSet(new) \ ToSet(old) :
                                               new = InsertAt(old, pos + 1, ch)
                          /\ Backspace(u) => new = RemoveAt(old, pos)
                          /\ ForwardDelete(u) => new = RemoveAt(old, pos + 1)
<1>1. OneInit => I
  BY OneInitInv DEF OneInit, EditorInit, InsertsAreNamed
<1>2. ASSUME I, [OneNext]_oneVars
      PROVE  I'
  <2>0. OneInv /\ InsertsAreNamed
    BY <1>2
  <2>1. OneInv' /\ EditorInv
    BY <1>2, <2>0, OneStepInv DEF OneInv
  <2>2. ASSUME NEW u \in User, EditorStep(u)
        PROVE  InsertsAreNamed'
    <3>1. CASE UNCHANGED issued
      BY <1>2, <3>1 DEF InsertsAreNamed
    <3>2. ASSUME NEW op, NEW pos, Typing(u, op, pos)
          PROVE  InsertsAreNamed'
      <4>1. issued' = issued \cup {op} /\ Makes(u, op)
        BY <2>1, <3>2, TypingIsNew DEF Typing
      <4>2. IsInsert(op) => op.ch = op.id
        BY <4>1 DEF Makes, Insert, Delete, IsInsert
      <4> QED BY <1>2, <4>1, <4>2 DEF InsertsAreNamed
    <3> QED BY <2>1, <2>2, <3>1, <3>2, EditorIssues
  <2>3. CASE Environment
    <3>1. ASSUME NEW r \in Remote, Elsewhere(r) PROVE InsertsAreNamed'
      <4>1. PICK op : issued' = issued \cup {op} /\ (IsInsert(op) => op.ch = op.id)
        BY <2>0, <3>1, ElsewhereIssues
      <4> QED BY <2>0, <4>1 DEF InsertsAreNamed
    <3>2. issued' = issued => InsertsAreNamed'
      BY <2>0 DEF InsertsAreNamed
    <3> QED BY <2>1, <2>3, <3>1, <3>2 DEF Environment
  <2>4. CASE UNCHANGED oneVars
    <3>1. issued' = issued
      BY <2>4 DEF oneVars, editorVars, mainVars, bothVars
    <3>2. InsertsAreNamed'
      BY <2>0, <3>1 DEF InsertsAreNamed
    <3> QED BY <2>1, <3>2
  <2>5. InsertsAreNamed'
    BY <1>2, <2>2, <2>3, <2>4 DEF OneNext
  <2> QED BY <2>1, <2>5
<1>3. I => Edits
  <2> SUFFICES ASSUME I, NEW u \in User
               PROVE  /\ TypeChar(u) =>
                           \E ch \in ToSet(Text(doc'[u])) \ ToSet(Text(doc[u])) :
                              Text(doc'[u]) = InsertAt(Text(doc[u]), CursorPos(u) + 1, ch)
                      /\ Backspace(u) => Text(doc'[u]) = RemoveAt(Text(doc[u]), CursorPos(u))
                      /\ ForwardDelete(u) =>
                           Text(doc'[u]) = RemoveAt(Text(doc[u]), CursorPos(u) + 1)
    OBVIOUS
  <2> DEFINE pos == CursorPos(u)
             n   == VisibleCharCount(doc[u])
             old == Text(doc[u])
  <2>1. EditorInv /\ InsertsAreNamed
    BY DEF OneInv
  <2>2. n \in Nat /\ pos \in 0..n
    BY <2>1, CursorIsInText
  <2> HIDE DEF pos, n, old
  <2>3. CASE TypeChar(u)
    <3>1. Text(doc'[u]) = InsertAt(old, pos + 1, NewID(u)) /\ NewID(u) \notin ToSet(old)
      BY <2>1, <2>3, InsertEdits, TypedIsNewChar DEF old, pos
    <3>2. NewID(u) \in ToSet(Text(doc'[u]))
      <4> DEFINE all == Glyph \cup {NewID(u)}
      <4>1. InSync(doc[u]) /\ Visible(doc[u]) \in Seq(Entry)
        BY <2>1, DocumentFacts, VisibleAreThere
      <4>2. old \in Seq(Glyph) /\ Len(old) = n
        BY <4>1, GlyphsAre DEF old, Text, Glyphs, n, VisibleCharCount
      <4>3. old \in Seq(all) /\ NewID(u) \in all /\ pos + 1 \in 1..Len(old) + 1
        BY <2>2, <4>2
      <4> HIDE DEF all
      <4>4. Moved(all, old, pos + 1, NewID(u))
        BY <4>3, InsertAtMoves
      <4>5. /\ Text(doc'[u]) \in Seq(all) /\ Len(Text(doc'[u])) = n + 1
            /\ pos + 1 \in 1..n + 1 /\ Text(doc'[u])[pos + 1] = NewID(u)
        BY <2>2, <3>1, <4>2, <4>4 DEF Moved
      <4>6. pos + 1 \in DOMAIN Text(doc'[u])
        BY <4>5
      <4> QED BY <4>5, <4>6 DEF ToSet
    <3>3. ~Backspace(u) /\ ~ForwardDelete(u)
      <4> SUFFICES ASSUME Backspace(u) \/ ForwardDelete(u) PROVE FALSE
        OBVIOUS
      <4>1. \E x, to : IsDelete(x) /\ Perform(u, x, to)
        BY DEF Backspace, ForwardDelete, Delete, IsDelete
      <4>2. \E y, to : IsInsert(y) /\ Perform(u, y, to)
        BY <2>3 DEF TypeChar, Insert, IsInsert
      <4> QED BY <4>1, <4>2, <2>1, TypeFacts DEF Perform, IsInsert, IsDelete, EditorInv
    <3> QED BY <3>1, <3>2, <3>3 DEF old, pos
  <2>4. Backspace(u) => Text(doc'[u]) = RemoveAt(old, pos)
    <3> SUFFICES ASSUME Backspace(u) PROVE Text(doc'[u]) = RemoveAt(old, pos)
      OBVIOUS
    <3>1. /\ MayType(u) /\ pos > 0
          /\ Perform(u, Delete(NewID(u), clock[u] + 1, VisibleCharID(doc[u], pos - 1)), pos - 1)
      BY DEF Backspace, pos
    <3>2. pos - 1 \in 0..n - 1 /\ pos - 1 \in Nat /\ (pos - 1) + 1 = pos
      BY <2>2, <3>1
    <3>3. Text(doc'[u]) = RemoveAt(old, (pos - 1) + 1)
      BY <2>1, <3>1, <3>2, DeleteEdits DEF old, n
    <3> QED BY <3>2, <3>3
  <2>5. ForwardDelete(u) => Text(doc'[u]) = RemoveAt(old, pos + 1)
    <3> SUFFICES ASSUME ForwardDelete(u) PROVE Text(doc'[u]) = RemoveAt(old, pos + 1)
      OBVIOUS
    <3>1. /\ MayType(u) /\ pos < n
          /\ Perform(u, Delete(NewID(u), clock[u] + 1, VisibleCharID(doc[u], pos)), pos)
      BY DEF ForwardDelete, pos, n
    <3>2. pos \in 0..n - 1 /\ pos \in Nat
      BY <2>2, <3>1
    <3> QED BY <2>1, <3>1, <3>2, DeleteEdits DEF old, n
  <2> QED BY <2>3, <2>4, <2>5 DEF old, pos
<1> HIDE DEF I
<1>4. I => [Edits]_editorVars
  BY <1>3
<1>5. OneSpec => []I
  BY <1>1, <1>2, PTL DEF OneSpec
<1> QED BY <1>4, <1>5, PTL DEF KeysEditAtCursor

-----------------------------------------------------------------------------
(***************************************************************************)
(* The network thread keeps its types, and leaves the editor's invariant   *)
(* alone.                                                                  *)
(***************************************************************************)
Frame(S) == [kind : {"hello", "ops"}, ops : Seq(S)]

NetTypes ==
    /\ netOn \in [User -> BOOLEAN]
    /\ link \in [Link -> {"none", "backlog", "up"}]
    /\ peers \in [User -> SUBSET Link]
    /\ named \in [User -> SUBSET Link] /\ waiting \in [User -> SUBSET Link]
    /\ \A u \in User : /\ named[u] \cup waiting[u] \subseteq peers[u]
                       /\ peers[u] \subseteq Net!LinksOf(u)
    /\ arriving \in [User -> Seq(issued)]
    /\ wire \in [Net!Ends -> Seq(Frame(issued))]

SessionInv == EditorInv /\ NetTypes

LEMMA SessionInitInv == Init => SessionInv
<1> SUFFICES ASSUME Init PROVE SessionInv
  OBVIOUS
<1>1. EditorInv
  BY InitInv DEF Init
<1>2. peers = [u \in User |-> Net!LinksOf(u) \cap Up] /\ named = peers /\ waiting = peers
  BY DEF Init, Net!NetInit
<1>3. /\ arriving = [u \in User |-> <<>>] /\ wire = [e \in Net!Ends |-> <<>>]
      /\ netOn = [u \in User |-> TRUE]
      /\ link = [l \in Link |-> IF l \in Up THEN "up" ELSE "none"]
  BY DEF Init, Net!NetInit
<1>4. NetTypes
  BY <1>2, <1>3, LinkAssumption DEF NetTypes
<1> QED BY <1>1, <1>4 DEF SessionInv

\* A frame of issued operations stays one.
LEMMA MoreFrames ==
    ASSUME NEW S, NEW T, S \subseteq T
    PROVE  Frame(S) \subseteq Frame(T) /\ Seq(Frame(S)) \subseteq Seq(Frame(T))
<1>1. Seq(S) \subseteq Seq(T)
  BY SeqOfMore
<1>2. Frame(S) \subseteq Frame(T)
  BY <1>1 DEF Frame
<1> QED BY <1>2, SeqOfMore

LEMMA EditorKeepsNet ==
    ASSUME SessionInv, NEW u \in User, EditorStep(u), UNCHANGED netVars
    PROVE  SessionInv'
<1>1. EditorInv /\ EditorInv'
  BY EditorStepInv DEF SessionInv
<1>2. issued \subseteq issued'
  BY <1>1, EditorIssues, TypingIsNew
<1>3. /\ Seq(issued) \subseteq Seq(issued')
      /\ Seq(Frame(issued)) \subseteq Seq(Frame(issued'))
  BY <1>2, MoreIssued, MoreFrames
<1>4. NetTypes'
  BY <1>3 DEF SessionInv, NetTypes, netVars
<1> QED BY <1>1, <1>4 DEF SessionInv

\* Snapshots are sent as sequences of issued operations, and so is the rest.
LEMMA FramesAreFrames ==
    ASSUME SessionInv, NEW u \in User
    PROVE  /\ Net!Snapshot(u) \in Seq(Frame(issued))
           /\ Net!Live(u) \in Seq(Frame(issued))
<1>1. /\ outbound[u] \in Seq(Seq(issued)) /\ syncs[u] \in Seq(SUBSET issued)
      /\ EditorTypes /\ Unique
  BY DEF SessionInv, EditorInv, EditorTypes, EditorTypeOK
<1>2. Net!Live(u) \in Seq(Frame(issued))
  <2>1. /\ Len(outbound[u]) \in Nat
        /\ Net!Live(u) = [i \in 1..Len(outbound[u]) |-> Net!OpsFrame(outbound[u][i])]
    BY <1>1 DEF Net!Live
  <2>2. \A i \in 1..Len(outbound[u]) : Net!OpsFrame(outbound[u][i]) \in Frame(issued)
    BY <1>1 DEF Net!OpsFrame, Frame
  <2> QED BY <2>1, <2>2
<1>3. Net!Snapshot(u) \in Seq(Frame(issued))
  <2>1. CASE waiting[u] # {} /\ syncs[u] # <<>>
    <3> DEFINE log == Head(syncs[u])
    <3>1. log \in SUBSET issued
      BY <1>1, <2>1
    <3> HIDE DEF log
    <3>2. IsLog(log)
      BY <1>1, <3>1, IssuedAreLogs
    <3>3. SortOps(log) \in Seq(log)
      BY <3>2, SortEnumerates
    <3>4. SortOps(log) \in Seq(issued)
      BY <3>1, <3>3, SeqOfMore
    <3>5. Net!OpsFrame(SortOps(log)) \in Frame(issued)
      BY <3>4 DEF Net!OpsFrame, Frame
    <3>6. Net!Snapshot(u) = <<Net!OpsFrame(SortOps(log))>>
      BY <2>1 DEF Net!Snapshot, log
    <3> QED BY <3>5, <3>6
  <2>2. CASE ~(waiting[u] # {} /\ syncs[u] # <<>>)
    BY <2>2 DEF Net!Snapshot
  <2> QED BY <2>1, <2>2
<1> QED BY <1>2, <1>3

\* Connections come and go.
LEMMA ConnectingTypes ==
    ASSUME SessionInv, NEW u \in User, UNCHANGED issued, NEW l \in Net!LinksOf(u),
           Net!Connect(u, l) \/ Net!Accept(u, l) \/ Net!PeerGone(u, l)
    PROVE  NetTypes' /\ UNCHANGED <<inbound, outbound, syncs>>
<1>1. /\ NetTypes /\ l \in Link /\ DOMAIN peers = User /\ DOMAIN named = User
      /\ DOMAIN waiting = User /\ DOMAIN link = Link
  BY DEF SessionInv, NetTypes, Net!LinksOf
<1>2. wire' \in [Net!Ends -> Seq(Frame(issued))] /\ link' \in [Link -> {"none", "backlog", "up"}]
  <2>1. Net!Hello \in Frame(issued)
    BY DEF Net!Hello, Frame
  <2>2. CASE Net!Connect(u, l)
    <3>1. /\ wire' = [wire EXCEPT ![<<l, l[2]>>] = Append(@, Net!Hello)]
          /\ link' = [link EXCEPT ![l] = "backlog"]
      BY <2>2 DEF Net!Connect
    <3>2. wire' \in [Net!Ends -> Seq(Frame(issued))]
      <4> DEFINE e == <<l, l[2]>>
                 F == Frame(issued)
      <4>1. wire \in [Net!Ends -> Seq(F)] /\ wire' = [wire EXCEPT ![e] = Append(wire[e], Net!Hello)]
        BY <1>1, <3>1 DEF NetTypes
      <4>2. Net!Hello \in F
        BY <2>1
      <4> HIDE DEF e, F
      <4>3. CASE e \in Net!Ends
        <5>1. wire[e] \in Seq(F)
          BY <4>1, <4>3
        <5>2. Append(wire[e], Net!Hello) \in Seq(F)
          BY <4>2, <5>1
        <5> HIDE DEF Net!Hello
        <5>3. wire' \in [Net!Ends -> Seq(F)]
          BY <4>1, <5>2
        <5> QED BY <5>3 DEF F
      <4>4. CASE e \notin Net!Ends
        BY <4>1, <4>4 DEF F
      <4> QED BY <4>3, <4>4
    <3>3. link' \in [Link -> {"none", "backlog", "up"}]
      BY <1>1, <3>1 DEF NetTypes
    <3> QED BY <3>2, <3>3
  <2>3. CASE Net!Accept(u, l) \/ Net!PeerGone(u, l)
    BY <1>1, <2>3 DEF NetTypes, Net!Accept, Net!PeerGone
  <2> QED BY <2>2, <2>3
<1>3. /\ peers' \in [User -> SUBSET Link]
      /\ named' \in [User -> SUBSET Link] /\ waiting' \in [User -> SUBSET Link]
      /\ \A v \in User : /\ named'[v] \cup waiting'[v] \subseteq peers'[v]
                         /\ peers'[v] \subseteq Net!LinksOf(v)
  <2>1. CASE Net!Connect(u, l)
    BY <1>1, <2>1 DEF NetTypes, Net!Connect
  <2>2. CASE Net!Accept(u, l)
    BY <1>1, <2>2 DEF NetTypes, Net!Accept
  <2>3. CASE Net!PeerGone(u, l)
    BY <1>1, <2>3 DEF NetTypes, Net!PeerGone
  <2> QED BY <2>1, <2>2, <2>3
<1>4. UNCHANGED <<netOn, arriving, inbound, outbound, syncs>>
  BY DEF Net!Connect, Net!Accept, Net!PeerGone
<1> QED BY <1>1, <1>2, <1>3, <1>4 DEF NetTypes

\* Frames are read.
LEMMA ReadingTypes ==
    ASSUME SessionInv, NEW u \in User, UNCHANGED issued, NEW l \in Net!LinksOf(u),
           Net!ReadHello(u, l) \/ Net!ReadOps(u, l)
    PROVE  NetTypes' /\ UNCHANGED <<inbound, outbound, syncs>>
<1> DEFINE e == <<l, u>>
<1>1. NetTypes /\ l \in Link /\ e \in Net!Ends /\ wire[e] \in Seq(Frame(issued))
  BY DEF SessionInv, NetTypes, Net!LinksOf, Net!Ends
<1>2. /\ wire[e] # <<>> /\ l \in peers[u] /\ wire' = [wire EXCEPT ![e] = Tail(@)]
  BY DEF Net!ReadHello, Net!ReadOps, Net!Incoming
<1>3. Head(wire[e]) \in Frame(issued) /\ Tail(wire[e]) \in Seq(Frame(issued))
  BY <1>1, <1>2, TailType
<1>4. wire' \in [Net!Ends -> Seq(Frame(issued))]
  BY <1>1, <1>2, <1>3 DEF NetTypes
<1>5. /\ UNCHANGED <<netOn, link, peers, inbound, outbound, syncs>>
  BY DEF Net!ReadHello, Net!ReadOps
<1>6. CASE Net!ReadHello(u, l)
  <2>1. /\ UNCHANGED arriving
        /\ named' = [named EXCEPT ![u] = @ \cup {l}]
        /\ waiting' = [waiting EXCEPT ![u] = @ \cup {l}]
    BY <1>6 DEF Net!ReadHello
  <2>2. /\ named' \in [User -> SUBSET Link] /\ waiting' \in [User -> SUBSET Link]
        /\ \A v \in User : named'[v] \cup waiting'[v] \subseteq peers[v]
    BY <1>1, <1>2, <2>1 DEF NetTypes
  <2> QED BY <1>1, <1>4, <1>5, <2>1, <2>2 DEF NetTypes
<1>7. CASE Net!ReadOps(u, l)
  <2>1. /\ UNCHANGED <<named, waiting>>
        /\ arriving' = [arriving EXCEPT ![u] = Head(wire[e]).ops]
    BY <1>7 DEF Net!ReadOps
  <2>2. Head(wire[e]).ops \in Seq(issued)
    BY <1>3 DEF Frame
  <2>3. arriving' \in [User -> Seq(issued)]
    BY <1>1, <2>1, <2>2 DEF NetTypes
  <2> QED BY <1>1, <1>4, <1>5, <2>1, <2>3 DEF NetTypes
<1> QED BY <1>6, <1>7

\* One operation after the other is queued for the merge thread.
LEMMA QueueOpTypes ==
    ASSUME SessionInv, NEW u \in User, UNCHANGED issued, Net!QueueOp(u)
    PROVE  /\ NetTypes' /\ UNCHANGED <<outbound, syncs>>
           /\ inbound' \in [User -> Seq(issued)]
           /\ \A v \in User : Len(inbound'[v]) <= InboundCap
<1>1. /\ NetTypes /\ arriving[u] \in Seq(issued) /\ arriving[u] # <<>>
      /\ inbound \in [User -> Seq(issued)] /\ \A v \in User : Len(inbound[v]) <= InboundCap
      /\ InboundCap \in Nat
  BY CapsAreNatural
     DEF SessionInv, NetTypes, EditorInv, EditorTypes, EditorTypeOK, Net!QueueOp
<1>2. Head(arriving[u]) \in issued /\ Tail(arriving[u]) \in Seq(issued)
  BY <1>1, TailType
<1>3. NetTypes'
  <2>1. arriving' = [arriving EXCEPT ![u] = Tail(@)]
    BY DEF Net!QueueOp
  <2>2. arriving' \in [User -> Seq(issued)]
    BY <1>1, <1>2, <2>1 DEF NetTypes
  <2> QED BY <1>1, <2>2 DEF NetTypes, Net!QueueOp
<1>4. inbound' = [inbound EXCEPT ![u] = PushTo(@, Head(arriving[u]), InboundCap)]
  BY DEF Net!QueueOp, PushTo
<1>5. /\ PushTo(inbound[u], Head(arriving[u]), InboundCap) \in Seq(issued)
      /\ Len(PushTo(inbound[u], Head(arriving[u]), InboundCap)) <= InboundCap
  <2>1. inbound[u] \in Seq(issued) /\ Len(inbound[u]) <= InboundCap
    BY <1>1
  <2> QED BY <1>1, <1>2, <2>1, PushToType
<1>6. /\ inbound' \in [User -> Seq(issued)]
      /\ \A v \in User : Len(inbound'[v]) <= InboundCap
  BY <1>1, <1>4, <1>5
<1> QED BY <1>3, <1>6 DEF Net!QueueOp

\* What is queued goes on the wire.
LEMMA SendAllTypes ==
    ASSUME SessionInv, NEW u \in User, UNCHANGED issued, Net!SendAll(u)
    PROVE  /\ NetTypes' /\ UNCHANGED inbound
           /\ outbound' \in [User -> Seq(Seq(issued))]
           /\ \A v \in User : Len(outbound'[v]) <= OutboundCap
           /\ syncs' \in [User -> Seq(SUBSET issued)]
           /\ \A v \in User : Len(syncs'[v]) <= SyncCap
<1>1. /\ NetTypes /\ outbound \in [User -> Seq(Seq(issued))]
      /\ \A v \in User : Len(outbound[v]) <= OutboundCap
      /\ syncs \in [User -> Seq(SUBSET issued)]
      /\ \A v \in User : Len(syncs[v]) <= SyncCap
      /\ OutboundCap \in Nat /\ SyncCap \in Nat
  BY CapsAreNatural DEF SessionInv, EditorInv, EditorTypes, EditorTypeOK
<1>2. /\ UNCHANGED <<netOn, link, peers, named, arriving, inbound>>
      /\ outbound' = [outbound EXCEPT ![u] = <<>>]
  BY DEF Net!SendAll, Net!SendTo
<1>3. wire' \in [Net!Ends -> Seq(Frame(issued))]
  <2>1. /\ Net!Snapshot(u) \in Seq(Frame(issued)) /\ Net!Live(u) \in Seq(Frame(issued))
        /\ \A e \in Net!Ends : wire[e] \in Seq(Frame(issued))
    BY <1>1, FramesAreFrames DEF NetTypes
  <2> DEFINE w(e) == IF e[1] \notin peers[u] \/ e[2] = u \/ ~netOn[e[2]]
                     THEN wire[e]
                     ELSE wire[e]
                          \o (IF e[1] \in waiting[u] THEN Net!Snapshot(u) ELSE <<>>)
                          \o (IF e[1] \in peers[u] THEN Net!Live(u) ELSE <<>>)
  <2>2. \A e \in Net!Ends : w(e) \in Seq(Frame(issued))
    BY <2>1
  <2>3. wire' = [e \in Net!Ends |-> w(e)]
    BY DEF Net!SendAll, Net!SendTo
  <2> QED BY <2>2, <2>3
<1>4. /\ waiting' \in [User -> SUBSET Link]
      /\ \A v \in User : waiting'[v] \subseteq waiting[v]
      /\ syncs' = syncs \/ (syncs[u] # <<>> /\ syncs' = [syncs EXCEPT ![u] = Tail(@)])
  <2>1. CASE Net!Snapshot(u) # <<>>
    <3>1. /\ syncs' = [syncs EXCEPT ![u] = Tail(@)]
          /\ waiting' = [waiting EXCEPT ![u] = {}]
      BY <2>1 DEF Net!SendAll, Net!SendTo
    <3>2. syncs[u] # <<>>
      BY <2>1 DEF Net!Snapshot
    <3> QED BY <1>1, <3>1, <3>2 DEF NetTypes
  <2>2. CASE Net!Snapshot(u) = <<>>
    BY <1>1, <2>2 DEF Net!SendAll, Net!SendTo, NetTypes
  <2> QED BY <2>1, <2>2
<1>5. NetTypes'
  BY <1>1, <1>2, <1>3, <1>4 DEF NetTypes
<1>6. /\ outbound' \in [User -> Seq(Seq(issued))]
      /\ \A v \in User : Len(outbound'[v]) <= OutboundCap
  BY <1>1, <1>2
<1>7. /\ syncs' \in [User -> Seq(SUBSET issued)]
      /\ \A v \in User : Len(syncs'[v]) <= SyncCap
  <2>1. CASE syncs' = syncs
    BY <1>1, <2>1
  <2>2. CASE syncs[u] # <<>> /\ syncs' = [syncs EXCEPT ![u] = Tail(@)]
    <3>1. syncs[u] \in Seq(SUBSET issued) /\ Len(syncs[u]) <= SyncCap /\ Len(syncs[u]) \in Nat
      BY <1>1
    <3>2. /\ Tail(syncs[u]) \in Seq(SUBSET issued)
          /\ Len(Tail(syncs[u])) <= Len(syncs[u]) /\ Len(Tail(syncs[u])) \in Nat
      BY <2>2, <3>1, TailType
    <3> QED BY <1>1, <2>2, <3>1, <3>2
  <2> QED BY <1>4, <2>1, <2>2
<1> QED BY <1>2, <1>5, <1>6, <1>7

LEMMA StopNetworkTypes ==
    ASSUME SessionInv, NEW u \in User, UNCHANGED issued, Net!StopNetwork(u)
    PROVE  NetTypes' /\ UNCHANGED <<inbound, outbound, syncs>>
  BY DEF SessionInv, NetTypes, Net!StopNetwork

\* Whatever the network thread does, the editor's invariant stays.
LEMMA NetKeepsEditor ==
    ASSUME SessionInv, NEW u \in User, Net!NetworkStep(u),
           UNCHANGED <<mainVars, mergeVars, clock, doc, localOps>>
    PROVE  SessionInv'
<1>1. /\ EditorTypeOK /\ EditorInv
      /\ UNCHANGED <<running, clock, mainPc, mergePc, opSeq, opLog, pending, batch, localOps,
                     issued, fallback, doc>>
  BY DEF SessionInv, EditorInv, EditorTypes, mainVars, mergeVars, Net!NetworkStep
<1>2. /\ NetTypes'
      /\ inbound' \in [User -> Seq(issued)] /\ outbound' \in [User -> Seq(Seq(issued))]
      /\ syncs' \in [User -> Seq(SUBSET issued)]
      /\ \A v \in User : /\ Len(inbound'[v]) <= InboundCap
                         /\ Len(outbound'[v]) <= OutboundCap /\ Len(syncs'[v]) <= SyncCap
  <2>1. ASSUME UNCHANGED inbound PROVE /\ inbound' \in [User -> Seq(issued)]
                                       /\ \A v \in User : Len(inbound'[v]) <= InboundCap
    BY <1>1, <2>1 DEF EditorTypeOK
  <2>2. ASSUME UNCHANGED <<outbound, syncs>>
        PROVE  /\ outbound' \in [User -> Seq(Seq(issued))]
               /\ syncs' \in [User -> Seq(SUBSET issued)]
               /\ \A v \in User : Len(outbound'[v]) <= OutboundCap /\ Len(syncs'[v]) <= SyncCap
    BY <1>1, <2>2 DEF EditorTypeOK
  <2>3. ASSUME NEW l \in Net!LinksOf(u),
               \/ Net!Connect(u, l) \/ Net!Accept(u, l)
               \/ Net!ReadHello(u, l) \/ Net!ReadOps(u, l)
               \/ Net!PeerGone(u, l)
        PROVE  NetTypes' /\ UNCHANGED <<inbound, outbound, syncs>>
    BY <1>1, <2>3, ConnectingTypes, ReadingTypes
  <2>4. CASE Net!QueueOp(u)
    BY <1>1, <2>2, <2>4, QueueOpTypes
  <2>5. CASE Net!SendAll(u)
    BY <1>1, <2>1, <2>5, SendAllTypes
  <2>6. CASE Net!StopNetwork(u)
    BY <1>1, <2>1, <2>2, <2>6, StopNetworkTypes
  <2> QED BY <2>1, <2>2, <2>3, <2>4, <2>5, <2>6 DEF Net!NetworkStep
<1>3. EditorTypeOK'
  BY <1>1, <1>2 DEF EditorTypeOK
<1>4. EditorInv'
  <2>1. issued' = issued \cup {} /\ IsFiniteSet({}) /\ {} \subseteq Op
    BY <1>1, FS_EmptySet
  <2>2. Unique'
    BY <1>1 DEF EditorInv, Unique
  <2> QED BY <1>1, <1>3, <2>1, <2>2, OutsideInv
<1> QED BY <1>2, <1>4 DEF SessionInv

LEMMA SessionStepInv == SessionInv /\ [Next]_vars => SessionInv'
<1> SUFFICES ASSUME SessionInv, [Next]_vars PROVE SessionInv'
  OBVIOUS
<1>1. CASE Next
  BY <1>1, EditorKeepsNet, NetKeepsEditor DEF Next
<1>2. CASE UNCHANGED vars
  <2>1. UNCHANGED <<editorVars, netVars, netQueues>>
    BY <1>2 DEF vars
  <2>2. EditorInv'
    BY <2>1 DEF editorVars, mainVars, mergeVars, bothVars, netQueues, SessionInv, EditorInv,
                EditorTypes, EditorTypeOK, Unique, NumbersUsed, AllNumbersUsed, OwnInHand,
                BehindClock, ShownIsLoggedOrOwn, DocumentIsReplay, Shown
  <2> QED BY <2>1, <2>2 DEF netVars, editorVars, mainVars, SessionInv, NetTypes
<1> QED BY <1>1, <1>2

LEMMA SessionInvariant == Spec => []SessionInv
  BY SessionInitInv, SessionStepInv, PTL DEF Spec

\* In the whole system as well, queues, frames and logs hold issued operations
\* only, queues never more than fit, and only connected peers have a name or
\* wait for a snapshot (network.cpp 195-260, utils.h 54-63).
THEOREM SessionTypeCorrect == Spec => []TypeOK
<1>1. SessionInv => TypeOK
  <2> SUFFICES ASSUME SessionInv PROVE TypeOK
    OBVIOUS
  <2>1. EditorTypeOK /\ NetTypes
    BY DEF SessionInv, EditorInv, EditorTypes
  <2>2. ASSUME NEW e \in Net!Ends, NEW i \in DOMAIN wire[e]
        PROVE  wire[e][i].ops \in Seq(issued)
    <3>1. wire[e] \in Seq(Frame(issued))
      BY <2>1 DEF NetTypes
    <3>2. wire[e][i] \in Frame(issued)
      BY <3>1
    <3> QED BY <3>2 DEF Frame
  <2> QED BY <2>1, <2>2 DEF TypeOK, NetTypes
<1> QED BY <1>1, SessionInvariant, PTL

\* Snapshots and links that come and go never take anything back: what is
\* logged is shown (editor.cpp 264-286).
THEOREM SessionLoggedShown == Spec => []LoggedIsShown
<1>1. SessionInv => LoggedIsShown
  BY DEF SessionInv, EditorInv, ShownIsLoggedOrOwn, Shown, LoggedIsShown
<1> QED BY <1>1, SessionInvariant, PTL

\* In the whole system too, every document is the replay of what it shows, and
\* no id stands for two operations of any users.
THEOREM SessionDocuments == Spec => [](DocumentIsReplay /\ Unique)
<1>1. SessionInv => DocumentIsReplay /\ Unique
  BY DEF SessionInv, EditorInv
<1> QED BY <1>1, SessionInvariant, PTL

-----------------------------------------------------------------------------
(***************************************************************************)
(* The threads and links implement SharedText.                             *)
(***************************************************************************)
\* A key that makes an operation issues it, later than all its author knows.
LEMMA TypingIssues ==
    ASSUME SessionInv, NEW u \in User, NEW op, NEW pos, Typing(u, op, pos)
    PROVE  Shared!IssueFreely(u)
<1>1. EditorInv /\ EditorTypes /\ Unique
  BY DEF SessionInv, EditorInv
<1>2. /\ op.id[1] = u /\ op \in Op /\ op \notin issued /\ issued' = issued \cup {op}
      /\ op.id = <<u, opSeq[u]>> /\ op.ts = clock[u] + 1 /\ op.ref \in DOMAIN doc[u].index
      /\ \/ op = Insert(op.id, op.ts, op.ref, op.id)
         \/ op = Delete(op.id, op.ts, op.ref) /\ op.ref # HeadID
      /\ UNCHANGED opLog
  <2>1. Typing(u, op, pos) /\ Makes(u, op) /\ Perform(u, op, pos)
    BY DEF Typing
  <2> QED BY <1>1, <2>1, TypingIsNew DEF Makes, NewID, Perform, mergeVars
<1>3. opSeq[u] \in Nat \ {0} /\ clock[u] \in Nat
  BY <1>1, TypeFacts
<1>4. Shared!NextID(u) = op.id
  <2>1. Cardinality({o \in issued : o.id[1] = u}) = opSeq[u] - 1
    BY <1>1 DEF EditorInv, AllNumbersUsed
  <2>2. Shared!NextID(u) = <<u, Cardinality({o \in issued : o.id[1] = u}) + 1>>
    BY Zenon DEF Shared!NextID, Shared!Cardinality, Cardinality
  <2> QED BY <1>2, <1>3, <2>1, <2>2
<1>5. /\ Known[u] = opLog[u] \cup {o \in issued : o.id[1] = u}
      /\ Known' = [Known EXCEPT ![u] = @ \cup {op}]
  BY <1>2 DEF Known
<1>6. op.ts \in Nat /\ op.ts > Shared!LatestTime(Known[u])
  <2>1. \A o \in Known[u] : o.ts <= clock[u]
    BY <1>1, <1>5 DEF EditorInv, BehindClock, NumbersUsed
  <2>2. Known[u] \subseteq issued
    BY <1>1, <1>5, TypeFacts
  <2>3. Known[u] \subseteq Op /\ IsFiniteSet(Known[u])
    BY <1>1, <2>2, FS_Subset, TypeFacts
  <2> DEFINE all == {0} \cup {o.ts : o \in Known[u]}
  <2>4. Max(all) \in Nat /\ (Max(all) = 0 \/ \E o \in Known[u] : o.ts = Max(all))
    BY <2>3, LatestIsLatest
  <2>5. Shared!LatestTime(Known[u]) = Max(all)
    BY DEF Shared!LatestTime, Shared!Max, Max
  <2> HIDE DEF all
  <2>6. Max(all) <= clock[u]
    BY <1>3, <2>1, <2>4
  <2> QED BY <1>2, <1>3, <2>4, <2>5, <2>6
<1>7. op.ref \in {HeadID} \cup Shared!CharsOf(Known[u])
  <2>1. op.ref \in Spoken(BaseLen, Shown(u))
    BY <1>1, <1>2, DocumentFacts
  <2>2. Shown(u) \subseteq Known[u]
    BY <1>1, <1>5 DEF EditorInv, ShownIsLoggedOrOwn, Shown
  <2>3. Spoken(BaseLen, Known[u]) = {HeadID} \cup Shared!CharsOf(Known[u])
    BY DEF Spoken, Shared!CharsOf, IsInsert, Shared!IsInsert, BaseChar, Shared!BaseChar
  <2> QED BY <2>1, <2>2, <2>3 DEF Spoken
<1>8. op \in Shared!NewOps(u, op.ts)
  BY <1>2, <1>4, <1>7
     DEF Shared!NewOps, Insert, Delete, Shared!Insert, Shared!Delete, HeadID, Shared!HeadID,
         NoChar, Shared!NoChar
<1>9. Shared!Record(u, op)
  BY <1>2, <1>5 DEF Shared!Record
<1> QED BY <1>2, <1>6, <1>8, <1>9 DEF Shared!IssueFreely

\* The end of a pass that brings something new makes it known.
LEMMA MergeLearns ==
    ASSUME SessionInv, NEW u \in User, MergeOps(u)
    PROVE  Shared!Learn(u) \/ UNCHANGED <<issued, Known>>
<1>1. EditorInv /\ opLog \in [User -> SUBSET issued] /\ batch \in [User -> Seq(issued)]
  BY TypeFacts DEF SessionInv, EditorInv
<1> DEFINE log == AddToLog(opLog[u], batch[u])
<1>2. log = opLog[u] \cup ToSet(batch[u])
  <2>1. \A o, p \in issued : o.id = p.id => o = p
    BY <1>1 DEF EditorInv, Unique
  <2>2. opLog[u] \in SUBSET issued /\ batch[u] \in Seq(issued)
    BY <1>1
  <2> QED BY <2>1, <2>2, AddToLogIsUnion
<1>3. ToSet(batch[u]) \subseteq issued
  BY <1>1 DEF ToSet
<1>4. \E d, pc : EndPass(u, log, d, pc)
  BY DEF MergeOps
<1> HIDE DEF log
<1>5. opLog' = [opLog EXCEPT ![u] = log] /\ UNCHANGED issued
  BY <1>4 DEF EndPass, mainVars
<1> DEFINE new == ToSet(batch[u]) \ Known[u]
<1>6. Known' = [Known EXCEPT ![u] = @ \cup new]
  BY <1>1, <1>2, <1>5 DEF Known
<1>7. new \in SUBSET (issued \ Known[u])
  BY <1>3
<1> HIDE DEF new
<1>8. CASE new = {}
  BY <1>5, <1>6, <1>8 DEF Known
<1>9. CASE new # {}
  BY <1>5, <1>6, <1>7, <1>9 DEF Shared!Learn
<1> QED BY <1>8, <1>9

\* Nothing else adds to what is issued or known.
LEMMA OthersTeachNothing ==
    ASSUME NEW u \in User,
           \/ MoveCursor(u) \/ Quit(u) \/ Hand(u)
           \/ DrainLocal(u) \/ ReceiveOp(u) \/ ReceiveTick(u)
           \/ WriteFile(u) \/ NoticePeers(u) \/ StopMerge(u)
           \/ UNCHANGED <<mainVars, mergeVars>>
    PROVE  UNCHANGED <<issued, Known>>
<1>1. UNCHANGED <<issued, opLog>>
  BY DEF MoveCursor, Quit, Hand, PushLocal, FlushBatch, DrainLocal, ReceiveOp, TakeIn,
         ReceiveTick, WriteFile, NoticePeers, StopMerge, mainVars, mergeVars
<1> QED BY <1>1 DEF Known

\* For any users, links, capacities and bounds, the threads, queues, snapshots
\* and links of the program implement SharedText: whatever holds of every
\* behaviour of SharedText holds of the logs of the program (editor.cpp
\* 185-211, 237-310, network.cpp 195-420).
THEOREM SessionImplementsShared == Spec => ImplementsSharedText
<1>1. Init => Shared!Init
  BY DEF Init, EditorInit, Shared!Init, Known
<1>2. ASSUME SessionInv, [Next]_vars
      PROVE  [Shared!FreeNext]_(Shared!vars)
  <2> SUFFICES Shared!FreeNext \/ UNCHANGED <<issued, Known>>
    BY DEF Shared!vars
  <2>1. ASSUME NEW u \in User, EditorStep(u)
        PROVE  Shared!FreeNext \/ UNCHANGED <<issued, Known>>
    <3>1. CASE TypeChar(u) \/ Backspace(u) \/ ForwardDelete(u)
      <4>1. \E op, pos : Typing(u, op, pos)
        BY <1>2, <3>1, KeyMakes DEF SessionInv
      <4> QED BY <1>2, <4>1, TypingIssues DEF Shared!FreeNext
    <3>2. CASE MergeOps(u)
      BY <1>2, <3>2, MergeLearns DEF Shared!FreeNext
    <3>3. CASE \/ MoveCursor(u) \/ Quit(u) \/ Hand(u)
               \/ DrainLocal(u) \/ ReceiveOp(u) \/ ReceiveTick(u)
               \/ WriteFile(u) \/ NoticePeers(u) \/ StopMerge(u)
      BY <3>3, OthersTeachNothing
    <3> QED BY <2>1, <3>1, <3>2, <3>3 DEF EditorStep, Key, Merge
  <2>2. ASSUME NEW u \in User, UNCHANGED <<mainVars, mergeVars>>
        PROVE  UNCHANGED <<issued, Known>>
    BY <2>2, OthersTeachNothing
  <2>3. CASE UNCHANGED vars
    BY <2>3 DEF vars, editorVars, mainVars, mergeVars, Known
  <2> QED BY <1>2, <2>1, <2>2, <2>3 DEF Next
<1> QED BY <1>1, <1>2, SessionInvariant, PTL
        DEF Spec, ImplementsSharedText, Shared!FreeSpec

-----------------------------------------------------------------------------
(***************************************************************************)
(* What is saved, and who shows the same.                                  *)
(***************************************************************************)
\* The invariant behind: nothing typed is out of reach of the next pass, and
\* the file follows the document.
SavedInv == SessionInv /\ BatchOfPass /\ OwnInReach /\ FileFollows

LEMMA SavedInitInv == Init => SavedInv
  BY SessionInitInv, FollowsInit DEF Init, SavedInv

LEMMA SavedStepInv == SavedInv /\ [Next]_vars /\ [PushesFit]_vars => SavedInv'
<1> SUFFICES ASSUME SavedInv, [Next]_vars, [PushesFit]_vars PROVE SavedInv'
  OBVIOUS
<1>1. SessionInv /\ SessionInv' /\ EditorInv /\ BatchOfPass /\ OwnInReach /\ FileFollows
  BY SessionStepInv DEF SavedInv, SessionInv
<1>2. ASSUME NEW u \in User, EditorStep(u), PushesFit
      PROVE  BatchOfPass' /\ OwnInReach' /\ FileFollows'
  BY <1>1, <1>2, BatchOfPassStep, OwnInReachStep, FileFollowsStep
<1>3. ASSUME UNCHANGED <<mainVars, mergeVars, doc, localOps>>
      PROVE  BatchOfPass' /\ OwnInReach' /\ FileFollows'
  BY <1>1, <1>3 DEF mainVars, mergeVars, BatchOfPass, OwnInReach, FileFollows, Shown
<1>4. UNCHANGED vars => UNCHANGED <<mainVars, mergeVars, doc, localOps>>
  BY DEF vars, editorVars, bothVars
<1> QED BY <1>1, <1>2, <1>3, <1>4 DEF Next, SavedInv

\* Once a user's queues are empty and both threads wait, the document shows
\* what is logged and nothing else, and so does the file.
LEMMA QuietIsSaved ==
    ASSUME SavedInv, NEW u \in User, mainPc[u] # "push",
           mergePc[u] \in {"local", "stopped"}, localOps[u] = <<>>
    PROVE  Shown(u) = opLog[u] /\ file[u] = Text(doc[u])
<1>1. batch[u] = <<>>
  BY DEF SavedInv, BatchOfPass
<1>2. ToSet(batch[u]) = {} /\ ToSet(localOps[u]) = {}
  BY <1>1 DEF ToSet
<1>3. opLog[u] \subseteq Shown(u) /\ \A o \in Shown(u) : o \in opLog[u] \/ o.id[1] = u
  BY DEF SavedInv, SessionInv, EditorInv, ShownIsLoggedOrOwn
<1>4. Shown(u) \subseteq opLog[u]
  BY <1>2, <1>3 DEF SavedInv, OwnInReach, Shown
<1> QED BY <1>3, <1>4 DEF SavedInv, FileFollows

\* Nothing a user types stays unsaved: when nothing is on its way, the file
\* holds the text, as long as local_ops_ had room for every operation pushed
\* (editor.cpp 188-195, 281-294).
THEOREM FileHoldsText == Spec /\ [][PushesFit]_vars => []FileIsText
<1>1. SavedInv => FileIsText
  BY QuietIsSaved DEF FileIsText, AtRest
<1> QED BY <1>1, SavedInitInv, SavedStepInv, PTL DEF Spec

\* It has while no user types more than the queue holds.
THEOREM SessionHasRoom ==
    ASSUME MaxOps <= LocalCap
    PROVE  Spec => [][PushesFit]_vars
<1> DEFINE I == SessionInv /\ QueuedAreTyped
<1>1. Init => I
  BY SessionInitInv DEF Init, EditorInit, QueuedAreTyped
<1>2. I /\ [Next]_vars => I'
  <2> SUFFICES ASSUME I, [Next]_vars PROVE I'
    OBVIOUS
  <2>1. SessionInv /\ SessionInv' /\ EditorInv
    BY SessionStepInv DEF SessionInv
  <2>2. ASSUME NEW u \in User, EditorStep(u)
        PROVE  QueuedAreTyped'
    BY <2>1, <2>2, QueuedAreTypedStep
  <2>3. ASSUME UNCHANGED <<mainVars, localOps>>
        PROVE  QueuedAreTyped'
    BY <2>3 DEF QueuedAreTyped, mainVars
  <2>4. UNCHANGED vars => UNCHANGED <<mainVars, localOps>>
    BY DEF vars, editorVars, bothVars
  <2> QED BY <2>1, <2>2, <2>3, <2>4 DEF Next
<1>3. I => PushesFit
  BY QueuedFit DEF SessionInv
<1> QED BY <1>1, <1>2, <1>3, PTL DEF Spec

\* Users who have logged the same show the same text and have saved the same
\* file once nothing is on its way, in whatever order they came to log it: what
\* is left of convergence is that the logs become the same.
SameLogSameFile ==
    AtRest =>
        \A u, v \in User :
            opLog[u] = opLog[v] => /\ Text(doc[u]) = Text(doc[v])
                                   /\ file[u] = file[v]

\* README.md 10 promises convergence; this is the part of it that documents,
\* replays and files have in it (editor.cpp 274-294).
THEOREM SameLogsConverge == Spec /\ [][PushesFit]_vars => []SameLogSameFile
<1>1. SavedInv => SameLogSameFile
  <2> SUFFICES ASSUME SavedInv, AtRest, NEW u \in User, NEW v \in User, opLog[u] = opLog[v]
               PROVE  Text(doc[u]) = Text(doc[v]) /\ file[u] = file[v]
    BY DEF SameLogSameFile
  <2>1. \A w \in User : Shown(w) = opLog[w] /\ file[w] = Text(doc[w])
    BY QuietIsSaved DEF AtRest
  <2>2. \A w \in User : doc[w] = Replay(Base, opLog[w])
    BY <2>1 DEF SavedInv, SessionInv, EditorInv, DocumentIsReplay
  <2> QED BY <2>1, <2>2
<1> QED BY <1>1, SavedInitInv, SavedStepInv, PTL DEF Spec

-----------------------------------------------------------------------------
(***************************************************************************)
(* Operations of one author, in the order in which they were typed.        *)
(***************************************************************************)
\* p comes before o from the same author.
Earlier(p, o) == p.id[1] = o.id[1] /\ p.id[2] < o.id[2]

\* S holds all of ops that come before one of its own.
Complete(ops, S) == \A o \in S : \A p \in ops : Earlier(p, o) => p \in S

\* Who has S and gets the operations of q one by one never has one of q without
\* all of ops before it.
Gapless(ops, S, q) ==
    \A i \in 1..Len(q) : \A p \in ops :
        Earlier(p, q[i]) => p \in S \/ \E j \in 1..i - 1 : q[j] = p

\* The operations of the first n frames of w.
Carried(w, n) == UNION {ToSet(w[j].ops) : j \in 1..n}

FramesGapless(ops, S, w) ==
    \A k \in 1..Len(w) : Gapless(ops, S \cup Carried(w, k - 1), w[k].ops)

LEMMA GaplessMore ==
    ASSUME NEW ops, NEW S, NEW T, S \subseteq T, NEW q, Gapless(ops, S, q)
    PROVE  Gapless(ops, T, q)
  BY DEF Gapless

LEMMA GaplessAppend ==
    ASSUME NEW X, NEW q \in Seq(X), NEW x \in X, NEW ops, NEW S, Gapless(ops, S, q),
           \A p \in ops : Earlier(p, x) => p \in S \cup ToSet(q)
    PROVE  Gapless(ops, S, Append(q, x))
<1> DEFINE r == Append(q, x)
<1>1. /\ Len(r) = Len(q) + 1 /\ Len(q) \in Nat
      /\ \A i \in 1..Len(q) : r[i] = q[i]
      /\ r[Len(q) + 1] = x
  BY AppendIs
<1>2. \A p \in ToSet(q) : \E j \in 1..Len(q) : q[j] = p
  BY DEF ToSet
<1> HIDE DEF r
<1> SUFFICES ASSUME NEW i \in 1..Len(r), NEW p \in ops, Earlier(p, r[i])
             PROVE  p \in S \/ \E j \in 1..i - 1 : r[j] = p
  BY DEF Gapless, r
<1>3. CASE i = Len(q) + 1
  <2>1. p \in S \cup ToSet(q)
    BY <1>1, <1>3
  <2>2. i - 1 = Len(q)
    BY <1>1, <1>3
  <2> QED BY <1>1, <1>2, <2>1, <2>2
<1>4. CASE i # Len(q) + 1
  <2>1. i \in 1..Len(q) /\ r[i] = q[i] /\ \A j \in 1..i - 1 : r[j] = q[j]
    BY <1>1, <1>4
  <2> QED BY <2>1 DEF Gapless
<1> QED BY <1>3, <1>4

LEMMA GaplessTail ==
    ASSUME NEW X, NEW q \in Seq(X), q # <<>>, NEW ops, NEW S, Gapless(ops, S, q)
    PROVE  /\ \A p \in ops : Earlier(p, Head(q)) => p \in S
           /\ Gapless(ops, S \cup {Head(q)}, Tail(q))
           /\ ToSet(q) = {Head(q)} \cup ToSet(Tail(q))
<1> DEFINE r == Tail(q)
<1>1. /\ Len(q) \in Nat \ {0} /\ Len(r) = Len(q) - 1 /\ Head(q) = q[1]
      /\ \A i \in 1..Len(r) : r[i] = q[i + 1]
      /\ DOMAIN q = 1..Len(q) /\ DOMAIN r = 1..Len(r)
  OBVIOUS
<1>2. \A p \in ops : Earlier(p, Head(q)) => p \in S
  BY <1>1 DEF Gapless
<1> HIDE DEF r
<1>3. Gapless(ops, S \cup {Head(q)}, r)
  <2> SUFFICES ASSUME NEW i \in 1..Len(r), NEW p \in ops, Earlier(p, r[i]),
                      p \notin S, p # q[1]
               PROVE  \E j \in 1..i - 1 : r[j] = p
    BY <1>1 DEF Gapless
  <2>1. i + 1 \in 1..Len(q) /\ r[i] = q[i + 1]
    BY <1>1
  <2>2. PICK j \in 1..i : q[j] = p
    BY <2>1 DEF Gapless
  <2>3. j - 1 \in 1..i - 1 /\ r[j - 1] = q[j]
    BY <1>1, <2>2
  <2> QED BY <2>2, <2>3
<1>4. ToSet(q) = {Head(q)} \cup ToSet(r)
  <2>1. ASSUME NEW i \in 1..Len(q) PROVE q[i] \in {Head(q)} \cup ToSet(r)
    <3>1. i # 1 => i - 1 \in 1..Len(r) /\ r[i - 1] = q[i]
      BY <1>1
    <3> QED BY <1>1, <3>1 DEF ToSet
  <2>2. ASSUME NEW i \in 1..Len(r) PROVE r[i] \in ToSet(q)
    <3>1. i + 1 \in 1..Len(q) /\ r[i] = q[i + 1]
      BY <1>1
    <3> QED BY <1>1, <3>1 DEF ToSet
  <2>3. ToSet(q) = {q[i] : i \in 1..Len(q)} /\ ToSet(r) = {r[i] : i \in 1..Len(r)}
    BY <1>1 DEF ToSet
  <2>4. Head(q) \in ToSet(q)
    BY <1>1, <2>3
  <2> QED BY <2>1, <2>2, <2>3, <2>4
<1> QED BY <1>2, <1>3, <1>4 DEF r

LEMMA GaplessComplete ==
    ASSUME NEW X, NEW q \in Seq(X), NEW ops, NEW S, Complete(ops, S), Gapless(ops, S, q)
    PROVE  Complete(ops, S \cup ToSet(q))
<1>1. DOMAIN q = 1..Len(q) /\ Len(q) \in Nat
  OBVIOUS
<1> SUFFICES ASSUME NEW o \in S \cup ToSet(q), NEW p \in ops, Earlier(p, o)
             PROVE  p \in S \cup ToSet(q)
  BY DEF Complete
<1>2. CASE o \in S
  BY <1>2 DEF Complete
<1>3. CASE o \notin S
  <2>1. PICK i \in 1..Len(q) : q[i] = o
    BY <1>1, <1>3 DEF ToSet
  <2>2. p \in S \/ \E j \in 1..i - 1 : q[j] = p
    BY <2>1 DEF Gapless
  <2>3. \A j \in 1..i - 1 : q[j] \in ToSet(q)
    BY <1>1 DEF ToSet
  <2> QED BY <2>2, <2>3
<1> QED BY <1>2, <1>3

\* A snapshot of a complete log can be taken in by everyone.
LEMMA SnapshotGapless ==
    ASSUME NEW ops, NEW log, log \subseteq ops, IsLog(log), Complete(ops, log),
           \A p \in ops, o \in ops : Earlier(p, o) => p.ts < o.ts
    PROVE  Gapless(ops, {}, SortOps(log)) /\ ToSet(SortOps(log)) = log
<1> DEFINE s == SortOps(log)
<1>1. /\ s \in Seq(log)
      /\ \A o \in log : \E i \in 1..Len(s) : s[i] = o
      /\ \A i, j \in 1..Len(s) : i < j <=> Before(s[i], s[j])
  BY SortEnumerates
<1> HIDE DEF s
<1>2. /\ Len(s) \in Nat /\ DOMAIN s = 1..Len(s)
      /\ \A i \in 1..Len(s) : s[i] \in log
  BY <1>1
<1>3. ToSet(s) = log
  BY <1>1, <1>2 DEF ToSet
<1>4. Gapless(ops, {}, s)
  <2> SUFFICES ASSUME NEW i \in 1..Len(s), NEW p \in ops, Earlier(p, s[i])
               PROVE  \E j \in 1..i - 1 : s[j] = p
    BY DEF Gapless
  <2>1. p \in log /\ p.ts < s[i].ts
    BY <1>2 DEF Complete
  <2>2. PICK j \in 1..Len(s) : s[j] = p
    BY <1>1, <2>1
  <2>3. j < i
    BY <1>1, <2>1, <2>2 DEF Before
  <2> QED BY <2>2, <2>3
<1> QED BY <1>3, <1>4 DEF s

\* An operation that comes before none of them changes nothing.
LEMMA NewIsLast ==
    ASSUME NEW ops, NEW S, NEW n, NEW q
    PROVE  /\ Complete(ops, S) /\ (\A o \in S : ~Earlier(n, o))
                => Complete(ops \cup {n}, S)
           /\ Gapless(ops, S, q) /\ (\A i \in 1..Len(q) : ~Earlier(n, q[i]))
                => Gapless(ops \cup {n}, S, q)
  BY DEF Complete, Gapless

LEMMA FramesMore ==
    ASSUME NEW ops, NEW S, NEW T, S \subseteq T, NEW w, FramesGapless(ops, S, w)
    PROVE  FramesGapless(ops, T, w)
<1> SUFFICES ASSUME NEW k \in 1..Len(w)
             PROVE  Gapless(ops, T \cup Carried(w, k - 1), w[k].ops)
  BY DEF FramesGapless
<1>1. Gapless(ops, S \cup Carried(w, k - 1), w[k].ops)
  BY DEF FramesGapless
<1>2. S \cup Carried(w, k - 1) \subseteq T \cup Carried(w, k - 1)
  OBVIOUS
<1> QED BY <1>1, <1>2, GaplessMore

LEMMA CarriedOne ==
    ASSUME NEW f
    PROVE  /\ Carried(<<f>>, Len(<<f>>)) = ToSet(f.ops)
           /\ \A ops, S : Gapless(ops, S, f.ops) => FramesGapless(ops, S, <<f>>)
<1> DEFINE w == <<f>>
<1>1. Len(w) = 1 /\ w[1] = f
  OBVIOUS
<1> HIDE DEF w
<1>2. Carried(w, 1) = ToSet(f.ops) /\ Carried(w, 0) = {}
  BY <1>1 DEF Carried
<1>3. ASSUME NEW ops, NEW S, Gapless(ops, S, f.ops)
      PROVE  FramesGapless(ops, S, w)
  <2>1. S \cup Carried(w, 0) = S
    BY <1>2
  <2> SUFFICES ASSUME NEW k \in 1..Len(w)
               PROVE  Gapless(ops, S \cup Carried(w, k - 1), w[k].ops)
    BY DEF FramesGapless
  <2>2. k = 1
    BY <1>1
  <2> QED BY <1>1, <1>3, <2>1, <2>2
<1> QED BY <1>1, <1>2, <1>3 DEF w

LEMMA CarriedConcat ==
    ASSUME NEW X, NEW w \in Seq(X), NEW x \in Seq(X)
    PROVE  /\ \A n \in 0..Len(w) : Carried(w \o x, n) = Carried(w, n)
           /\ \A n \in 0..Len(x) :
                Carried(w \o x, Len(w) + n) = Carried(w, Len(w)) \cup Carried(x, n)
           /\ Carried(w \o x, Len(w \o x)) = Carried(w, Len(w)) \cup Carried(x, Len(x))
<1> DEFINE y == w \o x
<1>1. /\ Len(w) \in Nat /\ Len(x) \in Nat /\ Len(y) = Len(w) + Len(x)
      /\ \A k \in 1..Len(w) : y[k] = w[k]
      /\ \A k \in 1..Len(x) : y[Len(w) + k] = x[k]
  OBVIOUS
<1> HIDE DEF y
<1>2. \A n \in 0..Len(w) : Carried(y, n) = Carried(w, n)
  <2> SUFFICES ASSUME NEW n \in 0..Len(w) PROVE Carried(y, n) = Carried(w, n)
    OBVIOUS
  <2>1. \A k \in 1..n : y[k] = w[k]
    BY <1>1
  <2> QED BY <2>1 DEF Carried
<1>3. \A n \in 0..Len(x) : Carried(y, Len(w) + n) = Carried(w, Len(w)) \cup Carried(x, n)
  <2> SUFFICES ASSUME NEW n \in 0..Len(x)
               PROVE  Carried(y, Len(w) + n) = Carried(w, Len(w)) \cup Carried(x, n)
    OBVIOUS
  <2>1. ASSUME NEW k \in 1..Len(w) + n
        PROVE  ToSet(y[k].ops) \subseteq Carried(w, Len(w)) \cup Carried(x, n)
    <3>1. CASE k \in 1..Len(w)
      BY <1>1, <3>1 DEF Carried
    <3>2. CASE k \notin 1..Len(w)
      <4> DEFINE m == k - Len(w)
      <4>1. m \in 1..n /\ k = Len(w) + m
        BY <1>1, <3>2
      <4> HIDE DEF m
      <4>2. m \in 1..Len(x)
        BY <1>1, <4>1
      <4>3. y[k] = x[m]
        BY <1>1, <4>1, <4>2
      <4> QED BY <4>1, <4>3 DEF Carried
    <3> QED BY <3>1, <3>2
  <2>2. ASSUME NEW k \in 1..Len(w)
        PROVE  ToSet(w[k].ops) \subseteq Carried(y, Len(w) + n)
    <3>1. k \in 1..Len(w) + n /\ y[k] = w[k]
      BY <1>1
    <3> QED BY <3>1 DEF Carried
  <2>3. ASSUME NEW k \in 1..n
        PROVE  ToSet(x[k].ops) \subseteq Carried(y, Len(w) + n)
    <3>1. Len(w) + k \in 1..Len(w) + n /\ y[Len(w) + k] = x[k]
      BY <1>1
    <3> QED BY <3>1 DEF Carried
  <2>4. Carried(y, Len(w) + n) \subseteq Carried(w, Len(w)) \cup Carried(x, n)
    BY <2>1 DEF Carried
  <2>5. Carried(w, Len(w)) \cup Carried(x, n) \subseteq Carried(y, Len(w) + n)
    BY <2>2, <2>3 DEF Carried
  <2> QED BY <2>4, <2>5
<1>4. Carried(y, Len(y)) = Carried(w, Len(w)) \cup Carried(x, Len(x))
  BY <1>1, <1>3
<1> QED BY <1>2, <1>3, <1>4 DEF y

\* Frames behind others make no gaps if theirs have none for who has read those
\* before them.
LEMMA FramesConcat ==
    ASSUME NEW X, NEW w \in Seq(X), NEW x \in Seq(X), NEW ops, NEW S,
           FramesGapless(ops, S, w), FramesGapless(ops, S \cup Carried(w, Len(w)), x)
    PROVE  FramesGapless(ops, S, w \o x)
<1> DEFINE y == w \o x
<1>1. /\ Len(w) \in Nat /\ Len(x) \in Nat /\ Len(y) = Len(w) + Len(x)
      /\ \A k \in 1..Len(w) : y[k] = w[k]
      /\ \A k \in 1..Len(x) : y[Len(w) + k] = x[k]
  OBVIOUS
<1>2. /\ \A n \in 0..Len(w) : Carried(y, n) = Carried(w, n)
      /\ \A n \in 0..Len(x) : Carried(y, Len(w) + n) = Carried(w, Len(w)) \cup Carried(x, n)
  BY CarriedConcat
<1> HIDE DEF y
<1> SUFFICES ASSUME NEW k \in 1..Len(y)
             PROVE  Gapless(ops, S \cup Carried(y, k - 1), y[k].ops)
  BY DEF FramesGapless, y
<1>3. CASE k \in 1..Len(w)
  <2>1. y[k] = w[k] /\ Carried(y, k - 1) = Carried(w, k - 1)
    BY <1>1, <1>2, <1>3
  <2> QED BY <1>3, <2>1 DEF FramesGapless
<1>4. CASE k \notin 1..Len(w)
  <2> DEFINE n == k - Len(w)
  <2>1. n \in 1..Len(x) /\ k = Len(w) + n
    BY <1>1, <1>4
  <2> HIDE DEF n
  <2>2. y[k] = x[n] /\ k - 1 = Len(w) + (n - 1) /\ n - 1 \in 0..Len(x)
    BY <1>1, <2>1
  <2>3. Carried(y, k - 1) = Carried(w, Len(w)) \cup Carried(x, n - 1)
    BY <1>2, <2>2
  <2>4. Gapless(ops, (S \cup Carried(w, Len(w))) \cup Carried(x, n - 1), x[n].ops)
    BY <2>1 DEF FramesGapless
  <2>5. (S \cup Carried(w, Len(w))) \cup Carried(x, n - 1) = S \cup Carried(y, k - 1)
    BY <2>3
  <2> QED BY <2>2, <2>4, <2>5
<1> QED BY <1>3, <1>4

\* The first frame can be read, and then the others.
LEMMA FramesTail ==
    ASSUME NEW X, NEW w \in Seq(X), w # <<>>
    PROVE  /\ Carried(w, Len(w))
                = ToSet(Head(w).ops) \cup Carried(Tail(w), Len(Tail(w)))
           /\ \A ops, S : FramesGapless(ops, S, w)
                => /\ Gapless(ops, S, Head(w).ops)
                   /\ FramesGapless(ops, S \cup ToSet(Head(w).ops), Tail(w))
<1> DEFINE r == Tail(w)
           A == ToSet(Head(w).ops)
<1>1. /\ Len(w) \in Nat \ {0} /\ Len(r) = Len(w) - 1 /\ Head(w) = w[1]
      /\ \A i \in 1..Len(r) : r[i] = w[i + 1]
  OBVIOUS
<1> HIDE DEF r, A
<1>2. \A n \in 0..Len(r) : Carried(w, n + 1) = A \cup Carried(r, n)
  <2> SUFFICES ASSUME NEW n \in 0..Len(r) PROVE Carried(w, n + 1) = A \cup Carried(r, n)
    OBVIOUS
  <2>1. ASSUME NEW k \in 1..n + 1 PROVE ToSet(w[k].ops) \subseteq A \cup Carried(r, n)
    <3>1. k # 1 => k - 1 \in 1..n /\ w[k] = r[k - 1]
      BY <1>1
    <3> QED BY <1>1, <3>1 DEF Carried, A
  <2>2. ASSUME NEW k \in 1..n PROVE ToSet(r[k].ops) \subseteq Carried(w, n + 1)
    <3>1. k + 1 \in 1..n + 1 /\ r[k] = w[k + 1]
      BY <1>1
    <3> QED BY <3>1 DEF Carried
  <2>3. 1 \in 1..n + 1 /\ A = ToSet(w[1].ops)
    BY <1>1 DEF A
  <2> QED BY <2>1, <2>2, <2>3 DEF Carried
<1>3. ASSUME NEW ops, NEW S, FramesGapless(ops, S, w)
      PROVE  Gapless(ops, S, Head(w).ops) /\ FramesGapless(ops, S \cup A, r)
  <2>1. Gapless(ops, S, Head(w).ops)
    <3>1. 1 \in 1..Len(w) /\ Carried(w, 1 - 1) = {}
      BY <1>1 DEF Carried
    <3>2. Gapless(ops, S \cup Carried(w, 1 - 1), w[1].ops)
      BY <1>3, <3>1 DEF FramesGapless
    <3>3. S \cup Carried(w, 1 - 1) = S
      BY <3>1
    <3> QED BY <1>1, <3>2, <3>3
  <2>2. ASSUME NEW k \in 1..Len(r)
        PROVE  Gapless(ops, (S \cup A) \cup Carried(r, k - 1), r[k].ops)
    <3>1. k + 1 \in 1..Len(w) /\ r[k] = w[k + 1] /\ (k + 1) - 1 = (k - 1) + 1
          /\ k - 1 \in 0..Len(r)
      BY <1>1
    <3>2. Gapless(ops, S \cup Carried(w, (k + 1) - 1), w[k + 1].ops)
      BY <1>3, <3>1 DEF FramesGapless
    <3>3. Carried(w, (k + 1) - 1) = A \cup Carried(r, k - 1)
      BY <1>2, <3>1
    <3>4. S \cup Carried(w, (k + 1) - 1) = (S \cup A) \cup Carried(r, k - 1)
      BY <3>3
    <3> QED BY <3>1, <3>2, <3>4
  <2> QED BY <2>1, <2>2 DEF FramesGapless
<1>4. Carried(w, Len(w)) = A \cup Carried(r, Len(r))
  <2>1. Len(r) \in 0..Len(r) /\ Len(r) + 1 = Len(w)
    BY <1>1
  <2> QED BY <1>2, <2>1
<1> QED BY <1>3, <1>4 DEF r, A

LEMMA NewFrameIsLast ==
    ASSUME NEW ops, NEW S, NEW n, NEW w, FramesGapless(ops, S, w),
           \A k \in 1..Len(w) : \A i \in 1..Len(w[k].ops) : ~Earlier(n, w[k].ops[i])
    PROVE  FramesGapless(ops \cup {n}, S, w)
  BY NewIsLast DEF FramesGapless

-----------------------------------------------------------------------------
(***************************************************************************)
(* Links that are up before the first key.                                 *)
(***************************************************************************)
\* What has come to u's process.
Has(u) ==
    opLog[u] \cup ToSet(batch[u]) \cup ToSet(inbound[u]) \cup ToSet(arriving[u])

\* An end e of a link has a user who reads there, e[2], and one who sends.
Sender(e) == Net!Other(e[1], e[2])

\* What has come to the reader or is on the wire.
Reach(e) == Has(e[2]) \cup Carried(wire[e], Len(wire[e]))

\* What waits for the network thread to send it.
Unsent(u) == Carried(Net!Live(u), Len(Net!Live(u)))

NumbersInTime == \A p \in issued, o \in issued : Earlier(p, o) => p.ts < o.ts

Authors == \A o \in issued : o.id[1] \in User

OnePending ==
    \A u \in User : IF mainPc[u] \in {"push", "flush"}
                    THEN \E o \in issued : pending[u] = <<o>>
                    ELSE pending[u] = <<>>

\* Every queue of u's process can be emptied in order without making a gap in
\* the log, and so can the snapshots at another user.
InOrder(ops, log, ofPass, own, queued, read, snapshots) ==
    /\ Complete(ops, log)
    /\ Gapless(ops, log, ofPass)
    /\ Gapless(ops, log \cup ToSet(ofPass), own)
    /\ Gapless(ops, log \cup ToSet(ofPass), queued)
    /\ Gapless(ops, log \cup ToSet(ofPass) \cup ToSet(queued), read)
    /\ \A i \in 1..Len(snapshots) : Complete(ops, snapshots[i])

UserInOrder(u) ==
    InOrder(issued, opLog[u], batch[u], localOps[u], inbound[u], arriving[u], syncs[u])

\* So can the wire at its reader's, and what will be put on it.
WireInOrder(e) == FramesGapless(issued, Has(e[2]), wire[e])

SendsInOrder(e) ==
    netOn[e[2]] =>
        /\ FramesGapless(issued, Reach(e), Net!Live(Sender(e)))
        /\ \A o \in issued : o.id[1] = Sender(e)
             => o \in Reach(e) \cup Unsent(Sender(e)) \cup ToSet(pending[Sender(e)])

\* Links stay up until a user quits.
LinksUp ==
    /\ \A l \in Link : link[l] = "up"
    /\ \A u \in User : ~netOn[u] => peers[u] = {}
    /\ \A e \in Net!Ends :
        /\ \A i \in 1..Len(wire[e]) : wire[e][i].kind = "ops"
        /\ netOn[e[2]] /\ netOn[Sender(e)] => e[1] \in peers[Sender(e)]

LinkedOrder ==
    /\ NumbersInTime /\ Authors /\ OnePending /\ LinksUp
    /\ \A u \in User : UserInOrder(u)
    /\ \A e \in Net!Ends : WireInOrder(e) /\ SendsInOrder(e)

LinkedInv == SavedInv /\ LinkedOrder

\* The steps of a process, on the values of its queues.
LEMMA NothingIsGapless ==
    ToSet(<<>>) = {} /\ \A ops, S : Gapless(ops, S, <<>>)
  BY DEF ToSet, Gapless

LEMMA OrderDrain ==
    ASSUME NEW ops, NEW log, NEW own, NEW queued, NEW read, NEW snapshots,
           InOrder(ops, log, <<>>, own, queued, read, snapshots)
    PROVE  InOrder(ops, log, own, <<>>, queued, read, snapshots)
<1>1. log \cup ToSet(<<>>) = log
  BY NothingIsGapless
<1>2. /\ Complete(ops, log) /\ Gapless(ops, log, own)
      /\ Gapless(ops, log, queued) /\ Gapless(ops, log \cup ToSet(queued), read)
      /\ \A i \in 1..Len(snapshots) : Complete(ops, snapshots[i])
  BY <1>1 DEF InOrder
<1>3. /\ Gapless(ops, log \cup ToSet(own), queued)
      /\ Gapless(ops, log \cup ToSet(own) \cup ToSet(queued), read)
      /\ Gapless(ops, log \cup ToSet(own), <<>>)
  <2>1. /\ log \subseteq log \cup ToSet(own)
        /\ log \cup ToSet(queued) \subseteq log \cup ToSet(own) \cup ToSet(queued)
    OBVIOUS
  <2> QED BY <1>2, <2>1, GaplessMore, NothingIsGapless
<1> QED BY <1>2, <1>3 DEF InOrder

LEMMA OrderReceive ==
    ASSUME NEW X, NEW ops, NEW log, NEW ofPass \in Seq(X), NEW own, NEW queued \in Seq(X),
           queued # <<>>, NEW read, NEW snapshots,
           InOrder(ops, log, ofPass, own, queued, read, snapshots)
    PROVE  InOrder(ops, log, Append(ofPass, Head(queued)), own, Tail(queued), read, snapshots)
<1> DEFINE S == log \cup ToSet(ofPass)
           x == Head(queued)
           T == log \cup ToSet(Append(ofPass, x))
<1>1. /\ Complete(ops, log) /\ Gapless(ops, log, ofPass)
      /\ Gapless(ops, S, own) /\ Gapless(ops, S, queued)
      /\ Gapless(ops, S \cup ToSet(queued), read)
      /\ \A i \in 1..Len(snapshots) : Complete(ops, snapshots[i])
  BY DEF InOrder
<1>2. /\ \A p \in ops : Earlier(p, x) => p \in S
      /\ Gapless(ops, S \cup {x}, Tail(queued))
      /\ ToSet(queued) = {x} \cup ToSet(Tail(queued))
  BY <1>1, GaplessTail
<1>3. x \in X
  OBVIOUS
<1>4. T = S \cup {x}
  BY <1>3, ToSetOfAppend
<1>5. Gapless(ops, log, Append(ofPass, x))
  BY <1>1, <1>2, <1>3, GaplessAppend
<1> HIDE DEF S, T, x
<1>6. /\ S \subseteq T /\ S \cup ToSet(queued) = T \cup ToSet(Tail(queued))
  BY <1>2, <1>4
<1>7. /\ Gapless(ops, T, own) /\ Gapless(ops, T, Tail(queued))
      /\ Gapless(ops, T \cup ToSet(Tail(queued)), read)
  BY <1>1, <1>2, <1>4, <1>6, GaplessMore
<1> QED BY <1>1, <1>5, <1>7 DEF InOrder, T, x

LEMMA OrderMerge ==
    ASSUME NEW X, NEW ops, NEW log, NEW ofPass \in Seq(X), NEW own, NEW queued, NEW read,
           NEW snapshots, InOrder(ops, log, ofPass, own, queued, read, snapshots)
    PROVE  InOrder(ops, log \cup ToSet(ofPass), <<>>, own, queued, read, snapshots)
<1> DEFINE T == log \cup ToSet(ofPass)
<1>1. /\ Complete(ops, log) /\ Gapless(ops, log, ofPass)
      /\ Gapless(ops, T, own) /\ Gapless(ops, T, queued)
      /\ Gapless(ops, T \cup ToSet(queued), read)
      /\ \A i \in 1..Len(snapshots) : Complete(ops, snapshots[i])
  BY DEF InOrder
<1>2. Complete(ops, T)
  BY <1>1, GaplessComplete
<1>3. T \cup ToSet(<<>>) = T /\ Gapless(ops, T, <<>>)
  BY NothingIsGapless
<1> HIDE DEF T
<1>4. InOrder(ops, T, <<>>, own, queued, read, snapshots)
  BY <1>1, <1>2, <1>3 DEF InOrder
<1> QED BY <1>4 DEF T

LEMMA OrderPush ==
    ASSUME NEW X, NEW ops, NEW log, NEW ofPass, NEW own \in Seq(X), NEW x \in X, NEW queued,
           NEW read, NEW snapshots, InOrder(ops, log, ofPass, own, queued, read, snapshots),
           \A p \in ops : Earlier(p, x) => p \in log \cup ToSet(ofPass) \cup ToSet(own)
    PROVE  InOrder(ops, log, ofPass, Append(own, x), queued, read, snapshots)
<1>1. Gapless(ops, log \cup ToSet(ofPass), Append(own, x))
  BY GaplessAppend DEF InOrder
<1> QED BY <1>1 DEF InOrder

LEMMA OrderRead ==
    ASSUME NEW ops, NEW log, NEW ofPass, NEW own, NEW queued, NEW read, NEW snapshots,
           InOrder(ops, log, ofPass, own, queued, read, snapshots),
           NEW q, Gapless(ops, log \cup ToSet(ofPass) \cup ToSet(queued), q)
    PROVE  InOrder(ops, log, ofPass, own, queued, q, snapshots)
  BY DEF InOrder

LEMMA OrderQueue ==
    ASSUME NEW X, NEW ops, NEW log, NEW ofPass, NEW own, NEW queued \in Seq(X),
           NEW read \in Seq(X), read # <<>>, NEW snapshots,
           InOrder(ops, log, ofPass, own, queued, read, snapshots)
    PROVE  InOrder(ops, log, ofPass, own, Append(queued, Head(read)), Tail(read), snapshots)
<1> DEFINE S == log \cup ToSet(ofPass)
           R == S \cup ToSet(queued)
           x == Head(read)
<1>1. /\ Complete(ops, log) /\ Gapless(ops, log, ofPass)
      /\ Gapless(ops, S, own) /\ Gapless(ops, S, queued)
      /\ Gapless(ops, R, read)
      /\ \A i \in 1..Len(snapshots) : Complete(ops, snapshots[i])
  BY DEF InOrder
<1> HIDE DEF R
<1>2. /\ \A p \in ops : Earlier(p, x) => p \in R
      /\ Gapless(ops, R \cup {x}, Tail(read))
  BY <1>1, GaplessTail
<1>3. x \in X
  OBVIOUS
<1>4. S \cup ToSet(Append(queued, x)) = R \cup {x}
  BY <1>3, ToSetOfAppend DEF R
<1>5. Gapless(ops, S, Append(queued, x))
  BY <1>1, <1>2, <1>3, GaplessAppend DEF R
<1>6. Gapless(ops, S \cup ToSet(Append(queued, x)), Tail(read))
  BY <1>2, <1>4
<1> QED BY <1>1, <1>5, <1>6 DEF InOrder, S, x

LEMMA OrderSnapshots ==
    ASSUME NEW ops, NEW log, NEW ofPass, NEW own, NEW queued, NEW read, NEW snapshots,
           InOrder(ops, log, ofPass, own, queued, read, snapshots), NEW others,
           \A i \in 1..Len(others) :
                others[i] = log \/ \E j \in 1..Len(snapshots) : others[i] = snapshots[j]
    PROVE  InOrder(ops, log, ofPass, own, queued, read, others)
<1>1. \A i \in 1..Len(others) : Complete(ops, others[i])
  BY DEF InOrder
<1> QED BY <1>1 DEF InOrder

LEMMA OrderNew ==
    ASSUME NEW ops, NEW n, \A o \in ops : ~Earlier(n, o),
           NEW log \in SUBSET ops, NEW ofPass \in Seq(ops), NEW own \in Seq(ops),
           NEW queued \in Seq(ops), NEW read \in Seq(ops),
           NEW snapshots \in Seq(SUBSET ops),
           InOrder(ops, log, ofPass, own, queued, read, snapshots)
    PROVE  InOrder(ops \cup {n}, log, ofPass, own, queued, read, snapshots)
<1>1. \A q \in Seq(ops) : \A i \in 1..Len(q) : ~Earlier(n, q[i])
  OBVIOUS
<1>2. \A S : \A q \in Seq(ops) : Gapless(ops, S, q) => Gapless(ops \cup {n}, S, q)
  BY <1>1, NewIsLast
<1>3. \A S \in SUBSET ops : Complete(ops, S) => Complete(ops \cup {n}, S)
  BY NewIsLast
<1>4. \A i \in 1..Len(snapshots) : snapshots[i] \in SUBSET ops
  OBVIOUS
<1> QED BY <1>2, <1>3, <1>4 DEF InOrder

LEMMA FramesNew ==
    ASSUME NEW ops, NEW n, \A o \in ops : ~Earlier(n, o), NEW S,
           NEW w \in Seq(Frame(ops)), FramesGapless(ops, S, w)
    PROVE  FramesGapless(ops \cup {n}, S, w)
<1>1. ASSUME NEW k \in 1..Len(w), NEW i \in 1..Len(w[k].ops)
      PROVE  ~Earlier(n, w[k].ops[i])
  <2>1. w[k] \in Frame(ops)
    OBVIOUS
  <2>2. w[k].ops \in Seq(ops)
    BY <2>1 DEF Frame
  <2>3. w[k].ops[i] \in ops
    BY <2>2
  <2> QED BY <2>3
<1> QED BY <1>1, NewFrameIsLast

\* No step gives up an operation: every queue an operation goes through has
\* room for it.
NothingRefused ==
    /\ PushesFit
    /\ \A u \in User : /\ FlushBatch(u) => Len(outbound[u]) < OutboundCap
                       /\ Net!QueueOp(u) => Len(inbound[u]) < InboundCap

LEMMA LinkedTypes ==
    ASSUME SessionInv
    PROVE  /\ EditorInv /\ EditorTypes
           /\ opLog \in [User -> SUBSET issued]
           /\ pending \in [User -> Seq(issued)] /\ batch \in [User -> Seq(issued)]
           /\ localOps \in [User -> Seq(issued)] /\ inbound \in [User -> Seq(issued)]
           /\ arriving \in [User -> Seq(issued)]
           /\ outbound \in [User -> Seq(Seq(issued))]
           /\ syncs \in [User -> Seq(SUBSET issued)]
           /\ wire \in [Net!Ends -> Seq(Frame(issued))]
           /\ DOMAIN mainPc = User /\ DOMAIN netOn = User
           /\ \A o \in issued : o.id[2] \in Nat
<1>1. EditorInv /\ EditorTypes /\ NetTypes /\ EditorTypeOK
  BY DEF SessionInv, EditorInv, EditorTypes
<1>2. \A o \in issued : o.id[2] \in Nat
  BY <1>1, TypeFacts
<1> QED BY <1>1, <1>2 DEF EditorTypeOK, NetTypes

LEMMA EndFacts ==
    ASSUME NEW e \in Net!Ends
    PROVE  /\ e[1] \in Link /\ e[2] \in User /\ Sender(e) \in User /\ Sender(e) # e[2]
           /\ e[1] \in Net!LinksOf(Sender(e)) /\ e[1] \in Net!LinksOf(e[2])
           /\ \A u \in User : e[1] \in Net!LinksOf(u) => u \in {e[2], Sender(e)}
           /\ e = <<e[1], e[2]>>
<1>1. /\ e[1] \in Link /\ e[2] \in User /\ e[2] \in {e[1][1], e[1][2]} /\ e = <<e[1], e[2]>>
  BY DEF Net!Ends
<1>2. e[1][1] \in User /\ e[1][2] \in User /\ e[1][1] # e[1][2]
  BY <1>1, LinkAssumption
<1> QED BY <1>1, <1>2 DEF Sender, Net!Other, Net!LinksOf

\* What an own operation needs to be in order: all before it are in reach.
LEMMA EarlierIsOther ==
    ASSUME SessionInv, NEW o \in issued, NEW p \in issued, Earlier(p, o)
    PROVE  p # o /\ p.id[1] = o.id[1]
<1>1. o.id[2] \in Nat
  BY LinkedTypes
<1> QED BY <1>1 DEF Earlier

LEMMA LinkedInit ==
    ASSUME Link = Up, Init
    PROVE  LinkedOrder
<1>1. /\ issued = {} /\ opLog = [u \in User |-> {}] /\ mainPc = [u \in User |-> "key"]
      /\ pending = [u \in User |-> <<>>] /\ batch = [u \in User |-> <<>>]
      /\ localOps = [u \in User |-> <<>>] /\ inbound = [u \in User |-> <<>>]
      /\ outbound = [u \in User |-> <<>>] /\ syncs = [u \in User |-> <<>>]
  BY DEF Init, EditorInit
<1>2. /\ netOn = [u \in User |-> TRUE]
      /\ link = [l \in Link |-> IF l \in Up THEN "up" ELSE "none"]
      /\ peers = [u \in User |-> Net!LinksOf(u) \cap Up]
      /\ wire = [e \in Net!Ends |-> <<>>] /\ arriving = [u \in User |-> <<>>]
  BY DEF Init, Net!NetInit
<1>3. NumbersInTime /\ Authors /\ OnePending
  BY <1>1 DEF NumbersInTime, Authors, OnePending
<1>4. LinksUp
  <2>1. \A u \in User : netOn[u]
    BY <1>2
  <2>2. \A l \in Link : link[l] = "up"
    BY <1>2
  <2>3. ASSUME NEW e \in Net!Ends
        PROVE  e[1] \in peers[Sender(e)] /\ \A i \in 1..Len(wire[e]) : wire[e][i].kind = "ops"
    <3>1. wire[e] = <<>> /\ Len(<<>>) = 0
      BY <1>2
    <3>2. e[1] \in peers[Sender(e)]
      BY <1>2, EndFacts
    <3> QED BY <3>1, <3>2
  <2> QED BY <2>1, <2>2, <2>3 DEF LinksUp
<1>5. \A u \in User : UserInOrder(u)
  BY <1>1, <1>2 DEF UserInOrder, InOrder, Complete, Gapless
<1>6. ASSUME NEW e \in Net!Ends PROVE WireInOrder(e) /\ SendsInOrder(e)
  <2>1. \A S, w : FramesGapless(issued, S, w)
    BY <1>1 DEF FramesGapless, Gapless
  <2> QED BY <1>1, <2>1 DEF WireInOrder, SendsInOrder
<1> QED BY <1>3, <1>4, <1>5, <1>6 DEF LinkedOrder

\* A typed operation is the last of its author, and nothing has it yet.
LEMMA TypingLinked ==
    ASSUME LinkedInv, NEW u \in User, NEW op, NEW pos, Typing(u, op, pos), UNCHANGED netVars
    PROVE  LinkedOrder'
<1>1. /\ SessionInv /\ NumbersInTime /\ Authors /\ OnePending /\ LinksUp
      /\ \A v \in User : UserInOrder(v)
      /\ \A e \in Net!Ends : WireInOrder(e) /\ SendsInOrder(e)
  BY DEF LinkedInv, LinkedOrder, SavedInv
<1>2. /\ EditorInv /\ EditorTypes /\ NumbersUsed
  BY <1>1, LinkedTypes DEF EditorInv
<1>3. /\ opLog \in [User -> SUBSET issued]
      /\ pending \in [User -> Seq(issued)] /\ batch \in [User -> Seq(issued)]
      /\ localOps \in [User -> Seq(issued)] /\ inbound \in [User -> Seq(issued)]
      /\ arriving \in [User -> Seq(issued)] /\ syncs \in [User -> Seq(SUBSET issued)]
      /\ wire \in [Net!Ends -> Seq(Frame(issued))] /\ DOMAIN mainPc = User
  BY <1>1, LinkedTypes
<1>4. /\ op.id[1] = u /\ op.id[2] = opSeq[u] /\ op.ts = clock[u] + 1
      /\ issued' = issued \cup {op} /\ op \notin issued
      /\ mainPc[u] = "key" /\ mainPc' = [mainPc EXCEPT ![u] = "push"]
      /\ pending' = [pending EXCEPT ![u] = <<op>>]
      /\ UNCHANGED <<opLog, batch, localOps, inbound, outbound, syncs>>
      /\ UNCHANGED <<netOn, link, peers, wire, arriving>>
  BY <1>2, TypingIsNew
     DEF Typing, Makes, Perform, MayType, AtKey, mergeVars, netQueues, netVars
<1>5. /\ opSeq[u] \in Nat /\ clock[u] \in Nat /\ \A o \in issued : o.ts \in Nat
  BY <1>2, TypeFacts
<1>6. \A o \in issued : ~Earlier(op, o) /\ (o.id[1] = u => o.ts < op.ts)
  <2>1. \A o \in issued : o.id[1] = u => o.id[2] < opSeq[u] /\ o.ts <= clock[u]
    BY <1>2 DEF NumbersUsed
  <2>2. \A o \in issued : o.id[2] \in Nat
    BY <1>1, LinkedTypes
  <2> QED BY <1>4, <1>5, <2>1, <2>2 DEF Earlier
<1>7. NumbersInTime' /\ Authors'
  <2>1. ~Earlier(op, op)
    BY <1>4, <1>5 DEF Earlier
  <2>2. \A p \in issued : Earlier(p, op) => p.ts < op.ts
    BY <1>4, <1>6 DEF Earlier
  <2> QED BY <1>1, <1>4, <1>6, <2>1, <2>2 DEF NumbersInTime, Authors
<1>8. OnePending'
  BY <1>1, <1>3, <1>4 DEF OnePending
<1>9. LinksUp'
  BY <1>1, <1>4 DEF LinksUp
<1>10. ASSUME NEW v \in User PROVE UserInOrder(v)'
  <2>1. /\ opLog[v] \in SUBSET issued /\ batch[v] \in Seq(issued)
        /\ localOps[v] \in Seq(issued) /\ inbound[v] \in Seq(issued)
        /\ arriving[v] \in Seq(issued) /\ syncs[v] \in Seq(SUBSET issued)
    BY <1>3
  <2>2. InOrder(issued, opLog[v], batch[v], localOps[v], inbound[v], arriving[v], syncs[v])
    BY <1>1 DEF UserInOrder
  <2>3. \A o \in issued : ~Earlier(op, o)
    BY <1>6
  <2>4. InOrder(issued \cup {op}, opLog[v], batch[v], localOps[v], inbound[v], arriving[v],
                syncs[v])
    BY <2>1, <2>2, <2>3, OrderNew
  <2> QED BY <1>4, <2>4 DEF UserInOrder
<1>11. ASSUME NEW e \in Net!Ends PROVE WireInOrder(e)' /\ SendsInOrder(e)'
  <2> DEFINE s == Sender(e)
  <2>1. /\ Has(e[2])' = Has(e[2]) /\ Reach(e)' = Reach(e)
        /\ Net!Live(s)' = Net!Live(s) /\ Unsent(s)' = Unsent(s)
    BY <1>4 DEF Has, Reach, Net!Live, Unsent
  <2>2. /\ s \in User /\ wire[e] \in Seq(Frame(issued)) /\ Net!Live(s) \in Seq(Frame(issued))
        /\ \A o \in issued : ~Earlier(op, o)
    BY <1>1, <1>3, <1>6, EndFacts, FramesAreFrames
  <2>3. WireInOrder(e)'
    <3>1. FramesGapless(issued, Has(e[2]), wire[e])
      BY <1>1 DEF WireInOrder
    <3>2. FramesGapless(issued \cup {op}, Has(e[2]), wire[e])
      BY <2>2, <3>1, FramesNew
    <3> QED BY <1>4, <2>1, <3>2 DEF WireInOrder
  <2>4. ASSUME netOn[e[2]]
        PROVE  FramesGapless(issued', Reach(e)', Net!Live(s)')
    <3>1. FramesGapless(issued, Reach(e), Net!Live(s))
      BY <1>1, <2>4 DEF SendsInOrder
    <3> HIDE DEF s
    <3>2. FramesGapless(issued \cup {op}, Reach(e), Net!Live(s))
      BY <2>2, <3>1, FramesNew
    <3> QED BY <1>4, <2>1, <3>2
  <2>5. ASSUME netOn[e[2]], NEW o \in issued', o.id[1] = s
        PROVE  o \in Reach(e)' \cup Unsent(s)' \cup ToSet(pending'[s])
    <3>1. s = u => pending'[s] = <<op>> /\ pending[s] = <<>>
      BY <1>1, <1>3, <1>4 DEF OnePending
    <3>2. s # u => pending'[s] = pending[s]
      BY <1>3, <1>4
    <3>3. ToSet(<<op>>) = {op} /\ ToSet(<<>>) = {}
      BY DEF ToSet
    <3>4. CASE o \in issued
      <4>1. o \in Reach(e) \cup Unsent(s) \cup ToSet(pending[s])
        BY <1>1, <2>5, <3>4 DEF SendsInOrder
      <4> HIDE DEF s
      <4> QED BY <2>1, <3>1, <3>2, <3>3, <4>1
    <3>5. CASE o = op
      <4>1. s = u
        BY <1>4, <2>5, <3>5
      <4> QED BY <3>1, <3>3, <3>5, <4>1
    <3> QED BY <1>4, <2>5, <3>4, <3>5
  <2> QED BY <1>4, <2>3, <2>4, <2>5 DEF SendsInOrder
<1> QED BY <1>7, <1>8, <1>9, <1>10, <1>11 DEF LinkedOrder

\* The steps that issue nothing: who is left as it was, and what grows.
LEMMA SameUser ==
    ASSUME NEW v, UserInOrder(v), issued' = issued,
           /\ opLog'[v] = opLog[v] /\ batch'[v] = batch[v] /\ localOps'[v] = localOps[v]
           /\ inbound'[v] = inbound[v] /\ arriving'[v] = arriving[v] /\ syncs'[v] = syncs[v]
    PROVE  UserInOrder(v)' /\ Has(v)' = Has(v)
  BY DEF UserInOrder, Has

LEMMA SameEnd ==
    ASSUME LinkedOrder, NEW e \in Net!Ends, issued' = issued, wire'[e] = wire[e],
           netOn'[e[2]] = netOn[e[2]], outbound'[Sender(e)] = outbound[Sender(e)],
           pending'[Sender(e)] = pending[Sender(e)], Has(e[2]) \subseteq Has(e[2])'
    PROVE  WireInOrder(e)' /\ SendsInOrder(e)'
<1> DEFINE s == Sender(e)
<1>1. /\ WireInOrder(e) /\ SendsInOrder(e)
  BY DEF LinkedOrder
<1>2. /\ Net!Live(s)' = Net!Live(s) /\ Unsent(s)' = Unsent(s)
      /\ Reach(e) \subseteq Reach(e)'
  BY DEF Net!Live, Unsent, Reach
<1>3. WireInOrder(e)'
  <2>1. FramesGapless(issued, Has(e[2]), wire[e])
    BY <1>1 DEF WireInOrder
  <2>2. FramesGapless(issued, Has(e[2])', wire[e])
    BY <2>1, FramesMore
  <2> QED BY <2>2 DEF WireInOrder
<1>4. ASSUME netOn[e[2]]
      PROVE  FramesGapless(issued, Reach(e)', Net!Live(s))
  <2>1. FramesGapless(issued, Reach(e), Net!Live(s))
    BY <1>1, <1>4 DEF SendsInOrder
  <2> QED BY <1>2, <2>1, FramesMore
<1>5. ASSUME netOn[e[2]], NEW o \in issued, o.id[1] = s
      PROVE  o \in Reach(e)' \cup Unsent(s)' \cup ToSet(pending'[s])
  <2>1. o \in Reach(e) \cup Unsent(s) \cup ToSet(pending[s])
    BY <1>1, <1>5 DEF SendsInOrder
  <2> QED BY <1>2, <2>1
<1> QED BY <1>2, <1>3, <1>4, <1>5 DEF SendsInOrder

LEMMA SameRest ==
    ASSUME LinkedOrder, UNCHANGED issued, UNCHANGED <<netOn, link, peers, wire>>
    PROVE  NumbersInTime' /\ Authors' /\ LinksUp'
  BY DEF LinkedOrder, NumbersInTime, Authors, LinksUp

\* Steps within a process.
LEMMA QueueStepLinked ==
    ASSUME LinkedOrder, NEW u \in User, UNCHANGED issued, UNCHANGED <<netOn, link, peers, wire>>,
           UNCHANGED <<pending, outbound>>, OnePending', UserInOrder(u)',
           Has(u) \subseteq Has(u)',
           \A v \in User \ {u} :
                /\ opLog'[v] = opLog[v] /\ batch'[v] = batch[v] /\ localOps'[v] = localOps[v]
                /\ inbound'[v] = inbound[v] /\ arriving'[v] = arriving[v]
                /\ syncs'[v] = syncs[v]
    PROVE  LinkedOrder'
<1>1. \A v \in User : UserInOrder(v)
  BY DEF LinkedOrder
<1>2. \A v \in User : UserInOrder(v)' /\ Has(v) \subseteq Has(v)'
  <2> SUFFICES ASSUME NEW v \in User, v # u PROVE UserInOrder(v)' /\ Has(v)' = Has(v)
    OBVIOUS
  <2> QED BY <1>1, SameUser
<1>3. \A e \in Net!Ends : WireInOrder(e)' /\ SendsInOrder(e)'
  BY <1>2, SameEnd, EndFacts
<1> QED BY <1>2, <1>3, SameRest DEF LinkedOrder

LEMMA WaitingLinked ==
    ASSUME LinkedInv, NEW u \in User, MoveCursor(u) \/ Quit(u), UNCHANGED netVars
    PROVE  LinkedOrder'
<1>1. LinkedOrder /\ SessionInv /\ OnePending /\ UserInOrder(u)
  BY DEF LinkedInv, LinkedOrder, SavedInv
<1>2. /\ UNCHANGED <<issued, pending, outbound, opLog, batch, localOps, inbound, syncs>>
      /\ UNCHANGED <<netOn, link, peers, wire, arriving>>
      /\ mainPc[u] = "key" /\ mainPc'[u] \in {"key", "stopped"}
      /\ \A v \in User \ {u} : mainPc'[v] = mainPc[v]
  BY <1>1, LinkedTypes
     DEF MoveCursor, Quit, AtKey, mergeVars, bothVars, netQueues, netVars
<1>3. OnePending'
  BY <1>1, <1>2 DEF OnePending
<1>4. UserInOrder(u)' /\ Has(u)' = Has(u)
  BY <1>1, <1>2, SameUser
<1> QED BY <1>1, <1>2, <1>3, <1>4, QueueStepLinked

LEMMA PushLocalLinked ==
    ASSUME LinkedInv, NEW u \in User, PushLocal(u), UNCHANGED netVars, NothingRefused
    PROVE  LinkedOrder'
<1>1. /\ LinkedOrder /\ SessionInv /\ OnePending /\ UserInOrder(u) /\ OwnInReach /\ OwnInHand
  BY DEF LinkedInv, LinkedOrder, SavedInv, SessionInv, EditorInv
<1>2. /\ pending[u] \in Seq(issued) /\ localOps[u] \in Seq(issued) /\ DOMAIN mainPc = User
      /\ DOMAIN localOps = User
  BY <1>1, LinkedTypes
<1>3. /\ mainPc[u] = "push" /\ mainPc' = [mainPc EXCEPT ![u] = "flush"]
      /\ localOps' = [localOps EXCEPT ![u] = PushTo(@, pending[u][1], LocalCap)]
      /\ Len(localOps[u]) < LocalCap
      /\ UNCHANGED <<issued, pending, outbound, opLog, batch, inbound, syncs>>
      /\ UNCHANGED <<netOn, link, peers, wire, arriving>>
  BY DEF PushLocal, NothingRefused, PushesFit, mergeVars, netQueues, netVars
<1>4. PICK o \in issued : pending[u] = <<o>>
  BY <1>1, <1>3 DEF OnePending
<1>5. localOps'[u] = Append(localOps[u], o)
  BY <1>2, <1>3, <1>4 DEF PushTo
<1>6. o.id[1] = u
  BY <1>1, <1>4 DEF OwnInHand
<1>7. ASSUME NEW p \in issued, Earlier(p, o)
      PROVE  p \in opLog[u] \cup ToSet(batch[u]) \cup ToSet(localOps[u])
  <2>1. p # o /\ p.id[1] = u
    BY <1>1, <1>6, <1>7, EarlierIsOther
  <2> QED BY <1>1, <1>4, <2>1 DEF OwnInReach
<1>8. InOrder(issued, opLog[u], batch[u], Append(localOps[u], o), inbound[u], arriving[u],
              syncs[u])
  <2>1. InOrder(issued, opLog[u], batch[u], localOps[u], inbound[u], arriving[u], syncs[u])
    BY <1>1 DEF UserInOrder
  <2> QED BY <1>2, <1>7, <2>1, OrderPush
<1>9. UserInOrder(u)' /\ Has(u)' = Has(u)
  BY <1>3, <1>5, <1>8 DEF UserInOrder, Has
<1>10. OnePending'
  BY <1>1, <1>2, <1>3 DEF OnePending
<1>11. \A v \in User \ {u} : localOps'[v] = localOps[v]
  BY <1>2, <1>3
<1> QED BY <1>1, <1>3, <1>9, <1>10, <1>11, QueueStepLinked

LEMMA DrainLocalLinked ==
    ASSUME LinkedInv, NEW u \in User, DrainLocal(u), UNCHANGED netVars
    PROVE  LinkedOrder'
<1>1. /\ LinkedOrder /\ SessionInv /\ OnePending /\ UserInOrder(u) /\ BatchOfPass
  BY DEF LinkedInv, LinkedOrder, SavedInv
<1>2. DOMAIN batch = User /\ DOMAIN localOps = User
  BY <1>1, LinkedTypes
<1>3. /\ batch' = [batch EXCEPT ![u] = localOps[u]] /\ batch[u] = <<>>
      /\ localOps' = [localOps EXCEPT ![u] = <<>>]
      /\ UNCHANGED <<issued, mainPc, pending, outbound, opLog, inbound, syncs>>
      /\ UNCHANGED <<netOn, link, peers, wire, arriving>>
  BY <1>1 DEF DrainLocal, BatchOfPass, mainVars, netQueues, netVars
<1>4. batch'[u] = localOps[u] /\ localOps'[u] = <<>>
  BY <1>2, <1>3
<1>5. InOrder(issued, opLog[u], localOps[u], <<>>, inbound[u], arriving[u], syncs[u])
  <2>1. InOrder(issued, opLog[u], <<>>, localOps[u], inbound[u], arriving[u], syncs[u])
    BY <1>1, <1>3 DEF UserInOrder
  <2> QED BY <2>1, OrderDrain
<1>6. UserInOrder(u)'
  BY <1>3, <1>4, <1>5 DEF UserInOrder
<1>7. Has(u) \subseteq Has(u)'
  BY <1>3, NothingIsGapless DEF Has
<1>8. OnePending'
  BY <1>1, <1>3 DEF OnePending
<1>9. \A v \in User \ {u} : localOps'[v] = localOps[v] /\ batch'[v] = batch[v]
  BY <1>2, <1>3
<1> QED BY <1>1, <1>3, <1>6, <1>7, <1>8, <1>9, QueueStepLinked

LEMMA ReceiveOpLinked ==
    ASSUME LinkedInv, NEW u \in User, ReceiveOp(u), UNCHANGED netVars
    PROVE  LinkedOrder'
<1>1. LinkedOrder /\ SessionInv /\ OnePending /\ UserInOrder(u)
  BY DEF LinkedInv, LinkedOrder, SavedInv
<1>2. /\ DOMAIN batch = User /\ DOMAIN inbound = User
      /\ batch[u] \in Seq(issued) /\ inbound[u] \in Seq(issued)
  BY <1>1, LinkedTypes
<1> DEFINE x == Head(inbound[u])
<1>3. /\ inbound[u] # <<>>
      /\ batch' = [batch EXCEPT ![u] = Append(batch[u], x)]
      /\ inbound' = [inbound EXCEPT ![u] = Tail(@)]
      /\ UNCHANGED <<issued, mainPc, pending, outbound, opLog, localOps, syncs>>
      /\ UNCHANGED <<netOn, link, peers, wire, arriving>>
  BY DEF ReceiveOp, TakeIn, mainVars, netQueues, netVars
<1>4. batch'[u] = Append(batch[u], x) /\ inbound'[u] = Tail(inbound[u])
  BY <1>2, <1>3
<1>5. InOrder(issued, opLog[u], batch'[u], localOps[u], inbound'[u], arriving[u], syncs[u])
  <2>1. InOrder(issued, opLog[u], batch[u], localOps[u], inbound[u], arriving[u], syncs[u])
    BY <1>1 DEF UserInOrder
  <2> QED BY <1>2, <1>3, <1>4, <2>1, OrderReceive
<1>6. UserInOrder(u)'
  BY <1>3, <1>5 DEF UserInOrder
<1>7. Has(u) \subseteq Has(u)'
  <2>1. x \in issued
    BY <1>2, <1>3
  <2>2. ToSet(batch'[u]) = ToSet(batch[u]) \cup {x}
    BY <1>2, <1>4, <2>1, ToSetOfAppend
  <2>3. Gapless({}, {}, inbound[u])
    BY DEF Gapless
  <2>4. ToSet(inbound[u]) = {x} \cup ToSet(inbound'[u])
    BY <1>2, <1>3, <1>4, <2>3, GaplessTail
  <2> QED BY <1>3, <2>2, <2>4 DEF Has
<1>8. OnePending'
  BY <1>1, <1>3 DEF OnePending
<1>9. \A v \in User \ {u} : inbound'[v] = inbound[v] /\ batch'[v] = batch[v]
  BY <1>2, <1>3
<1> QED BY <1>1, <1>3, <1>6, <1>7, <1>8, <1>9, QueueStepLinked

LEMMA MergeOpsLinked ==
    ASSUME LinkedInv, NEW u \in User, MergeOps(u), UNCHANGED netVars
    PROVE  LinkedOrder'
<1>1. LinkedOrder /\ SessionInv /\ OnePending /\ UserInOrder(u) /\ Unique
  BY DEF LinkedInv, LinkedOrder, SavedInv, SessionInv, EditorInv
<1>2. /\ DOMAIN batch = User /\ DOMAIN opLog = User
      /\ batch[u] \in Seq(issued) /\ opLog[u] \in SUBSET issued
  BY <1>1, LinkedTypes
<1>3. /\ opLog' = [opLog EXCEPT ![u] = AddToLog(opLog[u], batch[u])]
      /\ batch' = [batch EXCEPT ![u] = <<>>]
      /\ UNCHANGED <<issued, mainPc, pending, outbound, localOps, inbound, syncs>>
      /\ UNCHANGED <<netOn, link, peers, wire, arriving>>
  BY DEF MergeOps, EndPass, mainVars, netQueues, netVars
<1>4. AddToLog(opLog[u], batch[u]) = opLog[u] \cup ToSet(batch[u])
  BY <1>1, <1>2, AddToLogIsUnion DEF Unique
<1>5. opLog'[u] = opLog[u] \cup ToSet(batch[u]) /\ batch'[u] = <<>>
  BY <1>2, <1>3, <1>4
<1>6. InOrder(issued, opLog'[u], batch'[u], localOps[u], inbound[u], arriving[u], syncs[u])
  <2>1. InOrder(issued, opLog[u], batch[u], localOps[u], inbound[u], arriving[u], syncs[u])
    BY <1>1 DEF UserInOrder
  <2> QED BY <1>2, <1>5, <2>1, OrderMerge
<1>7. UserInOrder(u)'
  BY <1>3, <1>6 DEF UserInOrder
<1>8. Has(u) \subseteq Has(u)'
  BY <1>3, <1>5 DEF Has
<1>9. OnePending'
  BY <1>1, <1>3 DEF OnePending
<1>10. \A v \in User \ {u} : opLog'[v] = opLog[v] /\ batch'[v] = batch[v]
  BY <1>2, <1>3
<1> QED BY <1>1, <1>3, <1>7, <1>8, <1>9, <1>10, QueueStepLinked

LEMMA OtherMergeLinked ==
    ASSUME LinkedInv, NEW u \in User,
           ReceiveTick(u) \/ WriteFile(u) \/ NoticePeers(u) \/ StopMerge(u), UNCHANGED netVars
    PROVE  LinkedOrder'
<1>1. LinkedOrder /\ SessionInv /\ OnePending /\ UserInOrder(u)
  BY DEF LinkedInv, LinkedOrder, SavedInv
<1>2. /\ syncs \in [User -> Seq(SUBSET issued)] /\ opLog[u] \in SUBSET issued
      /\ SyncCap \in Nat
  BY <1>1, LinkedTypes, CapsAreNatural
<1>3. /\ \/ UNCHANGED syncs
         \/ syncs' = [syncs EXCEPT ![u] = PushTo(@, opLog[u], SyncCap)]
         \/ syncs' = [syncs EXCEPT ![u] = @]
      /\ UNCHANGED <<issued, mainPc, pending, outbound, opLog, batch, localOps, inbound>>
      /\ UNCHANGED <<netOn, link, peers, wire, arriving>>
  BY DEF ReceiveTick, WriteFile, NoticePeers, StopMerge, mainVars, bothVars, netQueues, netVars
<1>4. /\ syncs'[u] \in {syncs[u], PushTo(syncs[u], opLog[u], SyncCap)}
      /\ \A v \in User \ {u} : syncs'[v] = syncs[v]
  BY <1>2, <1>3
<1>5. \A i \in 1..Len(syncs'[u]) :
         syncs'[u][i] = opLog[u] \/ \E j \in 1..Len(syncs[u]) : syncs'[u][i] = syncs[u][j]
  <2>1. CASE syncs'[u] = syncs[u]
    BY <2>1
  <2>2. CASE syncs'[u] = PushTo(syncs[u], opLog[u], SyncCap)
    <3> DEFINE Logs == SUBSET issued
               q == syncs[u]
               r == PushTo(q, opLog[u], SyncCap)
    <3>1. q \in Seq(Logs) /\ opLog[u] \in Logs
      BY <1>2
    <3> HIDE DEF Logs, q
    <3>2. /\ r \in Seq(Logs)
          /\ \A i \in DOMAIN r : r[i] = opLog[u] \/ (i \in DOMAIN q /\ r[i] = q[i])
      BY <1>2, <3>1, PushToType
    <3> HIDE DEF r
    <3>3. DOMAIN r = 1..Len(r) /\ DOMAIN q = 1..Len(q)
      BY <3>1, <3>2
    <3>4. \A i \in 1..Len(r) : r[i] = opLog[u] \/ \E j \in 1..Len(q) : r[i] = q[j]
      BY <3>2, <3>3
    <3> QED BY <2>2, <3>4 DEF q, r
  <2> QED BY <1>4, <2>1, <2>2
<1>6. UserInOrder(u)'
  <2>1. InOrder(issued, opLog[u], batch[u], localOps[u], inbound[u], arriving[u], syncs[u])
    BY <1>1 DEF UserInOrder
  <2>2. InOrder(issued, opLog[u], batch[u], localOps[u], inbound[u], arriving[u], syncs'[u])
    BY <1>5, <2>1, OrderSnapshots
  <2> QED BY <1>3, <2>2 DEF UserInOrder
<1>7. Has(u)' = Has(u) /\ OnePending'
  BY <1>1, <1>3 DEF Has, OnePending
<1> QED BY <1>1, <1>3, <1>4, <1>6, <1>7, QueueStepLinked

\* One more message waits to be sent: the operation just logged or on its way
\* to the log.
LEMMA LiveAppend ==
    ASSUME NEW u \in User, outbound[u] \in Seq(Seq(issued)), NEW ops \in Seq(issued),
           outbound'[u] = Append(outbound[u], ops)
    PROVE  Net!Live(u)' = Net!Live(u) \o <<Net!OpsFrame(ops)>>
<1> DEFINE out == outbound[u]
           F(q) == [i \in DOMAIN q |-> Net!OpsFrame(q[i])]
<1>1. /\ Len(out) \in Nat /\ DOMAIN out = 1..Len(out)
      /\ DOMAIN Append(out, ops) = 1..Len(out) + 1
      /\ \A i \in 1..Len(out) : Append(out, ops)[i] = out[i]
      /\ Append(out, ops)[Len(out) + 1] = ops
  OBVIOUS
<1>2. Net!Live(u) = F(out) /\ Net!Live(u)' = F(Append(out, ops))
  BY DEF Net!Live
<1> HIDE DEF out, Net!OpsFrame
<1>3. F(Append(out, ops)) = F(out) \o <<Net!OpsFrame(ops)>>
  BY <1>1
<1> QED BY <1>2, <1>3

LEMMA FlushBatchLinked ==
    ASSUME LinkedInv, NEW u \in User, FlushBatch(u), UNCHANGED netVars, NothingRefused
    PROVE  LinkedOrder'
<1>1. /\ LinkedOrder /\ SessionInv /\ OnePending /\ OwnInHand
      /\ \A v \in User : UserInOrder(v)
  BY DEF LinkedInv, LinkedOrder, SavedInv, SessionInv, EditorInv
<1>2. /\ outbound \in [User -> Seq(Seq(issued))] /\ pending \in [User -> Seq(issued)]
      /\ DOMAIN mainPc = User
  BY <1>1, LinkedTypes
<1>3. /\ mainPc[u] = "flush" /\ mainPc' = [mainPc EXCEPT ![u] = "key"]
      /\ outbound' = [outbound EXCEPT ![u] = PushTo(@, pending[u], OutboundCap)]
      /\ pending' = [pending EXCEPT ![u] = <<>>]
      /\ Len(outbound[u]) < OutboundCap
      /\ UNCHANGED <<issued, opLog, batch, localOps, inbound, syncs>>
      /\ UNCHANGED <<netOn, link, peers, wire, arriving>>
  BY DEF FlushBatch, NothingRefused, mergeVars, bothVars, netVars
<1>4. PICK o \in issued : pending[u] = <<o>>
  BY <1>1, <1>3 DEF OnePending
<1>5. o.id[1] = u
  BY <1>1, <1>4 DEF OwnInHand
<1>6. /\ outbound'[u] = Append(outbound[u], <<o>>) /\ pending'[u] = <<>>
      /\ \A v \in User \ {u} : outbound'[v] = outbound[v] /\ pending'[v] = pending[v]
                                /\ mainPc'[v] = mainPc[v]
      /\ mainPc'[u] = "key"
  BY <1>2, <1>3, <1>4 DEF PushTo
<1>7. OnePending' /\ NumbersInTime' /\ Authors' /\ LinksUp'
  BY <1>1, <1>3, <1>6, SameRest DEF OnePending
<1>8. \A v \in User : UserInOrder(v)' /\ Has(v)' = Has(v)
  BY <1>1, <1>3, SameUser
<1>9. ASSUME NEW e \in Net!Ends PROVE WireInOrder(e)' /\ SendsInOrder(e)'
  <2>1. CASE Sender(e) # u
    BY <1>1, <1>3, <1>6, <1>8, <2>1, SameEnd, EndFacts
  <2>2. CASE Sender(e) = u
    <3> DEFINE f == Net!OpsFrame(<<o>>)
    <3>1. /\ WireInOrder(e) /\ SendsInOrder(e) /\ e[2] \in User
      BY <1>1, EndFacts DEF LinkedOrder
    <3>2. Has(e[2])' = Has(e[2]) /\ Reach(e)' = Reach(e)
      BY <1>3, <1>8, <3>1 DEF Reach
    <3>3. WireInOrder(e)'
      BY <1>3, <3>1, <3>2 DEF WireInOrder
    <3>4. /\ Net!Live(u) \in Seq(Frame(issued)) /\ <<o>> \in Seq(issued)
          /\ outbound[u] \in Seq(Seq(issued))
      BY <1>1, <1>2, FramesAreFrames
    <3>5. Net!Live(u)' = Net!Live(u) \o <<f>>
      BY <1>6, <3>4, LiveAppend
    <3>6. f \in Frame(issued) /\ f.ops = <<o>>
      BY <3>4 DEF Net!OpsFrame, Frame
    <3> HIDE DEF f
    <3>7. <<f>> \in Seq(Frame(issued)) /\ Carried(<<f>>, Len(<<f>>)) = ToSet(f.ops)
      BY <3>6, CarriedOne
    <3>8. ToSet(f.ops) = {o}
      BY <3>6 DEF ToSet
    <3>9. Unsent(u)' = Unsent(u) \cup {o}
      <4> DEFINE L == Net!Live(u)
                 g == <<f>>
                 M == L \o g
      <4>1. /\ L \in Seq(Frame(issued)) /\ g \in Seq(Frame(issued))
            /\ Unsent(u)' = Carried(M, Len(M)) /\ Unsent(u) = Carried(L, Len(L))
            /\ Carried(g, Len(g)) = {o}
        BY <3>4, <3>5, <3>7, <3>8 DEF Unsent
      <4> HIDE DEF L, g
      <4>2. Carried(M, Len(M)) = Carried(L, Len(L)) \cup Carried(g, Len(g))
        BY <4>1, CarriedConcat
      <4> QED BY <4>1, <4>2
    <3>10. ASSUME netOn[e[2]], NEW p \in issued, p.id[1] = u
           PROVE  p \in Reach(e) \cup Unsent(u) \cup {o}
      <4>1. p \in Reach(e) \cup Unsent(u) \cup ToSet(pending[u])
        BY <2>2, <3>1, <3>10 DEF SendsInOrder
      <4>2. ToSet(pending[u]) = {o}
        BY <1>4 DEF ToSet
      <4> QED BY <4>1, <4>2
    <3>11. ASSUME netOn[e[2]]
           PROVE  FramesGapless(issued, Reach(e), Net!Live(u) \o <<f>>)
      <4>1. FramesGapless(issued, Reach(e), Net!Live(u))
        BY <2>2, <3>1, <3>11 DEF SendsInOrder
      <4>2. ASSUME NEW p \in issued, Earlier(p, o) PROVE p \in Reach(e) \cup Unsent(u)
        <5>1. p # o /\ p.id[1] = u
          BY <1>1, <1>5, <4>2, EarlierIsOther
        <5> QED BY <3>10, <3>11, <5>1
      <4>3. Gapless(issued, Reach(e) \cup Unsent(u), f.ops)
        BY <3>6, <4>2 DEF Gapless
      <4>4. FramesGapless(issued, Reach(e) \cup Unsent(u), <<f>>)
        BY <4>3, CarriedOne
      <4> QED BY <3>4, <3>7, <4>1, <4>4, FramesConcat DEF Unsent
    <3>12. SendsInOrder(e)'
      BY <1>3, <2>2, <3>2, <3>5, <3>9, <3>10, <3>11 DEF SendsInOrder
    <3> QED BY <3>3, <3>12
  <2> QED BY <2>1, <2>2
<1> QED BY <1>7, <1>8, <1>9 DEF LinkedOrder

LEMMA EditorLinked ==
    ASSUME LinkedInv, NEW u \in User, EditorStep(u), UNCHANGED netVars, NothingRefused
    PROVE  LinkedOrder'
<1>1. CASE \E op, pos : Typing(u, op, pos)
  BY <1>1, TypingLinked
<1>2. EditorInv
  BY DEF LinkedInv, SavedInv, SessionInv
<1>3. CASE Key(u)
  <2>1. CASE TypeChar(u) \/ Backspace(u) \/ ForwardDelete(u)
    BY <1>1, <1>2, <2>1, KeyMakes
  <2> QED BY <1>3, <2>1, WaitingLinked DEF Key
<1>4. CASE Hand(u)
  BY <1>4, PushLocalLinked, FlushBatchLinked DEF Hand
<1>5. CASE Merge(u)
  BY <1>5, DrainLocalLinked, ReceiveOpLinked, MergeOpsLinked, OtherMergeLinked DEF Merge
<1> QED BY <1>3, <1>4, <1>5 DEF EditorStep

-----------------------------------------------------------------------------
\* The steps of the network thread, while the links are up.
LEMMA ReadOpsLinked ==
    ASSUME LinkedInv, NEW u \in User, NEW l \in Net!LinksOf(u), Net!ReadOps(u, l),
           UNCHANGED <<mainVars, mergeVars, clock, doc, localOps>>
    PROVE  LinkedOrder'
<1> DEFINE d == <<l, u>>
           f == Head(wire[d])
<1>1. /\ LinkedOrder /\ SessionInv /\ OnePending /\ LinksUp
      /\ \A v \in User : UserInOrder(v)
      /\ \A e \in Net!Ends : WireInOrder(e) /\ SendsInOrder(e)
  BY DEF LinkedInv, LinkedOrder, SavedInv
<1>2. d \in Net!Ends /\ d[2] = u
  BY DEF Net!Ends, Net!LinksOf
<1>3. /\ wire \in [Net!Ends -> Seq(Frame(issued))] /\ DOMAIN arriving = User
      /\ wire[d] \in Seq(Frame(issued))
  BY <1>1, <1>2, LinkedTypes
<1>4. /\ arriving[u] = <<>> /\ wire[d] # <<>>
      /\ wire' = [wire EXCEPT ![d] = Tail(wire[d])]
      /\ arriving' = [arriving EXCEPT ![u] = f.ops]
      /\ UNCHANGED <<issued, mainPc, pending, opLog, batch, localOps>>
      /\ UNCHANGED <<inbound, outbound, syncs, netOn, link, peers>>
  BY DEF Net!ReadOps, Net!Incoming, Net!Idle, mainVars, mergeVars
<1> HIDE DEF d
<1>5. /\ arriving'[u] = f.ops /\ wire'[d] = Tail(wire[d])
      /\ \A v \in User \ {u} : arriving'[v] = arriving[v]
      /\ \A e \in Net!Ends \ {d} : wire'[e] = wire[e]
  BY <1>2, <1>3, <1>4
<1>6. /\ Carried(wire[d], Len(wire[d]))
            = ToSet(f.ops) \cup Carried(wire'[d], Len(wire'[d]))
      /\ \A S : FramesGapless(issued, S, wire[d])
           => /\ Gapless(issued, S, f.ops)
              /\ FramesGapless(issued, S \cup ToSet(f.ops), wire'[d])
  <2> DEFINE w == wire[d]
  <2>1. w \in Seq(Frame(issued)) /\ w # <<>>
    BY <1>3, <1>4
  <2> HIDE DEF w
  <2>2. /\ Carried(w, Len(w)) = ToSet(Head(w).ops) \cup Carried(Tail(w), Len(Tail(w)))
        /\ \A S : FramesGapless(issued, S, w)
             => /\ Gapless(issued, S, Head(w).ops)
                /\ FramesGapless(issued, S \cup ToSet(Head(w).ops), Tail(w))
    BY <2>1, FramesTail
  <2> QED BY <1>5, <2>2 DEF w
<1> HIDE DEF f
<1>7. /\ Has(u) = opLog[u] \cup ToSet(batch[u]) \cup ToSet(inbound[u])
      /\ Has(u)' = Has(u) \cup ToSet(f.ops)
      /\ \A v \in User \ {u} : Has(v)' = Has(v)
  BY <1>4, <1>5, NothingIsGapless DEF Has
<1>8. Gapless(issued, Has(u), f.ops) /\ FramesGapless(issued, Has(u)', wire'[d])
  <2>1. FramesGapless(issued, Has(u), wire[d])
    BY <1>1, <1>2 DEF WireInOrder
  <2> QED BY <1>6, <1>7, <2>1
<1>9. ASSUME NEW v \in User PROVE UserInOrder(v)'
  <2>1. CASE v = u
    <3>1. InOrder(issued, opLog[u], batch[u], localOps[u], inbound[u], arriving[u], syncs[u])
      BY <1>1 DEF UserInOrder
    <3>2. InOrder(issued, opLog[u], batch[u], localOps[u], inbound[u], f.ops, syncs[u])
      BY <1>7, <1>8, <3>1, OrderRead
    <3> QED BY <1>4, <1>5, <2>1, <3>2 DEF UserInOrder
  <2>2. CASE v # u
    BY <1>1, <1>4, <1>5, <2>2, SameUser
  <2> QED BY <2>1, <2>2
<1>10. ASSUME NEW e \in Net!Ends PROVE WireInOrder(e)' /\ SendsInOrder(e)'
  <2>1. CASE e = d
    <3>1. WireInOrder(e)'
      BY <1>2, <1>4, <1>8, <2>1 DEF WireInOrder
    <3>2. Reach(e)' = Reach(e)
      BY <1>2, <1>6, <1>7, <2>1 DEF Reach
    <3>3. SendsInOrder(e)'
      <4>1. /\ Net!Live(Sender(e))' = Net!Live(Sender(e))
            /\ Unsent(Sender(e))' = Unsent(Sender(e))
        BY <1>4 DEF Net!Live, Unsent
      <4> QED BY <1>1, <1>4, <3>2, <4>1 DEF SendsInOrder
    <3> QED BY <3>1, <3>3
  <2>2. CASE e # d
    <3>1. Has(e[2]) \subseteq Has(e[2])'
      BY <1>7, EndFacts
    <3> QED BY <1>1, <1>4, <1>5, <2>2, <3>1, SameEnd
  <2> QED BY <2>1, <2>2
<1>11. LinksUp'
  <2>1. ASSUME NEW i \in 1..Len(wire'[d]) PROVE wire'[d][i].kind = "ops"
    <3>1. i + 1 \in 1..Len(wire[d]) /\ wire'[d][i] = wire[d][i + 1]
      <4> DEFINE w == wire[d]
                 F == Frame(issued)
      <4>1. w \in Seq(F) /\ w # <<>> /\ i \in 1..Len(Tail(w)) /\ wire'[d] = Tail(w)
        BY <1>3, <1>4, <1>5
      <4> HIDE DEF w, F
      <4>2. i + 1 \in 1..Len(w) /\ Tail(w)[i] = w[i + 1]
        BY <4>1
      <4> QED BY <4>1, <4>2 DEF w
    <3> QED BY <1>1, <1>2, <3>1 DEF LinksUp
  <2> QED BY <1>1, <1>4, <1>5, <2>1 DEF LinksUp
<1>12. OnePending' /\ NumbersInTime' /\ Authors'
  BY <1>1, <1>4 DEF LinkedOrder, OnePending, NumbersInTime, Authors
<1> QED BY <1>9, <1>10, <1>11, <1>12 DEF LinkedOrder

LEMMA QueueOpLinked ==
    ASSUME LinkedInv, NEW u \in User, Net!QueueOp(u), NothingRefused,
           UNCHANGED <<mainVars, mergeVars, clock, doc, localOps>>
    PROVE  LinkedOrder'
<1> DEFINE x == Head(arriving[u])
<1>1. LinkedOrder /\ SessionInv /\ OnePending /\ UserInOrder(u)
  BY DEF LinkedInv, LinkedOrder, SavedInv
<1>2. /\ DOMAIN arriving = User /\ DOMAIN inbound = User
      /\ arriving[u] \in Seq(issued) /\ inbound[u] \in Seq(issued)
  BY <1>1, LinkedTypes
<1>3. /\ arriving[u] # <<>> /\ Len(inbound[u]) < InboundCap
      /\ inbound' = [inbound EXCEPT ![u] = IF Len(@) < InboundCap
                                           THEN Append(@, Head(arriving[u])) ELSE @]
      /\ arriving' = [arriving EXCEPT ![u] = Tail(@)]
      /\ UNCHANGED <<issued, mainPc, pending, opLog, batch, localOps>>
      /\ UNCHANGED <<outbound, syncs, netOn, link, peers, wire>>
  BY DEF Net!QueueOp, NothingRefused, mainVars, mergeVars
<1>4. /\ inbound'[u] = Append(inbound[u], x) /\ arriving'[u] = Tail(arriving[u])
      /\ \A v \in User \ {u} : inbound'[v] = inbound[v] /\ arriving'[v] = arriving[v]
  BY <1>2, <1>3
<1>5. InOrder(issued, opLog[u], batch[u], localOps[u], inbound'[u], arriving'[u], syncs[u])
  <2>1. InOrder(issued, opLog[u], batch[u], localOps[u], inbound[u], arriving[u], syncs[u])
    BY <1>1 DEF UserInOrder
  <2> QED BY <1>2, <1>3, <1>4, <2>1, OrderQueue
<1>6. UserInOrder(u)'
  BY <1>3, <1>5 DEF UserInOrder
<1>7. Has(u) \subseteq Has(u)'
  <2>1. x \in issued
    BY <1>2, <1>3
  <2>2. ToSet(inbound'[u]) = ToSet(inbound[u]) \cup {x}
    BY <1>2, <1>4, <2>1, ToSetOfAppend
  <2>3. Gapless({}, {}, arriving[u])
    BY DEF Gapless
  <2>4. ToSet(arriving[u]) = {x} \cup ToSet(arriving'[u])
    BY <1>2, <1>3, <1>4, <2>3, GaplessTail
  <2> QED BY <1>3, <2>2, <2>4 DEF Has
<1>8. OnePending'
  BY <1>1, <1>3 DEF OnePending
<1> QED BY <1>1, <1>3, <1>4, <1>6, <1>7, <1>8, QueueStepLinked

\* A snapshot brings a complete log, then every message waiting brings the next
\* operations of its author.
LEMMA SendAllLinked ==
    ASSUME LinkedInv, NEW u \in User, Net!SendAll(u),
           UNCHANGED <<mainVars, mergeVars, clock, doc, localOps>>
    PROVE  LinkedOrder'
<1>1. /\ LinkedOrder /\ SessionInv /\ OnePending /\ LinksUp /\ NumbersInTime /\ EditorTypes
      /\ Unique /\ NetTypes
      /\ \A v \in User : UserInOrder(v)
      /\ \A e \in Net!Ends : WireInOrder(e) /\ SendsInOrder(e)
  BY DEF LinkedInv, LinkedOrder, SavedInv, SessionInv, EditorInv
<1>2. /\ wire \in [Net!Ends -> Seq(Frame(issued))] /\ DOMAIN outbound = User
      /\ syncs \in [User -> Seq(SUBSET issued)]
      /\ Net!Snapshot(u) \in Seq(Frame(issued)) /\ Net!Live(u) \in Seq(Frame(issued))
  BY <1>1, LinkedTypes, FramesAreFrames
<1>3. /\ netOn[u]
      /\ wire' = [e \in Net!Ends |->
                    IF e[1] \notin peers[u] \/ e[2] = u \/ ~netOn[e[2]]
                    THEN wire[e]
                    ELSE wire[e]
                         \o (IF e[1] \in waiting[u] THEN Net!Snapshot(u) ELSE <<>>)
                         \o (IF e[1] \in peers[u] THEN Net!Live(u) ELSE <<>>)]
      /\ \/ syncs' = [syncs EXCEPT ![u] = Tail(@)] /\ Net!Snapshot(u) # <<>>
         \/ UNCHANGED syncs
      /\ outbound' = [outbound EXCEPT ![u] = <<>>]
      /\ UNCHANGED <<issued, mainPc, pending, opLog, batch, localOps>>
      /\ UNCHANGED <<netOn, link, peers, arriving, inbound>>
  BY DEF Net!SendAll, Net!SendTo, Net!Idle, mainVars, mergeVars
<1>4. /\ outbound'[u] = <<>> /\ \A v \in User \ {u} : outbound'[v] = outbound[v]
  BY <1>2, <1>3
<1>5. /\ \A S : FramesGapless(issued, S, Net!Snapshot(u))
      /\ \A i \in 1..Len(Net!Snapshot(u)) : Net!Snapshot(u)[i].kind = "ops"
  <2>1. CASE waiting[u] # {} /\ syncs[u] # <<>>
    <3> DEFINE log == Head(syncs[u])
               f == Net!OpsFrame(SortOps(log))
    <3>1. Net!Snapshot(u) = <<f>> /\ f.ops = SortOps(log) /\ f.kind = "ops"
      BY <2>1 DEF Net!Snapshot, Net!OpsFrame
    <3>2. log \in SUBSET issued /\ Complete(issued, log)
      <4>1. Head(syncs[u]) = syncs[u][1] /\ 1 \in 1..Len(syncs[u])
        BY <1>2, <2>1
      <4>2. \A i \in 1..Len(syncs[u]) : Complete(issued, syncs[u][i])
        BY <1>1 DEF UserInOrder, InOrder
      <4>3. syncs[u][1] \in SUBSET issued
        BY <1>2, <4>1
      <4> QED BY <4>1, <4>2, <4>3
    <3> HIDE DEF log, f
    <3>3. IsLog(log) /\ \A p \in issued, o \in issued : Earlier(p, o) => p.ts < o.ts
      BY <1>1, <3>2, IssuedAreLogs DEF NumbersInTime
    <3>4. Gapless(issued, {}, f.ops)
      BY <3>1, <3>2, <3>3, SnapshotGapless
    <3>5. \A S : Gapless(issued, S, f.ops)
      BY <3>4, GaplessMore
    <3>6. \A S : FramesGapless(issued, S, <<f>>)
      BY <3>5, CarriedOne
    <3>7. Len(<<f>>) = 1 /\ <<f>>[1] = f
      OBVIOUS
    <3> QED BY <3>1, <3>6, <3>7
  <2>2. CASE ~(waiting[u] # {} /\ syncs[u] # <<>>)
    <3>1. Net!Snapshot(u) = <<>> /\ Len(<<>>) = 0
      BY <2>2 DEF Net!Snapshot
    <3> QED BY <3>1 DEF FramesGapless
  <2> QED BY <2>1, <2>2
<1>6. /\ \A i \in 1..Len(Net!Live(u)) : Net!Live(u)[i].kind = "ops"
  <2>1. outbound[u] \in Seq(Seq(issued))
    BY <1>1, LinkedTypes
  <2>2. Len(Net!Live(u)) = Len(outbound[u]) /\ DOMAIN outbound[u] = 1..Len(outbound[u])
    BY <2>1 DEF Net!Live
  <2> QED BY <2>2 DEF Net!Live, Net!OpsFrame
<1>7. \A v \in User : Has(v)' = Has(v)
  BY <1>3 DEF Has
<1>8. ASSUME NEW v \in User PROVE UserInOrder(v)'
  <2>1. CASE syncs'[v] = syncs[v]
    BY <1>1, <1>3, <2>1, SameUser
  <2>2. CASE syncs'[v] # syncs[v]
    <3> DEFINE Logs == SUBSET issued
               q == syncs[v]
    <3>1. syncs'[v] = Tail(q) /\ q # <<>> /\ q \in Seq(Logs)
      BY <1>2, <1>3, <2>2 DEF Net!Snapshot
    <3> HIDE DEF q, Logs
    <3>2. \A i \in 1..Len(Tail(q)) : i + 1 \in 1..Len(q) /\ Tail(q)[i] = q[i + 1]
      BY <3>1
    <3>3. InOrder(issued, opLog[v], batch[v], localOps[v], inbound[v], arriving[v], q)
      BY <1>1 DEF UserInOrder, q
    <3>4. InOrder(issued, opLog[v], batch[v], localOps[v], inbound[v], arriving[v], Tail(q))
      BY <3>2, <3>3, OrderSnapshots
    <3> QED BY <1>3, <3>1, <3>4 DEF UserInOrder
  <2> QED BY <2>1, <2>2
<1>9. ASSUME NEW e \in Net!Ends
      PROVE  /\ WireInOrder(e)' /\ SendsInOrder(e)'
             /\ \A i \in 1..Len(wire'[e]) : wire'[e][i].kind = "ops"
  <2> DEFINE L == Net!Live(u)
             P == IF e[1] \in waiting[u] THEN Net!Snapshot(u) ELSE <<>>
             F == Frame(issued)
  <2>1. /\ e[2] \in User /\ Sender(e) \in User /\ e[1] \in Net!LinksOf(Sender(e))
        /\ e[1] \in peers[u] => u \in {e[2], Sender(e)}
        /\ Sender(e) # e[2]
    BY <1>1, EndFacts DEF NetTypes
  <2>2. wire[e] \in Seq(F) /\ P \in Seq(F) /\ L \in Seq(F)
    BY <1>2
  <2>3. \A i \in 1..Len(wire[e]) : wire[e][i].kind = "ops"
    BY <1>1 DEF LinksUp
  <2>4. CASE Sender(e) # u
    <3>1. wire'[e] = wire[e]
      BY <1>3, <2>1, <2>4
    <3> QED BY <1>1, <1>3, <1>4, <1>7, <2>1, <2>3, <2>4, <3>1, SameEnd
  <2>5. CASE Sender(e) = u /\ ~netOn[e[2]]
    <3>1. wire'[e] = wire[e]
      BY <1>3, <2>5
    <3>2. WireInOrder(e)'
      BY <1>1, <1>3, <1>7, <2>1, <3>1 DEF WireInOrder
    <3> QED BY <1>3, <2>3, <2>5, <3>1, <3>2 DEF SendsInOrder
  <2>6. CASE Sender(e) = u /\ netOn[e[2]]
    <3>1. wire'[e] = (wire[e] \o P) \o L
      <4>1. e[1] \in peers[u] /\ e[2] # u
        BY <1>1, <1>3, <2>1, <2>6 DEF LinksUp
      <4> QED BY <1>3, <2>6, <4>1
    <3>2. /\ FramesGapless(issued, Has(e[2]), wire[e])
          /\ FramesGapless(issued, Reach(e), L)
          /\ \A o \in issued : o.id[1] = u
               => o \in Reach(e) \cup Unsent(u) \cup ToSet(pending[u])
      BY <1>1, <2>6 DEF WireInOrder, SendsInOrder
    <3>3. /\ \A S : FramesGapless(issued, S, P)
          /\ \A i \in 1..Len(P) : P[i].kind = "ops"
      <4>1. \A S : FramesGapless(issued, S, <<>>)
        BY DEF FramesGapless
      <4> QED BY <1>5, <4>1
    <3> DEFINE w == wire[e]
               x == w \o P
    <3>4. /\ Reach(e) = Has(e[2]) \cup Carried(w, Len(w))
          /\ Unsent(u) = Carried(L, Len(L))
          /\ w \in Seq(F) /\ wire'[e] = x \o L
      BY <2>2, <3>1 DEF Reach, Unsent
    <3>5. \A i \in 1..Len(w) : w[i].kind = "ops"
      BY <2>3
    <3>6. \A i \in 1..Len(L) : L[i].kind = "ops"
      BY <1>6
    <3>7. FramesGapless(issued, Has(e[2]), w)
      BY <3>2
    <3> HIDE DEF L, P, F, w
    <3>8. /\ x \in Seq(F)
          /\ Carried(x, Len(x)) = Carried(w, Len(w)) \cup Carried(P, Len(P))
          /\ FramesGapless(issued, Has(e[2]), x)
      <4>1. FramesGapless(issued, Has(e[2]) \cup Carried(w, Len(w)), P)
        BY <3>3
      <4>2. Carried(x, Len(x)) = Carried(w, Len(w)) \cup Carried(P, Len(P))
        BY <2>2, <3>4, CarriedConcat
      <4>3. FramesGapless(issued, Has(e[2]), x)
        BY <2>2, <3>4, <3>7, <4>1, FramesConcat
      <4> QED BY <2>2, <3>4, <4>2, <4>3
    <3>9. Reach(e) \subseteq Has(e[2]) \cup Carried(x, Len(x))
      BY <3>4, <3>8
    <3>10. FramesGapless(issued, Has(e[2]) \cup Carried(x, Len(x)), L)
      BY <3>2, <3>9, FramesMore
    <3>11. \A i \in 1..Len(x \o L) : (x \o L)[i].kind = "ops"
      BY <2>2, <3>3, <3>4, <3>5, <3>6
    <3> HIDE DEF x
    <3>12. /\ Carried(x \o L, Len(x \o L)) = Carried(x, Len(x)) \cup Carried(L, Len(L))
           /\ FramesGapless(issued, Has(e[2]), x \o L)
      <4>1. Carried(x \o L, Len(x \o L)) = Carried(x, Len(x)) \cup Carried(L, Len(L))
        BY <2>2, <3>8, CarriedConcat
      <4>2. FramesGapless(issued, Has(e[2]), x \o L)
        BY <2>2, <3>8, <3>10, FramesConcat
      <4> QED BY <4>1, <4>2
    <3>13. WireInOrder(e)'
      BY <1>3, <1>7, <2>1, <3>4, <3>12 DEF WireInOrder
    <3>14. Reach(e)' = Has(e[2]) \cup Carried(x, Len(x)) \cup Unsent(u)
      BY <1>7, <2>1, <3>4, <3>12 DEF Reach
    <3>15. Net!Live(u)' = <<>>
      BY <1>4 DEF Net!Live
    <3>16. FramesGapless(issued', Reach(e)', Net!Live(u)')
      BY <3>15 DEF FramesGapless
    <3>17. \A o \in issued : o.id[1] = u => o \in Reach(e)' \cup ToSet(pending[u])
      BY <3>2, <3>9, <3>14
    <3>18. SendsInOrder(e)'
      BY <1>3, <2>6, <3>16, <3>17 DEF SendsInOrder
    <3> QED BY <3>4, <3>11, <3>13, <3>18
  <2> QED BY <2>4, <2>5, <2>6
<1>10. LinksUp'
  BY <1>1, <1>3, <1>9 DEF LinksUp
<1>11. OnePending' /\ NumbersInTime' /\ Authors'
  BY <1>1, <1>3 DEF LinkedOrder, OnePending, NumbersInTime, Authors
<1> QED BY <1>8, <1>9, <1>10, <1>11 DEF LinkedOrder

\* A user who quits takes nobody's operations along.
LEMMA LeavingLinked ==
    ASSUME LinkedInv, NEW u \in User,
           Net!StopNetwork(u) \/ \E l \in Net!LinksOf(u) : Net!PeerGone(u, l),
           UNCHANGED <<mainVars, mergeVars, clock, doc, localOps>>
    PROVE  LinkedOrder'
<1>1. /\ LinkedOrder /\ SessionInv /\ OnePending /\ LinksUp /\ NetTypes
      /\ \A v \in User : UserInOrder(v)
      /\ \A e \in Net!Ends : WireInOrder(e) /\ SendsInOrder(e)
  BY DEF LinkedInv, LinkedOrder, SavedInv, SessionInv
<1>2. UNCHANGED <<issued, mainPc, pending, opLog, batch, localOps, inbound, outbound, syncs,
                  arriving, link>>
  BY DEF Net!StopNetwork, Net!PeerGone, mainVars, mergeVars
<1>3. \A v \in User : UserInOrder(v)' /\ Has(v)' = Has(v)
  BY <1>1, <1>2, SameUser
<1>4. OnePending' /\ NumbersInTime' /\ Authors'
  BY <1>1, <1>2 DEF LinkedOrder, OnePending, NumbersInTime, Authors
<1>5. CASE Net!StopNetwork(u)
  <2>1. /\ netOn' = [netOn EXCEPT ![u] = FALSE] /\ peers' = [peers EXCEPT ![u] = {}]
        /\ wire' = [e \in Net!Ends |-> IF e[2] = u THEN <<>> ELSE wire[e]]
    BY <1>5 DEF Net!StopNetwork
  <2>2. /\ ~netOn'[u] /\ peers'[u] = {}
        /\ \A v \in User \ {u} : netOn'[v] = netOn[v] /\ peers'[v] = peers[v]
    BY <1>1, <2>1 DEF NetTypes
  <2>3. ASSUME NEW e \in Net!Ends PROVE WireInOrder(e)' /\ SendsInOrder(e)'
    <3>1. CASE e[2] = u
      <4>1. wire'[e] = <<>>
        BY <2>1, <3>1
      <4> QED BY <2>2, <3>1, <4>1 DEF WireInOrder, SendsInOrder, FramesGapless
    <3>2. CASE e[2] # u
      <4>1. wire'[e] = wire[e] /\ netOn'[e[2]] = netOn[e[2]]
        BY <2>1, <2>2, <3>2, EndFacts
      <4> QED BY <1>1, <1>2, <1>3, <4>1, SameEnd, EndFacts
    <3> QED BY <3>1, <3>2
  <2>4. LinksUp'
    <3>1. ASSUME NEW e \in Net!Ends
          PROVE  /\ \A i \in 1..Len(wire'[e]) : wire'[e][i].kind = "ops"
                 /\ netOn'[e[2]] /\ netOn'[Sender(e)] => e[1] \in peers'[Sender(e)]
      <4>1. wire'[e] \in {<<>>, wire[e]} /\ Len(<<>>) = 0
        BY <2>1
      <4>2. Sender(e) \in User /\ e[2] \in User
        BY EndFacts
      <4> QED BY <1>1, <2>2, <4>1, <4>2 DEF LinksUp
    <3>2. \A v \in User : ~netOn'[v] => peers'[v] = {}
      BY <1>1, <2>2 DEF LinksUp
    <3> QED BY <1>1, <1>2, <3>1, <3>2 DEF LinksUp
  <2> QED BY <1>3, <1>4, <2>3, <2>4 DEF LinkedOrder
<1>6. ASSUME NEW l \in Net!LinksOf(u), Net!PeerGone(u, l)
      PROVE  LinkedOrder'
  <2>1. /\ UNCHANGED <<netOn, wire>> /\ ~netOn[Net!Other(l, u)]
        /\ peers' = [peers EXCEPT ![u] = @ \ {l}]
    BY <1>6 DEF Net!PeerGone
  <2>2. \A e \in Net!Ends : WireInOrder(e)' /\ SendsInOrder(e)'
    BY <1>1, <1>2, <1>3, <2>1, SameEnd, EndFacts
  <2>3. /\ peers'[u] = peers[u] \ {l}
        /\ \A v \in User \ {u} : peers'[v] = peers[v]
    BY <1>1, <2>1 DEF NetTypes
  <2>4. LinksUp'
    <3>1. ASSUME NEW e \in Net!Ends, netOn[e[2]], netOn[Sender(e)]
          PROVE  e[1] \in peers'[Sender(e)]
      <4>1. e[1] \in peers[Sender(e)] /\ Sender(e) \in User
        BY <1>1, <3>1, EndFacts DEF LinksUp
      <4>2. Sender(e) = u => e[1] # l
        <5> SUFFICES ASSUME Sender(e) = u, e[1] = l PROVE FALSE
          OBVIOUS
        <5>1. /\ e[2] \in {l[1], l[2]} /\ e[2] # u /\ u \in {l[1], l[2]}
          BY EndFacts DEF Net!LinksOf
        <5>2. Net!Other(l, u) = e[2]
          BY <5>1 DEF Net!Other
        <5> QED BY <2>1, <3>1, <5>2
      <4> QED BY <2>3, <4>1, <4>2
    <3>2. \A v \in User : ~netOn[v] => peers'[v] = {}
      BY <1>1, <2>3 DEF LinksUp
    <3> QED BY <1>1, <1>2, <2>1, <3>1, <3>2 DEF LinksUp
  <2> QED BY <1>3, <1>4, <2>2, <2>4 DEF LinkedOrder
<1> QED BY <1>5, <1>6

\* Nobody connects: every link has been opened, and nobody says hello again.
LEMMA NoNewcomers ==
    ASSUME LinkedInv, NEW u \in User, NEW l \in Net!LinksOf(u)
    PROVE  ~Net!Connect(u, l) /\ ~Net!Accept(u, l) /\ ~Net!ReadHello(u, l)
<1>1. LinksUp /\ l \in Link /\ SessionInv
  BY DEF LinkedInv, LinkedOrder, SavedInv, Net!LinksOf
<1>2. link[l] = "up" /\ "up" # "none" /\ "up" # "backlog"
  BY <1>1 DEF LinksUp
<1>3. ASSUME Net!ReadHello(u, l) PROVE FALSE
  <2> DEFINE e == <<l, u>>
  <2>1. e \in Net!Ends
    BY DEF Net!Ends, Net!LinksOf
  <2>2. wire[e] # <<>> /\ Head(wire[e]).kind = "hello"
    BY <1>3 DEF Net!ReadHello, Net!Incoming
  <2>3. wire[e] \in Seq(Frame(issued))
    BY <1>1, <2>1, LinkedTypes
  <2>4. Head(wire[e]) = wire[e][1] /\ 1 \in 1..Len(wire[e])
    BY <2>2, <2>3
  <2>5. wire[e][1].kind = "ops"
    BY <1>1, <2>1, <2>4 DEF LinksUp
  <2> QED BY <2>2, <2>4, <2>5
<1> QED BY <1>2, <1>3 DEF Net!Connect, Net!Accept

LEMMA NetworkLinked ==
    ASSUME LinkedInv, NEW u \in User, Net!NetworkStep(u), NothingRefused,
           UNCHANGED <<mainVars, mergeVars, clock, doc, localOps>>
    PROVE  LinkedOrder'
<1>1. ASSUME NEW l \in Net!LinksOf(u),
             \/ Net!Connect(u, l) \/ Net!Accept(u, l)
             \/ Net!ReadHello(u, l) \/ Net!ReadOps(u, l) \/ Net!PeerGone(u, l)
      PROVE  LinkedOrder'
  BY <1>1, NoNewcomers, ReadOpsLinked, LeavingLinked
<1> QED BY <1>1, QueueOpLinked, SendAllLinked, LeavingLinked DEF Net!NetworkStep

LEMMA LinkedStepInv == LinkedInv /\ [Next]_vars /\ [NothingRefused]_vars => LinkedInv'
<1> SUFFICES ASSUME LinkedInv, [Next]_vars, [NothingRefused]_vars PROVE LinkedInv'
  OBVIOUS
<1>1. SavedInv'
  BY SavedStepInv DEF LinkedInv, NothingRefused
<1>2. ASSUME Next, NothingRefused PROVE LinkedOrder'
  BY <1>2, EditorLinked, NetworkLinked DEF Next
<1>3. ASSUME UNCHANGED vars PROVE LinkedOrder'
  <2>1. /\ LinkedOrder /\ SessionInv /\ OnePending
        /\ \A v \in User : UserInOrder(v)
    BY DEF LinkedInv, LinkedOrder, SavedInv
  <2>2. /\ UNCHANGED <<issued, mainPc, pending, opLog, batch, localOps>>
        /\ UNCHANGED <<inbound, outbound, syncs, netOn, link, peers, wire, arriving>>
    BY <1>3 DEF vars, editorVars, mainVars, mergeVars, bothVars, netQueues, netVars
  <2>3. \A v \in User : UserInOrder(v)' /\ Has(v)' = Has(v)
    BY <2>1, <2>2, SameUser
  <2>4. \A e \in Net!Ends : WireInOrder(e)' /\ SendsInOrder(e)'
    BY <2>1, <2>2, <2>3, SameEnd, EndFacts
  <2>5. OnePending'
    BY <2>1, <2>2 DEF OnePending
  <2>6. NumbersInTime' /\ Authors' /\ LinksUp'
    BY <2>1, <2>2, SameRest
  <2> QED BY <2>3, <2>4, <2>5, <2>6 DEF LinkedOrder
<1>4. LinkedOrder'
  BY <1>2, <1>3
<1> QED BY <1>1, <1>4 DEF LinkedInv

\* The operations of an author reach every log in order, none left out, through
\* three queues and a socket, snapshots in between and users leaving: if every
\* link is up before the first key and no queue refuses an operation (editor.cpp
\* 195-211, 256-262, network.cpp 346-375).
THEOREM NoGaps ==
    ASSUME Link = Up
    PROVE  Spec /\ [][NothingRefused]_vars => []LogsHaveNoGaps
<1>1. Init => LinkedInv
  BY SavedInitInv, LinkedInit DEF LinkedInv
<1>2. LinkedInv => LogsHaveNoGaps
  <2> SUFFICES ASSUME LinkedInv, NEW u \in User PROVE Complete(issued, opLog[u])
    BY DEF LogsHaveNoGaps, Complete, Earlier
  <2> QED BY DEF LinkedInv, LinkedOrder, UserInOrder, InOrder
<1> QED BY <1>1, <1>2, LinkedStepInv, PTL DEF Spec

\* README.md 10: "ensuring all peers converge to the same document": if every
\* two users have a link from the start and no queue refuses an operation, users
\* with nothing on its way have the same log, show the same and have saved it.
THEOREM LinkedUsersConverge ==
    ASSUME Link = Up, \A u, v \in User : u # v => <<u, v>> \in Link \/ <<v, u>> \in Link
    PROVE  Spec /\ [][NothingRefused]_vars => []ConvergedAtRest
<1>1. Init => LinkedInv
  BY SavedInitInv, LinkedInit DEF LinkedInv
<1>2. LinkedInv => ConvergedAtRest
  <2> SUFFICES ASSUME LinkedInv, AtRest, NEW u \in User, NEW v \in User, Connected(u, v)
               PROVE  /\ opLog[u] = opLog[v] /\ Text(doc[u]) = Text(doc[v])
                      /\ file[u] = file[v]
    BY DEF ConvergedAtRest
  <2>1. /\ LinkedOrder /\ SavedInv /\ SessionInv /\ LinksUp /\ Authors /\ OnePending
    BY DEF LinkedInv, LinkedOrder, SavedInv
  <2>2. netOn[u] /\ netOn[v]
    BY <2>1 DEF Connected, LinksUp
  <2>3. ASSUME NEW w \in User, netOn[w] PROVE opLog[w] = issued
    <3>1. /\ localOps[w] = <<>> /\ inbound[w] = <<>> /\ arriving[w] = <<>>
          /\ mainPc[w] # "push" /\ mergePc[w] \in {"local", "stopped"}
      BY DEF AtRest
    <3>2. batch[w] = <<>>
      BY <2>1, <3>1 DEF SavedInv, BatchOfPass
    <3>3. Has(w) = opLog[w] /\ ToSet(localOps[w]) = {} /\ ToSet(batch[w]) = {}
      BY <3>1, <3>2, NothingIsGapless DEF Has
    <3>4. ASSUME NEW o \in issued, o.id[1] = w PROVE o \in opLog[w]
      BY <2>1, <3>1, <3>3, <3>4 DEF SavedInv, OwnInReach
    <3>5. ASSUME NEW o \in issued, o.id[1] # w PROVE o \in opLog[w]
      <4> DEFINE s == o.id[1]
      <4>1. s \in User
        BY <2>1 DEF Authors
      <4>2. PICK l \in Link : l \in {<<s, w>>, <<w, s>>}
        BY <3>5, <4>1
      <4> DEFINE e == <<l, w>>
      <4>3. e \in Net!Ends /\ Sender(e) = s /\ e[2] = w
        BY <3>5, <4>2 DEF Net!Ends, Sender, Net!Other
      <4>4. SendsInOrder(e)
        BY <2>1, <4>3 DEF LinkedOrder
      <4> HIDE DEF e, s
      <4>5. /\ wire[e] = <<>> /\ outbound[s] = <<>> /\ pending[s] = <<>>
        BY <2>1, <4>1, <4>3 DEF AtRest, OnePending
      <4>6. o \in Reach(e) \cup Unsent(s) \cup ToSet(pending[s])
        BY <2>3, <4>3, <4>4 DEF SendsInOrder, s
      <4>7. Carried(<<>>, Len(<<>>)) = {} /\ Net!Live(s) = <<>>
        BY <4>5 DEF Carried, Net!Live
      <4>8. Reach(e) = opLog[w] /\ Unsent(s) = {} /\ ToSet(pending[s]) = {}
        BY <3>3, <4>3, <4>5, <4>7, NothingIsGapless DEF Reach, Unsent
      <4> QED BY <4>6, <4>8
    <3>6. opLog[w] \subseteq issued
      BY <2>1, LinkedTypes
    <3> QED BY <3>4, <3>5, <3>6
  <2>4. opLog[u] = opLog[v]
    BY <2>2, <2>3
  <2>5. \A w \in User : Shown(w) = opLog[w] /\ file[w] = Text(doc[w])
    BY <2>1, QuietIsSaved DEF AtRest
  <2>6. \A w \in User : doc[w] = Replay(Base, opLog[w])
    BY <2>1, <2>5 DEF SessionInv, EditorInv, DocumentIsReplay
  <2> QED BY <2>4, <2>5, <2>6
<1> QED BY <1>1, <1>2, LinkedStepInv, PTL DEF Spec
=============================================================================
