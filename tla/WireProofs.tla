----------------------------- MODULE WireProofs -----------------------------
(***************************************************************************)
(* Proofs about Wire, for any characters and bounds, any length of header, *)
(* any kernel buffers and any division of the bytes by recv.               *)
(***************************************************************************)
EXTENDS Wire, DocumentProofs

-----------------------------------------------------------------------------
(***************************************************************************)
(* What holds in between                                                   *)
(***************************************************************************)
\* The tokens of a text, an operation as it is typed, and the name of a byte.
Punctuation == {"{", "}", "[", "]", ",", ":", Quote, Backslash, Letter, "ops", "op_id", "ch"}
Number == {ToString(n) : n \in Nat}
Symbol == Punctuation \cup Number \cup Char
Typed == [id : Seq(Number), ch : Char]
Byte == Nat \X Int

\* delivered is a sequence, of whatever parseMessage makes.
IsSequence(s) == Len(s) \in Nat /\ s = [i \in 1..Len(s) |-> s[i]]

Types ==
    /\ blocking \in BOOLEAN /\ joined \in BOOLEAN
    /\ log \in Seq(Typed) /\ frames \in Seq(Seq(Typed))
    /\ ~joined => frames = <<>>
    /\ begun \in 0..Len(frames) /\ cut \in 0..begun
    /\ blocking => cut = 0
    /\ part \in {"idle", "header", "payload"}
    /\ toWrite \in Seq(Byte) /\ pipe \in Seq(Byte) /\ recvBuffer \in Seq(Byte)
    /\ Len(pipe) <= PipeCap
    /\ expected \in Nat /\ IsSequence(delivered)

\* The bytes that were sent and not read, in the order they are read in.
Coming == recvBuffer \o pipe

\* The byte behind a byte, the one the reader comes to and the one that is
\* sent next.
NextByte(b) == IF b[2] = Len(TextOf(b[1])) THEN <<b[1] + 1, 1 - HeaderLen>>
               ELSE <<b[1], b[2] + 1>>
Reading  == Len(delivered) + 1
ReaderAt == <<Reading, IF expected = 0 THEN 1 - HeaderLen ELSE 1>>
WriterAt == IF part = "idle" THEN <<begun + 1, 1 - HeaderLen>> ELSE toWrite[1]

\* toWrite is the end of the header or of the text of the frame; on a socket
\* that does not block, all of it.
WritesTheRest ==
    part # "idle" =>
        LET size == IF part = "header" THEN HeaderLen ELSE Len(TextOf(begun))
            last == IF part = "header" THEN 0 ELSE size
        IN  /\ begun > 0
            /\ Len(toWrite) \in 1..size
            /\ ~blocking => Len(toWrite) = size
            /\ \A i \in 1..Len(toWrite) :
                   toWrite[i] = <<begun, last - Len(toWrite) + i>>

\* The last byte of the frames that went out whole.
EndsWhole(b) == b[1] = cut - 1 /\ b[2] = Len(TextOf(b[1]))

BytesKnown ==
    \A k \in 1..Len(Coming) : /\ Coming[k][1] \in 1..begun
                              /\ Coming[k][2] \in 1 - HeaderLen..Len(TextOf(Coming[k][1]))

\* No byte is missing, none is doubled, and none out of order, before the first
\* that was discarded.
Chained ==
    \A k \in 1..Len(Coming) - 1 :
        cut = 0 \/ Coming[k][1] < cut =>
            \/ Coming[k + 1] = NextByte(Coming[k])
            \/ cut # 0 /\ EndsWhole(Coming[k])

\* What is sent next continues what was sent last.
WriterFollows ==
    IF cut = 0
    THEN WriterAt = IF Coming = <<>> THEN ReaderAt ELSE NextByte(Coming[Len(Coming)])
    ELSE Coming # <<>> => LET b == Coming[Len(Coming)]
                          IN  b[1] >= cut \/ EndsWhole(b)

\* Before the first frame that was cut, the reader knows where it is.
Sure == cut = 0 \/ Reading < cut

ReaderFollows ==
    Sure =>
        /\ Coming # <<>> => Coming[1] = ReaderAt
        /\ expected # 0 => Reading <= begun /\ expected = Len(TextOf(Reading))
        /\ cut # 0 => Coming # <<>>

Inv == /\ Types /\ WritesTheRest /\ BytesKnown /\ Chained
       /\ WriterFollows /\ ReaderFollows /\ FramesInOrder

-----------------------------------------------------------------------------
(***************************************************************************)
(* Texts                                                                   *)
(***************************************************************************)
\* Sequences put behind each other, the first n of them.
Flat(seqs) == CHOOSE f : f = [n \in 1..Len(seqs) |->
                 IF n = 1 THEN seqs[n] ELSE f[n - 1] \o seqs[n]]

LEMMA FlatExists ==
    ASSUME NEW seqs, Len(seqs) \in Nat
    PROVE  Flat(seqs) = [n \in 1..Len(seqs) |->
               IF n = 1 THEN seqs[n] ELSE Flat(seqs)[n - 1] \o seqs[n]]
<1> DEFINE F(f, m) == f = [n \in 1..m |-> IF n = 1 THEN seqs[n] ELSE f[n - 1] \o seqs[n]]
           T == {m \in Nat : \E f : F(f, m)}
<1>1. 0 \in T
  <2>1. F([n \in 1..0 |-> 0], 0)
    OBVIOUS
  <2> QED BY <2>1
<1>2. ASSUME NEW m \in T
      PROVE  m + 1 \in T
  <2>1. PICK f : F(f, m)
    OBVIOUS
  <2> DEFINE g == [n \in 1..m + 1 |->
                IF n = 1 THEN seqs[n] ELSE IF n = m + 1 THEN f[m] \o seqs[n] ELSE f[n]]
  <2>2. \A n \in 1..m : f[n] = IF n = 1 THEN seqs[n] ELSE f[n - 1] \o seqs[n]
    BY <2>1
  <2>3. \A n \in 1..m + 1 : g[n] = IF n = 1 THEN seqs[n] ELSE g[n - 1] \o seqs[n]
    <3> SUFFICES ASSUME NEW n \in 1..m + 1, n # 1
                 PROVE  g[n] = g[n - 1] \o seqs[n]
      OBVIOUS
    <3>1. n - 1 \in 1..m /\ n - 1 # m + 1
      OBVIOUS
    <3>2. g[n - 1] = f[n - 1]
      <4>1. CASE n - 1 = 1
        <5>1. f[1] = seqs[1]
          BY <2>2, <3>1, <4>1
        <5> QED BY <3>1, <4>1, <5>1
      <4>2. CASE n - 1 # 1
        BY <3>1, <4>2
      <4> QED BY <4>1, <4>2
    <3>3. CASE n = m + 1
      <4>1. g[n] = IF n = 1 THEN seqs[n] ELSE IF n = m + 1 THEN f[m] \o seqs[n] ELSE f[n]
        BY Zenon
      <4> HIDE DEF g
      <4>2. n - 1 = m
        BY <3>3
      <4> QED BY <3>2, <3>3, <4>1, <4>2
    <3>4. CASE n # m + 1
      <4>1. n \in 1..m /\ g[n] = f[n]
        BY <3>4
      <4> QED BY <2>2, <3>2, <4>1
    <3> QED BY <3>3, <3>4
  <2> HIDE DEF g
  <2>4. g = [n \in 1..m + 1 |-> g[n]]
    BY DEF g
  <2>5. F(g, m + 1)
    BY <2>3, <2>4
  <2>6. m + 1 \in Nat
    OBVIOUS
  <2> HIDE DEF F
  <2> QED BY <2>5, <2>6
<1>3. T = Nat
  <2> HIDE DEF T
  <2> QED BY <1>1, <1>2, Induct DEF T
<1>4. \E f : F(f, Len(seqs))
  BY <1>3
<1> QED BY <1>4 DEF Flat

LEMMA FlattenType ==
    ASSUME NEW S, NEW seqs \in Seq(Seq(S))
    PROVE  FlattenSeq(seqs) \in Seq(S)
<1> DEFINE f == Flat(seqs)
           T == {m \in Nat : m + 1 <= Len(seqs) => f[m + 1] \in Seq(S)}
<1>1. f = [n \in 1..Len(seqs) |-> IF n = 1 THEN seqs[n] ELSE f[n - 1] \o seqs[n]]
  <2>1. Len(seqs) \in Nat
    OBVIOUS
  <2> QED BY <2>1, FlatExists
<1>2. FlattenSeq(seqs) = IF Len(seqs) = 0 THEN seqs ELSE f[Len(seqs)]
  BY DEF FlattenSeq, Flat
<1> HIDE DEF f
<1>3. \A n \in 1..Len(seqs) : f[n] = IF n = 1 THEN seqs[n] ELSE f[n - 1] \o seqs[n]
  BY <1>1
<1>4. 0 \in T
  BY <1>3
<1>5. ASSUME NEW m \in T
      PROVE  m + 1 \in T
  <2> SUFFICES ASSUME m + 2 <= Len(seqs)
               PROVE  f[m + 2] \in Seq(S)
    OBVIOUS
  <2>1. f[m + 1] \in Seq(S) /\ m + 2 \in 1..Len(seqs) /\ m + 2 # 1
    OBVIOUS
  <2>2. f[m + 2] = f[(m + 2) - 1] \o seqs[m + 2]
    BY <1>3, <2>1, Zenon
  <2>3. seqs[m + 2] \in Seq(S) /\ (m + 2) - 1 = m + 1
    BY <2>1
  <2> QED BY <2>1, <2>2, <2>3
<1>6. T = Nat
  <2> HIDE DEF T
  <2> QED BY <1>4, <1>5, Induct DEF T
<1>7. Len(seqs) # 0 => f[Len(seqs)] \in Seq(S)
  <2> SUFFICES ASSUME Len(seqs) # 0 PROVE f[Len(seqs)] \in Seq(S)
    OBVIOUS
  <2>1. Len(seqs) - 1 \in Nat /\ (Len(seqs) - 1) + 1 = Len(seqs)
    OBVIOUS
  <2>2. Len(seqs) - 1 \in T
    BY <1>6, <2>1
  <2> QED BY <2>1, <2>2
<1>8. Len(seqs) = 0 => seqs \in Seq(S)
  OBVIOUS
<1> QED BY <1>2, <1>7, <1>8

LEMMA SeqOfMoreTokens ==
    ASSUME NEW S, NEW T, S \subseteq T, NEW q \in Seq(S)
    PROVE  q \in Seq(T)
  OBVIOUS

\* The characters of a message's own are tokens.
LEMMA Symbols ==
    /\ {"{", "}", "[", "]", ",", ":", Quote, Backslash, Letter} \subseteq Symbol
    /\ {"ops", "op_id", "ch"} \subseteq Symbol
    /\ Number \subseteq Symbol /\ Char \subseteq Symbol
BY DEF Symbol, Punctuation

LEMMA FewTokens ==
    ASSUME NEW S, NEW a \in S, NEW b \in S
    PROVE  <<a>> \in Seq(S) /\ Len(<<a>>) = 1 /\ <<a, b>> \in Seq(S)
  OBVIOUS

LEMMA MoreTokens ==
    ASSUME NEW S, NEW a \in S, NEW b \in S, NEW c \in S, NEW d \in S, NEW e \in S
    PROVE  /\ <<a, b, c, b, d, e>> \in Seq(S)
           /\ Len(<<a, b, c, b, d, e>>) = 6
  OBVIOUS

LEMMA FieldType ==
    ASSUME NEW name \in Symbol, NEW value \in Seq(Symbol)
    PROVE  Field(name, value) \in Seq(Symbol)
<1>1. Quote \in Symbol /\ ":" \in Symbol
  BY Symbols
<1>2. <<Quote, name, Quote, ":", Quote>> \in Seq(Symbol) /\ <<Quote>> \in Seq(Symbol)
  BY <1>1
<1> QED BY <1>2 DEF Field

LEMMA OpTextType ==
    ASSUME NEW op \in Typed
    PROVE  OpText(op) \in Seq(Symbol)
<1>1. JsonEscape(op.ch) \in Seq(Symbol)
  <2>1. op.ch \in Symbol /\ Backslash \in Symbol /\ Letter \in Symbol
    BY Symbols DEF Typed
  <2>2. \/ JsonEscape(op.ch) = <<Backslash, op.ch>>
        \/ JsonEscape(op.ch) = <<Backslash, Letter>>
        \/ JsonEscape(op.ch) = <<op.ch>>
    BY DEF JsonEscape
  <2>3. /\ <<Backslash, op.ch>> \in Seq(Symbol) /\ <<Backslash, Letter>> \in Seq(Symbol)
        /\ <<op.ch>> \in Seq(Symbol)
    BY <2>1, FewTokens
  <2> QED BY <2>2, <2>3
<1>2. op.id \in Seq(Symbol)
  <2>1. op.id \in Seq(Number)
    BY DEF Typed
  <2> QED BY <2>1, Symbols, SeqOfMoreTokens
<1>3. Field("op_id", op.id) \in Seq(Symbol) /\ Field("ch", JsonEscape(op.ch)) \in Seq(Symbol)
  <2>1. "op_id" \in Symbol /\ "ch" \in Symbol
    BY Symbols
  <2> QED BY <1>1, <1>2, <2>1, FieldType
<1>4. <<"{">> \in Seq(Symbol) /\ <<",">> \in Seq(Symbol) /\ <<"}">> \in Seq(Symbol)
  <2>1. "{" \in Symbol /\ "," \in Symbol /\ "}" \in Symbol
    BY Symbols
  <2> QED BY <2>1, FewTokens, Zenon
<1> DEFINE open == <<"{">>
           comma == <<",">>
           close == <<"}">>
           name == Field("op_id", op.id)
           char == Field("ch", JsonEscape(op.ch))
<1>5. OpText(op) = open \o name \o comma \o char \o close
  BY DEF OpText
<1>6. /\ open \in Seq(Symbol) /\ comma \in Seq(Symbol) /\ close \in Seq(Symbol)
      /\ name \in Seq(Symbol) /\ char \in Seq(Symbol)
  BY <1>3, <1>4
<1> HIDE DEF open, comma, close, name, char
<1> QED BY <1>5, <1>6

\* A text is a sequence of tokens and never empty.
LEMMA TextType ==
    ASSUME NEW ops \in Seq(Typed)
    PROVE  /\ SerializeMessage(ops) \in Seq(Symbol)
           /\ Len(SerializeMessage(ops)) > 0
<1> DEFINE comma == <<",">>
           put(i) == OpText(ops[i]) \o (IF i < Len(ops) THEN comma ELSE <<>>)
           each == [i \in 1..Len(ops) |-> put(i)]
           open == <<"{", Quote, "ops", Quote, ":", "[">>
           close == <<"]", "}">>
<1>1. ASSUME NEW i \in 1..Len(ops)
      PROVE  put(i) \in Seq(Symbol)
  <2>1. OpText(ops[i]) \in Seq(Symbol)
    BY OpTextType
  <2>2. "," \in Symbol
    BY Symbols
  <2>3. comma \in Seq(Symbol)
    BY <2>2, FewTokens, Zenon
  <2> HIDE DEF comma
  <2> QED BY <2>1, <2>3
<1> HIDE DEF put, comma
<1>2. each \in Seq(Seq(Symbol))
  BY <1>1
<1>3. FlattenSeq(each) \in Seq(Symbol)
  BY <1>2, FlattenType
<1>4. SerializeMessage(ops) = open \o FlattenSeq(each) \o close
  BY DEF SerializeMessage, put, comma
<1>5. open \in Seq(Symbol) /\ close \in Seq(Symbol) /\ Len(open) = 6
  <2>1. /\ "{" \in Symbol /\ "}" \in Symbol /\ "[" \in Symbol /\ "]" \in Symbol
        /\ Quote \in Symbol /\ ":" \in Symbol /\ "ops" \in Symbol
    BY Symbols
  <2>2. open \in Seq(Symbol) /\ Len(open) = 6
    BY <2>1, MoreTokens, Zenon
  <2>3. close \in Seq(Symbol)
    BY <2>1, FewTokens, Zenon
  <2> QED BY <2>2, <2>3
<1> HIDE DEF each, open, close
<1> QED BY <1>3, <1>4, <1>5

-----------------------------------------------------------------------------
(***************************************************************************)
(* Bytes at the two ends of a sequence                                     *)
(***************************************************************************)
LEMMA FrontAndBack ==
    ASSUME NEW S, NEW p \in Seq(S), NEW n \in 0..Len(p)
    PROVE  LET a == SubSeq(p, 1, n)
               b == SubSeq(p, n + 1, Len(p))
           IN  /\ a \in Seq(S) /\ Len(a) = n /\ \A k \in 1..n : a[k] = p[k]
               /\ b \in Seq(S) /\ Len(b) = Len(p) - n
               /\ \A k \in 1..Len(b) : b[k] = p[k + n]
<1>1. LET a == SubSeq(p, 1, n)
      IN  a \in Seq(S) /\ Len(a) = n /\ \A k \in 1..n : a[k] = p[k]
  OBVIOUS
<1>2. LET b == SubSeq(p, n + 1, Len(p))
      IN  /\ b \in Seq(S) /\ Len(b) = Len(p) - n
          /\ \A k \in 1..Len(b) : b[k] = p[k + n]
  OBVIOUS
<1> QED BY <1>1, <1>2

\* Sequences of bytes without their first n, and with the first n of others
\* behind them.
Without(t, s, n) ==
    /\ t \in Seq(Byte) /\ Len(t) = Len(s) - n
    /\ \A k \in 1..Len(t) : t[k] = s[k + n]

Longer(t, s, w, n) ==
    /\ t \in Seq(Byte) /\ Len(t) = Len(s) + n
    /\ \A k \in 1..Len(t) : t[k] = IF k <= Len(s) THEN s[k] ELSE w[k - Len(s)]

\* The reader takes from the front.
LEMMA TakeFirst ==
    ASSUME NEW x \in Seq(Byte), NEW p \in Seq(Byte), NEW n \in 0..Len(x)
    PROVE  /\ SubSeq(x, n + 1, Len(x)) \in Seq(Byte)
           /\ Without(SubSeq(x, n + 1, Len(x)) \o p, x \o p, n)
<1> DEFINE rest == SubSeq(x, n + 1, Len(x))
<1>1. /\ rest \in Seq(Byte) /\ Len(rest) = Len(x) - n
      /\ \A k \in 1..Len(rest) : rest[k] = x[k + n]
  BY FrontAndBack
<1> HIDE DEF rest
<1>2. rest \o p \in Seq(Byte) /\ Len(rest \o p) = Len(rest) + Len(p)
  BY <1>1, ConcatProperties
<1>3. \A k \in 1..Len(rest) + Len(p) :
         (rest \o p)[k] = IF k <= Len(rest) THEN rest[k] ELSE p[k - Len(rest)]
  BY <1>1, ConcatProperties
<1>4. /\ Len(x \o p) = Len(x) + Len(p)
      /\ \A k \in 1..Len(x) + Len(p) :
            (x \o p)[k] = IF k <= Len(x) THEN x[k] ELSE p[k - Len(x)]
  BY ConcatProperties
<1>5. ASSUME NEW k \in 1..Len(rest \o p)
      PROVE  (rest \o p)[k] = (x \o p)[k + n]
  <2>1. k + n \in 1..Len(x) + Len(p) /\ k \in 1..Len(rest) + Len(p)
    BY <1>1, <1>2
  <2>2. (x \o p)[k + n] = IF k + n <= Len(x) THEN x[k + n] ELSE p[(k + n) - Len(x)]
    BY <1>4, <2>1
  <2>3. (rest \o p)[k] = IF k <= Len(rest) THEN rest[k] ELSE p[k - Len(rest)]
    BY <1>3, <2>1
  <2>4. k <= Len(rest) <=> k + n <= Len(x)
    BY <1>1
  <2>5. CASE k <= Len(rest)
    BY <1>1, <2>2, <2>3, <2>4, <2>5
  <2>6. CASE ~(k <= Len(rest))
    <3>1. (k + n) - Len(x) = k - Len(rest)
      BY <1>1
    <3> QED BY <2>2, <2>3, <2>4, <2>6, <3>1
  <2> QED BY <2>5, <2>6
<1>6. Len(rest \o p) = Len(x \o p) - n
  BY <1>1, <1>2, <1>4
<1> QED BY <1>1, <1>2, <1>5, <1>6 DEF Without, rest

\* recv moves bytes on, and changes nothing in their order.
LEMMA MoveOn ==
    ASSUME NEW x \in Seq(Byte), NEW p \in Seq(Byte), NEW n \in 0..Len(p)
    PROVE  /\ x \o SubSeq(p, 1, n) \in Seq(Byte)
           /\ SubSeq(p, n + 1, Len(p)) \in Seq(Byte)
           /\ (x \o SubSeq(p, 1, n)) \o SubSeq(p, n + 1, Len(p)) = x \o p
<1> DEFINE a == SubSeq(p, 1, n)
           b == SubSeq(p, n + 1, Len(p))
           y == x \o a
<1>1. /\ a \in Seq(Byte) /\ Len(a) = n /\ \A k \in 1..n : a[k] = p[k]
      /\ b \in Seq(Byte) /\ Len(b) = Len(p) - n /\ \A k \in 1..Len(b) : b[k] = p[k + n]
  BY FrontAndBack
<1> HIDE DEF a, b
<1>2. /\ y \in Seq(Byte) /\ Len(y) = Len(x) + n
      /\ \A k \in 1..Len(x) + n : y[k] = IF k <= Len(x) THEN x[k] ELSE a[k - Len(x)]
  <2>1. /\ x \o a \in Seq(Byte) /\ Len(x \o a) = Len(x) + Len(a)
        /\ \A k \in 1..Len(x) + Len(a) :
              (x \o a)[k] = IF k <= Len(x) THEN x[k] ELSE a[k - Len(x)]
    BY <1>1, ConcatProperties
  <2> QED BY <1>1, <2>1
<1> HIDE DEF y
<1> DEFINE l == y \o b
           r == x \o p
<1>3. /\ l \in Seq(Byte) /\ Len(l) = (Len(x) + n) + Len(b)
      /\ \A k \in 1..Len(l) :
            l[k] = IF k <= Len(x) + n THEN y[k] ELSE b[k - (Len(x) + n)]
  <2>1. /\ y \o b \in Seq(Byte) /\ Len(y \o b) = Len(y) + Len(b)
        /\ \A k \in 1..Len(y) + Len(b) :
              (y \o b)[k] = IF k <= Len(y) THEN y[k] ELSE b[k - Len(y)]
    <3>1. y \in Seq(Byte) /\ b \in Seq(Byte)
      BY <1>1, <1>2
    <3> QED BY <3>1, ConcatProperties
  <2> QED BY <1>2, <2>1
<1>4. /\ r \in Seq(Byte) /\ Len(r) = Len(x) + Len(p)
      /\ \A k \in 1..Len(r) : r[k] = IF k <= Len(x) THEN x[k] ELSE p[k - Len(x)]
  OBVIOUS
<1> HIDE DEF l, r
<1>5. Len(l) = Len(r)
  BY <1>1, <1>3, <1>4
<1>6. ASSUME NEW k \in 1..Len(l)
      PROVE  l[k] = r[k]
  <2>1. r[k] = IF k <= Len(x) THEN x[k] ELSE p[k - Len(x)]
    BY <1>4, <1>5
  <2>2. CASE k <= Len(x)
    <3>1. k \in 1..Len(x) + n /\ k <= Len(x) + n
      BY <2>2
    <3> QED BY <1>2, <1>3, <2>1, <2>2, <3>1
  <2>3. CASE ~(k <= Len(x)) /\ k <= Len(x) + n
    <3>1. k \in 1..Len(x) + n /\ k - Len(x) \in 1..n
      BY <2>3
    <3>2. l[k] = a[k - Len(x)]
      BY <1>2, <1>3, <2>3, <3>1
    <3> QED BY <1>1, <2>1, <2>3, <3>1, <3>2
  <2>4. CASE ~(k <= Len(x) + n)
    <3>1. /\ k - (Len(x) + n) \in 1..Len(b) /\ ~(k <= Len(x))
          /\ (k - (Len(x) + n)) + n = k - Len(x)
      BY <1>1, <1>3, <2>4
    <3>2. l[k] = b[k - (Len(x) + n)]
      BY <1>3, <2>4
    <3> QED BY <1>1, <2>1, <3>1, <3>2
  <2> QED BY <2>2, <2>3, <2>4
<1>7. l = r
  BY <1>3, <1>4, <1>5, <1>6
<1> QED BY <1>1, <1>2, <1>7 DEF l, r, y, a, b

\* What is sent comes behind all that is on its way.
LEMMA PutBehind ==
    ASSUME NEW x \in Seq(Byte), NEW p \in Seq(Byte), NEW w \in Seq(Byte),
           NEW n \in 0..Len(w)
    PROVE  /\ p \o SubSeq(w, 1, n) \in Seq(Byte)
           /\ Longer(x \o (p \o SubSeq(w, 1, n)), x \o p, w, n)
<1> DEFINE s == SubSeq(w, 1, n)
           q == x \o p
           t == p \o s
<1>1. s \in Seq(Byte) /\ Len(s) = n /\ \A k \in 1..n : s[k] = w[k]
  BY FrontAndBack
<1> HIDE DEF s
<1>2. /\ q \in Seq(Byte) /\ Len(q) = Len(x) + Len(p)
      /\ \A k \in 1..Len(q) : q[k] = IF k <= Len(x) THEN x[k] ELSE p[k - Len(x)]
  OBVIOUS
<1>3. /\ t \in Seq(Byte) /\ Len(t) = Len(p) + n
      /\ \A k \in 1..Len(t) : t[k] = IF k <= Len(p) THEN p[k] ELSE s[k - Len(p)]
  <2>1. /\ p \o s \in Seq(Byte) /\ Len(p \o s) = Len(p) + Len(s)
        /\ \A k \in 1..Len(p) + Len(s) :
              (p \o s)[k] = IF k <= Len(p) THEN p[k] ELSE s[k - Len(p)]
    BY <1>1, ConcatProperties
  <2> QED BY <1>1, <2>1
<1> HIDE DEF q, t
<1> DEFINE after == x \o t
<1>4. /\ after \in Seq(Byte) /\ Len(after) = Len(x) + Len(t)
      /\ \A k \in 1..Len(after) : after[k] = IF k <= Len(x) THEN x[k] ELSE t[k - Len(x)]
  <2>1. /\ after \in Seq(Byte) /\ Len(after) = Len(x) + Len(t)
        /\ \A k \in 1..Len(x) + Len(t) : after[k] = IF k <= Len(x) THEN x[k] ELSE t[k - Len(x)]
    BY <1>3, ConcatProperties
  <2> HIDE DEF after
  <2> QED BY <2>1
<1> HIDE DEF after
<1>5. Len(after) = Len(q) + n
  BY <1>2, <1>3, <1>4
<1>6. ASSUME NEW k \in 1..Len(after)
      PROVE  after[k] = IF k <= Len(q) THEN q[k] ELSE w[k - Len(q)]
  <2>1. CASE k <= Len(x)
    <3>1. k \in 1..Len(q) /\ k <= Len(q)
      BY <1>2, <2>1
    <3> QED BY <1>2, <1>4, <2>1, <3>1
  <2>2. CASE ~(k <= Len(x)) /\ k <= Len(q)
    <3>1. k - Len(x) \in 1..Len(t) /\ k - Len(x) <= Len(p) /\ k \in 1..Len(q)
      BY <1>2, <1>3, <2>2
    <3> QED BY <1>2, <1>3, <1>4, <2>2, <3>1
  <2>3. CASE ~(k <= Len(q))
    <3>1. /\ k - Len(x) \in 1..Len(t) /\ ~(k - Len(x) <= Len(p)) /\ ~(k <= Len(x))
          /\ (k - Len(x)) - Len(p) = k - Len(q) /\ k - Len(q) \in 1..n
      BY <1>2, <1>3, <1>4, <1>5, <2>3
    <3>2. after[k] = t[k - Len(x)]
      BY <1>4, <3>1
    <3>3. t[k - Len(x)] = s[(k - Len(x)) - Len(p)]
      BY <1>3, <3>1
    <3>4. s[k - Len(q)] = w[k - Len(q)]
      BY <1>1, <3>1
    <3> QED BY <2>3, <3>1, <3>2, <3>3, <3>4
  <2> QED BY <2>1, <2>2, <2>3
<1> QED BY <1>3, <1>4, <1>5, <1>6 DEF Longer, s, q, t, after

\* Something more behind a sequence.
LEMMA AppendAny ==
    ASSUME NEW s, IsSequence(s), NEW x
    PROVE  /\ IsSequence(Append(s, x)) /\ Len(Append(s, x)) = Len(s) + 1
           /\ \A i \in 1..Len(s) : Append(s, x)[i] = s[i]
           /\ Append(s, x)[Len(s) + 1] = x
<1> DEFINE S == {s[i] : i \in 1..Len(s)} \cup {x}
<1>1. Len(s) \in Nat /\ s = [i \in 1..Len(s) |-> s[i]] /\ \A i \in 1..Len(s) : s[i] \in S
  BY DEF IsSequence
<1>2. x \in S
  OBVIOUS
<1> HIDE DEF S
<1>3. s \in Seq(S)
  BY <1>1
<1>4. /\ Append(s, x) \in Seq(S) /\ Len(Append(s, x)) = Len(s) + 1
      /\ \A i \in 1..Len(s) : Append(s, x)[i] = s[i]
      /\ Append(s, x)[Len(s) + 1] = x
  BY <1>2, <1>3
<1>5. IsSequence(Append(s, x))
  <2> DEFINE t == Append(s, x)
  <2>1. t \in Seq(S)
    BY <1>4
  <2> HIDE DEF t
  <2>2. Len(t) \in Nat /\ t = [i \in 1..Len(t) |-> t[i]]
    BY <2>1
  <2> QED BY <2>2 DEF IsSequence, t
<1> QED BY <1>4, <1>5

-----------------------------------------------------------------------------
(***************************************************************************)
(* The bytes on their way                                                  *)
(***************************************************************************)
LEMMA Bounds ==
    /\ HeaderLen \in Nat \ {0} /\ PipeCap \in Nat \ {0} /\ ReadSize \in Nat \ {0}
    /\ Chunks \subseteq Nat \ {0} /\ MisreadLen \subseteq Nat \ {0}
  BY WireAssumption

LEMMA FrameText ==
    ASSUME Types, NEW f \in 1..Len(frames)
    PROVE  /\ Len(TextOf(f)) \in Nat \ {0}
           /\ TextOf(f) = [i \in 1..Len(TextOf(f)) |-> TextOf(f)[i]]
<1>1. frames[f] \in Seq(Typed)
  BY DEF Types
<1>2. TextOf(f) \in Seq(Symbol) /\ Len(TextOf(f)) > 0
  BY <1>1, TextType DEF TextOf
<1> HIDE DEF TextOf
<1> QED BY <1>2

LEMMA ComingType ==
    ASSUME Types
    PROVE  /\ Coming \in Seq(Byte) /\ Len(Coming) = Len(recvBuffer) + Len(pipe)
           /\ Len(Coming) \in Nat /\ Len(recvBuffer) \in Nat /\ Len(pipe) \in Nat
           /\ Coming = <<>> <=> Len(Coming) = 0
           /\ \A k \in 1..Len(Coming) : Coming[k] \in Byte
           /\ \A k \in 1..Len(recvBuffer) : recvBuffer[k] = Coming[k]
<1>1. recvBuffer \in Seq(Byte) /\ pipe \in Seq(Byte)
  BY DEF Types
<1>2. /\ Coming \in Seq(Byte) /\ Len(Coming) = Len(recvBuffer) + Len(pipe)
      /\ \A k \in 1..Len(recvBuffer) + Len(pipe) :
            Coming[k] = IF k <= Len(recvBuffer) THEN recvBuffer[k]
                        ELSE pipe[k - Len(recvBuffer)]
  BY <1>1, ConcatProperties DEF Coming
<1> HIDE DEF Coming
<1> QED BY <1>1, <1>2

\* A byte that is on its way belongs to a frame there is.
LEMMA ByteIsKnown ==
    ASSUME Types, BytesKnown, NEW k \in 1..Len(Coming)
    PROVE  /\ Coming[k] = <<Coming[k][1], Coming[k][2]>>
           /\ Coming[k][1] \in 1..begun /\ Coming[k][1] \in 1..Len(frames)
           /\ Coming[k][2] \in Int
           /\ 1 - HeaderLen <= Coming[k][2] /\ Coming[k][2] <= Len(TextOf(Coming[k][1]))
           /\ Len(TextOf(Coming[k][1])) \in Nat \ {0}
<1>1. Coming[k] \in Byte
  BY ComingType
<1>2. Coming[k][1] \in 1..begun /\ Coming[k][1] \in 1..Len(frames)
  BY DEF BytesKnown, Types
<1>3. Len(TextOf(Coming[k][1])) \in Nat \ {0}
  BY <1>2, FrameText
<1>4. Coming[k][2] \in 1 - HeaderLen..Len(TextOf(Coming[k][1]))
  BY DEF BytesKnown
<1> HIDE DEF Coming
<1>5. Coming[k] = <<Coming[k][1], Coming[k][2]>>
  BY <1>1 DEF Byte
<1> QED BY <1>2, <1>3, <1>4, <1>5, Bounds

\* As long as the reader knows where it is, what comes first is the rest of the
\* frame it is reading, byte by byte.
LEMMA FirstIsTheFrame ==
    ASSUME Types, BytesKnown, Chained, ReaderFollows, Sure, Coming # <<>>
    PROVE  /\ Reading \in 1..begun /\ Reading \in 1..Len(frames)
           /\ \A k \in 1..Len(Coming) :
                 k + ReaderAt[2] - 1 <= Len(TextOf(Reading))
                    => Coming[k] = <<Reading, k + ReaderAt[2] - 1>>
<1> DEFINE r == Reading
           o == ReaderAt[2]
           size == Len(TextOf(r))
           T == {m \in Nat : m + 1 <= Len(Coming) /\ m + o <= size
                                => Coming[m + 1] = <<r, m + o>>}
<1>1. Len(Coming) \in Nat \ {0} /\ Len(Coming) >= 1 /\ 1 \in 1..Len(Coming)
  BY ComingType
<1>2. Coming[1] = <<r, o>> /\ o \in Int /\ (o = 1 \/ o = 1 - HeaderLen)
  BY Bounds DEF ReaderFollows, ReaderAt
<1>3. r \in 1..begun /\ r \in 1..Len(frames) /\ size \in Nat \ {0}
  BY <1>1, <1>2, ByteIsKnown
<1>4. cut = 0 \/ r < cut
  BY DEF Sure
<1> HIDE DEF r, o
<1>5. 0 \in T
  BY <1>2
<1>6. ASSUME NEW m \in T
      PROVE  m + 1 \in T
  <2> SUFFICES ASSUME m + 2 <= Len(Coming), m + 1 + o <= size
               PROVE  Coming[m + 2] = <<r, m + 1 + o>>
    OBVIOUS
  <2>1. Coming[m + 1] = <<r, m + o>>
    BY <1>1, <1>2, <1>3
  <2>2. m + 1 \in 1..Len(Coming) - 1 /\ (m + 1) + 1 = m + 2 /\ m + o # size
    BY <1>1, <1>2, <1>3
  <2>3. ~EndsWhole(Coming[m + 1])
    BY <2>1, <2>2 DEF EndsWhole
  <2>4. Coming[m + 2] = NextByte(Coming[m + 1])
    BY <1>4, <2>1, <2>2, <2>3 DEF Chained
  <2>5. NextByte(<<r, m + o>>) = <<r, m + o + 1>>
    BY <2>2 DEF NextByte
  <2> QED BY <1>2, <2>1, <2>4, <2>5
<1>7. T = Nat
  <2> HIDE DEF T
  <2> QED BY <1>5, <1>6, Induct DEF T
<1>8. ASSUME NEW k \in 1..Len(Coming), k + o - 1 <= size
      PROVE  Coming[k] = <<r, k + o - 1>>
  <2>1. k - 1 \in T
    BY <1>7
  <2> QED BY <1>2, <1>8, <2>1
<1> QED BY <1>3, <1>8 DEF r, o

-----------------------------------------------------------------------------
(***************************************************************************)
(* What the reader does                                                    *)
(***************************************************************************)
LEMMA SameFrames ==
    ASSUME frames' = frames
    PROVE  /\ \A f : TextOf(f)' = TextOf(f)
           /\ \A b : NextByte(b)' = NextByte(b)
  BY DEF TextOf, NextByte

\* Taking bytes from the front leaves the others as they were.
LEMMA TakenFromFront ==
    ASSUME Types, BytesKnown, Chained, NEW n \in 1..Len(recvBuffer),
           recvBuffer' = SubSeq(recvBuffer, n + 1, Len(recvBuffer)),
           UNCHANGED <<blocking, senderVars, pipe>>
    PROVE  /\ recvBuffer' \in Seq(Byte) /\ Coming' \in Seq(Byte)
           /\ Len(Coming') = Len(Coming) - n
           /\ \A k \in 1..Len(Coming') : Coming'[k] = Coming[k + n]
           /\ BytesKnown' /\ Chained'
<1> USE DEF senderVars
<1>1. recvBuffer \in Seq(Byte) /\ pipe \in Seq(Byte) /\ n \in 0..Len(recvBuffer)
      /\ pipe' = pipe /\ Len(recvBuffer) \in Nat
  BY DEF Types
<1>2. /\ recvBuffer' \in Seq(Byte) /\ Coming' \in Seq(Byte)
      /\ Len(Coming') = Len(Coming) - n
      /\ \A k \in 1..Len(Coming') : Coming'[k] = Coming[k + n]
  <2>1. recvBuffer' \in Seq(Byte) /\ Without(recvBuffer' \o pipe, recvBuffer \o pipe, n)
    BY <1>1, TakeFirst
  <2> QED BY <1>1, <2>1 DEF Coming, Without
<1>3. Len(Coming) \in Nat
  BY ComingType
<1> HIDE DEF Coming
<1>4. ASSUME NEW k \in 1..Len(Coming')
      PROVE  k + n \in 1..Len(Coming)
  BY <1>2, <1>3
<1>5. BytesKnown'
  BY <1>2, <1>4, SameFrames DEF BytesKnown
<1>6. Chained'
  <2> SUFFICES ASSUME NEW k \in 1..Len(Coming') - 1,
                      cut = 0 \/ Coming'[k][1] < cut
               PROVE  \/ Coming'[k + 1] = NextByte(Coming'[k])
                      \/ cut # 0 /\ EndsWhole(Coming'[k])
    BY SameFrames DEF Chained, EndsWhole
  <2>1. k + n \in 1..Len(Coming) - 1 /\ (k + n) + 1 = (k + 1) + n
    BY <1>2, <1>3
  <2>2. Coming'[k] = Coming[k + n] /\ Coming'[k + 1] = Coming[(k + n) + 1]
    BY <1>2, <1>3, <2>1
  <2> QED BY <2>1, <2>2 DEF Chained
<1> QED BY <1>2, <1>5, <1>6

LEMMA RecvInv ==
    ASSUME Inv, Recv
    PROVE  Inv'
<1> USE DEF Inv
<1>1. PICK n \in 1..Len(pipe) : /\ recvBuffer' = recvBuffer \o SubSeq(pipe, 1, n)
                                /\ pipe' = SubSeq(pipe, n + 1, Len(pipe))
  BY DEF Recv
<1>2. /\ frames' = frames /\ cut' = cut /\ begun' = begun /\ part' = part
      /\ toWrite' = toWrite /\ expected' = expected /\ delivered' = delivered
      /\ blocking' = blocking /\ joined' = joined /\ log' = log
  BY DEF Recv, senderVars
<1>3. /\ recvBuffer \in Seq(Byte) /\ pipe \in Seq(Byte) /\ Len(pipe) <= PipeCap
      /\ n \in 0..Len(pipe)
  BY DEF Types
<1>4. /\ recvBuffer' \in Seq(Byte) /\ pipe' \in Seq(Byte)
      /\ Len(pipe') = Len(pipe) - n /\ Coming' = Coming
  <2>1. recvBuffer' \in Seq(Byte) /\ pipe' \in Seq(Byte)
        /\ recvBuffer' \o pipe' = recvBuffer \o pipe
    BY <1>1, <1>3, MoveOn
  <2>2. Len(pipe') = Len(pipe) - n
    BY <1>1, <1>3
  <2> QED BY <2>1, <2>2 DEF Coming
<1>5. Types'
  <2>1. Len(pipe') <= PipeCap
    BY <1>3, <1>4, Bounds
  <2> QED BY <1>2, <1>4, <2>1 DEF Types, IsSequence
<1> HIDE DEF Coming
<1>6. BytesKnown' /\ Chained'
  BY <1>2, <1>4, SameFrames DEF BytesKnown, Chained, EndsWhole
<1>7. WritesTheRest'
  BY <1>2, SameFrames DEF WritesTheRest
<1>8. Reading' = Reading /\ ReaderAt' = ReaderAt /\ WriterAt' = WriterAt
  BY <1>2 DEF Reading, ReaderAt, WriterAt
<1>9. WriterFollows'
  BY <1>2, <1>4, <1>8, SameFrames DEF WriterFollows, EndsWhole
<1>10. ReaderFollows'
  BY <1>2, <1>4, <1>8, SameFrames DEF ReaderFollows, Sure
<1>11. FramesInOrder'
  BY <1>2, SameFrames DEF FramesInOrder, ReadWhole, Whole
<1> QED BY <1>5, <1>6, <1>7, <1>9, <1>10, <1>11

\* A header that the reader can be sure of is the header of the frame, and the
\* first byte of its text is behind it.
LEMMA ReadHeaderInv ==
    ASSUME Inv, ReadHeader
    PROVE  Inv'
<1> USE DEF Inv
<1> DEFINE n == HeaderLen
           r == Reading
           size == Len(TextOf(r))
           bytes == SubSeq(recvBuffer, 1, HeaderLen)
<1>1. /\ expected = 0 /\ Len(recvBuffer) >= n
      /\ expected' \in IF bytes = Header(bytes[1][1]) THEN {Len(TextOf(bytes[1][1]))}
                       ELSE MisreadLen
      /\ recvBuffer' = SubSeq(recvBuffer, n + 1, Len(recvBuffer))
      /\ delivered' = delivered /\ pipe' = pipe
  <2>1. Len(recvBuffer) \in Nat
    BY ComingType
  <2> QED BY <2>1, Bounds DEF ReadHeader, NeedsBytes
<1>2. /\ frames' = frames /\ cut' = cut /\ begun' = begun /\ part' = part
      /\ toWrite' = toWrite /\ blocking' = blocking /\ joined' = joined /\ log' = log
  BY DEF ReadHeader, senderVars
<1>3. n \in Nat \ {0} /\ n \in 1..Len(recvBuffer) /\ Len(recvBuffer) \in Nat
  BY <1>1, Bounds, ComingType
<1>4. /\ recvBuffer' \in Seq(Byte) /\ Coming' \in Seq(Byte)
      /\ Len(Coming') = Len(Coming) - n
      /\ \A k \in 1..Len(Coming') : Coming'[k] = Coming[k + n]
      /\ BytesKnown' /\ Chained'
  BY <1>1, <1>2, <1>3, TakenFromFront DEF senderVars
<1>5. /\ Len(Coming) \in Nat /\ Len(Coming) >= n /\ Coming # <<>>
      /\ \A k \in 1..n : recvBuffer[k] = Coming[k]
      /\ Coming' = <<>> <=> Len(Coming') = 0
  BY <1>3, <1>4, ComingType
<1>6. Len(bytes) = n /\ \A k \in 1..n : bytes[k] = Coming[k]
  <2>1. recvBuffer \in Seq(Byte) /\ n \in 0..Len(recvBuffer)
    BY <1>3 DEF Types
  <2> QED BY <1>5, <2>1, FrontAndBack
<1> HIDE DEF Coming
<1>7. expected' \in Nat \ {0}
  <2>1. 1 \in 1..Len(Coming) /\ bytes[1] = Coming[1]
    BY <1>3, <1>5, <1>6
  <2>2. Len(TextOf(bytes[1][1])) \in Nat \ {0}
    BY <2>1, ByteIsKnown
  <2> HIDE DEF bytes
  <2> QED BY <1>1, <2>2, Bounds
<1>8. Reading' = r /\ ReaderAt' = <<r, 1>> /\ WriterAt' = WriterAt /\ ReaderAt[2] = 1 - n
  BY <1>1, <1>2, <1>7 DEF Reading, ReaderAt, WriterAt
<1>9. ASSUME Sure
      PROVE  /\ r \in 1..begun /\ size \in Nat \ {0} /\ expected' = size
             /\ \A k \in 1..Len(Coming) : k - n <= size => Coming[k] = <<r, k - n>>
  <2>1. /\ r \in 1..begun /\ r \in 1..Len(frames)
        /\ \A k \in 1..Len(Coming) :
              k + ReaderAt[2] - 1 <= size => Coming[k] = <<r, k + ReaderAt[2] - 1>>
    BY <1>5, <1>9, FirstIsTheFrame
  <2>2. size \in Nat \ {0}
    BY <2>1, FrameText
  <2> HIDE DEF r, size
  <2>3. \A k \in 1..Len(Coming) : k - n <= size => Coming[k] = <<r, k - n>>
    <3> SUFFICES ASSUME NEW k \in 1..Len(Coming), k - n <= size
                 PROVE  Coming[k] = <<r, k - n>>
      OBVIOUS
    <3>1. k + ReaderAt[2] - 1 = k - n
      BY <1>3, <1>8
    <3> QED BY <2>1, <3>1
  <2>4. \A k \in 1..n : bytes[k] = <<r, k - n>>
    BY <1>3, <1>5, <1>6, <2>2, <2>3
  <2>5. bytes = Header(r) /\ bytes[1][1] = r
    <3>1. bytes \in Seq(Byte) /\ 1 \in 1..n
      BY <1>3, FrontAndBack DEF Types
    <3> HIDE DEF bytes
    <3>2. bytes = [k \in 1..n |-> bytes[k]]
      BY <1>6, <3>1
    <3> QED BY <2>4, <3>1, <3>2 DEF Header
  <2>6. expected' = Len(TextOf(r))
    <3> HIDE DEF bytes
    <3> QED BY <1>1, <2>5
  <2> QED BY <2>1, <2>2, <2>3, <2>6 DEF size
<1> HIDE DEF bytes
<1>10. Types'
  BY <1>1, <1>2, <1>4, <1>7 DEF Types, IsSequence
<1>11. WritesTheRest'
  BY <1>2, SameFrames DEF WritesTheRest
<1>12. FramesInOrder'
  BY <1>1, <1>2, SameFrames DEF FramesInOrder, ReadWhole, Whole
<1> HIDE DEF r, n, size
<1>13. ASSUME Coming' = <<>>
       PROVE  Len(Coming) = n /\ Coming' = <<>>
  BY <1>3, <1>4, <1>5, <1>13
<1>14. ASSUME Coming' # <<>>
       PROVE  Len(Coming') \in 1..Len(Coming) /\ Coming'[Len(Coming')] = Coming[Len(Coming)]
  BY <1>3, <1>4, <1>5, <1>14
<1>15. ASSUME Sure, Len(Coming) = n
       PROVE  Coming[n] = <<r, 0>> /\ NextByte(Coming[n]) = <<r, 1>>
              /\ ~EndsWhole(Coming[n])
  <2>1. Coming[n] = <<r, 0>> /\ size # 0
    <3>1. n \in 1..Len(Coming) /\ n - n = 0 /\ 0 <= size /\ size # 0
      BY <1>3, <1>9, <1>15
    <3> QED BY <1>9, <1>15, <3>1
  <2> QED BY <2>1 DEF NextByte, EndsWhole, size
<1>16. WriterFollows'
  <2>1. CASE cut = 0
    <3>1. Sure
      BY <2>1 DEF Sure
    <3>2. WriterAt = NextByte(Coming[Len(Coming)])
      BY <1>5, <2>1 DEF WriterFollows
    <3>3. CASE Coming' = <<>>
      BY <1>2, <1>8, <1>13, <1>15, <2>1, <3>1, <3>2, <3>3 DEF WriterFollows
    <3>4. CASE Coming' # <<>>
      BY <1>2, <1>8, <1>14, <2>1, <3>2, <3>4, SameFrames DEF WriterFollows
    <3> QED BY <3>3, <3>4
  <2>2. CASE cut # 0
    BY <1>2, <1>5, <1>14, <2>2, SameFrames DEF WriterFollows, EndsWhole
  <2> QED BY <2>1, <2>2
<1>17. ReaderFollows'
  <2> SUFFICES ASSUME Sure
               PROVE  /\ Coming' # <<>> => Coming'[1] = <<r, 1>>
                      /\ r <= begun /\ expected' = size
                      /\ cut # 0 => Coming' # <<>>
    BY <1>2, <1>8, SameFrames DEF ReaderFollows, Sure, size, r
  <2>1. ASSUME Coming' # <<>> PROVE Coming'[1] = <<r, 1>>
    <3>1. 1 \in 1..Len(Coming') /\ 1 + n \in 1..Len(Coming) /\ (1 + n) - n = 1
      BY <1>3, <1>4, <1>5, <2>1
    <3>2. 1 <= size
      BY <1>9
    <3>3. Coming[1 + n] = <<r, 1>>
      BY <1>9, <3>1, <3>2
    <3> QED BY <1>4, <3>1, <3>3
  <2>2. ASSUME cut # 0, Coming' = <<>> PROVE FALSE
    <3>1. Len(Coming) = n /\ Coming[n] = <<r, 0>> /\ ~EndsWhole(Coming[n])
      BY <1>13, <1>15, <2>2
    <3>2. Coming[n][1] >= cut
      BY <1>5, <2>2, <3>1 DEF WriterFollows
    <3>3. r < cut /\ r \in Nat /\ cut \in Nat
      BY <1>9, <2>2 DEF Sure, r, Types
    <3> QED BY <3>1, <3>2, <3>3
  <2> QED BY <1>9, <2>1, <2>2
<1> QED BY <1>4, <1>10, <1>11, <1>12, <1>16, <1>17

\* A text that the reader can be sure of is the text of the frame.
LEMMA ReadPayloadInv ==
    ASSUME Inv, ReadPayload
    PROVE  Inv'
<1> USE DEF Inv
<1> DEFINE n == expected
           r == Reading
           size == Len(TextOf(r))
           bytes == SubSeq(recvBuffer, 1, expected)
           text == [i \in DOMAIN bytes |-> Token(bytes[i])]
<1>1. /\ n # 0 /\ Len(recvBuffer) >= n
      /\ delivered' = Append(delivered, ParseMessage(text))
      /\ recvBuffer' = SubSeq(recvBuffer, n + 1, Len(recvBuffer))
      /\ expected' = 0 /\ pipe' = pipe
  <2>1. Len(recvBuffer) \in Nat /\ expected \in Nat
    BY ComingType DEF Types
  <2> QED BY <2>1 DEF ReadPayload, NeedsBytes
<1>2. /\ frames' = frames /\ cut' = cut /\ begun' = begun /\ part' = part
      /\ toWrite' = toWrite /\ blocking' = blocking /\ joined' = joined /\ log' = log
  BY DEF ReadPayload, senderVars
<1>3. /\ n \in Nat \ {0} /\ n \in 1..Len(recvBuffer) /\ Len(recvBuffer) \in Nat
      /\ Len(delivered) \in Nat /\ r \in Nat /\ r = Len(delivered) + 1
      /\ cut \in Nat /\ begun \in Nat
  <2>1. /\ Len(recvBuffer) \in Nat /\ n \in Nat /\ Len(delivered) \in Nat
        /\ cut \in Nat /\ begun \in Nat
    BY ComingType DEF Types, IsSequence
  <2> QED BY <1>1, <2>1 DEF Reading
<1>4. /\ recvBuffer' \in Seq(Byte) /\ Coming' \in Seq(Byte)
      /\ Len(Coming') = Len(Coming) - n
      /\ \A k \in 1..Len(Coming') : Coming'[k] = Coming[k + n]
      /\ BytesKnown' /\ Chained'
  BY <1>1, <1>2, <1>3, TakenFromFront DEF senderVars
<1>5. /\ Len(Coming) \in Nat /\ Len(Coming) >= n /\ Coming # <<>>
      /\ \A k \in 1..n : recvBuffer[k] = Coming[k]
      /\ Coming' = <<>> <=> Len(Coming') = 0
  BY <1>3, <1>4, ComingType
<1>6. bytes \in Seq(Byte) /\ Len(bytes) = n /\ \A k \in 1..n : bytes[k] = Coming[k]
  <2>1. recvBuffer \in Seq(Byte) /\ n \in 0..Len(recvBuffer)
    BY <1>3 DEF Types
  <2> QED BY <1>5, <2>1, FrontAndBack
<1> HIDE DEF Coming
<1>7. /\ IsSequence(delivered') /\ Len(delivered') = r
      /\ \A f \in 1..Len(delivered) : delivered'[f] = delivered[f]
      /\ delivered'[r] = ParseMessage(text)
  <2>1. IsSequence(delivered)
    BY DEF Types
  <2> QED BY <1>1, <1>3, <2>1, AppendAny
<1>8. /\ Reading' = r + 1 /\ ReaderAt' = <<r + 1, 1 - HeaderLen>>
      /\ WriterAt' = WriterAt /\ ReaderAt[2] = 1
  BY <1>1, <1>2, <1>7 DEF Reading, ReaderAt, WriterAt
<1>9. ASSUME Sure
      PROVE  /\ r \in 1..begun /\ r \in 1..Len(frames) /\ size = n
             /\ \A k \in 1..n : k \in 1..Len(Coming) /\ Coming[k] = <<r, k>>
             /\ text = TextOf(r)
  <2>1. /\ r \in 1..begun /\ r \in 1..Len(frames)
        /\ \A k \in 1..Len(Coming) :
              k + ReaderAt[2] - 1 <= size => Coming[k] = <<r, k + ReaderAt[2] - 1>>
    BY <1>5, <1>9, FirstIsTheFrame
  <2>2. size = n /\ TextOf(r) = [i \in 1..size |-> TextOf(r)[i]]
    <3>1. expected = size
      BY <1>1, <1>9 DEF ReaderFollows
    <3> QED BY <2>1, <3>1, FrameText
  <2>3. ASSUME NEW k \in 1..n
        PROVE  k \in 1..Len(Coming) /\ Coming[k] = <<r, k>>
    <3>1. k \in 1..Len(Coming) /\ k + ReaderAt[2] - 1 = k
      BY <1>3, <1>5, <1>8
    <3> HIDE DEF r, size
    <3> QED BY <2>1, <2>2, <3>1
  <2>4. \A k \in 1..n : bytes[k] = <<r, k>>
    BY <1>6, <2>3
  <2>5. DOMAIN bytes = 1..n
    <3> HIDE DEF bytes
    <3> QED BY <1>6
  <2> HIDE DEF bytes
  <2>6. \A k \in 1..n : Token(bytes[k]) = TextOf(r)[k]
    BY <1>3, <2>4 DEF Token
  <2>7. text = TextOf(r)
    BY <2>2, <2>5, <2>6
  <2> QED BY <2>1, <2>2, <2>3, <2>7
<1> HIDE DEF text
<1>10. Types'
  BY <1>1, <1>2, <1>4, <1>7 DEF Types
<1>11. WritesTheRest'
  BY <1>2, SameFrames DEF WritesTheRest
<1> HIDE DEF r, size, bytes
<1>12. FramesInOrder'
  <2>1. ASSUME NEW f \in ReadWhole'
        PROVE  delivered'[f] = ParseMessage(TextOf(f))
    <3>1. f \in 1..r /\ (cut = 0 \/ f < cut)
      BY <1>2, <1>3, <1>7, <2>1 DEF ReadWhole, Whole
    <3>2. CASE f = r
      <4>1. Sure
        BY <3>1, <3>2 DEF Sure, r
      <4> QED BY <1>7, <1>9, <3>2, <4>1
    <3>3. CASE f # r
      <4>1. f \in 1..Len(delivered)
        BY <1>3, <3>1, <3>3
      <4>2. f \in ReadWhole
        BY <1>2, <1>3, <2>1, <3>1, <4>1 DEF ReadWhole, Whole, FramesInOrder, Types
      <4> QED BY <1>7, <4>1, <4>2 DEF FramesInOrder
    <3> QED BY <3>2, <3>3
  <2>2. cut = 0 => r <= begun
    BY <1>9 DEF Sure
  <2> QED BY <1>2, <1>7, <2>1, <2>2, SameFrames DEF FramesInOrder
<1>13. ASSUME Coming' = <<>>
       PROVE  Len(Coming) = n
  BY <1>3, <1>4, <1>5, <1>13
<1>14. ASSUME Coming' # <<>>
       PROVE  Len(Coming') \in 1..Len(Coming) /\ Coming'[Len(Coming')] = Coming[Len(Coming)]
  BY <1>3, <1>4, <1>5, <1>14
<1>15. ASSUME Sure
       PROVE  /\ n \in 1..Len(Coming) /\ Coming[n] = <<r, n>>
              /\ NextByte(Coming[n]) = <<r + 1, 1 - HeaderLen>>
              /\ EndsWhole(Coming[n]) => r + 1 = cut
  <2>1. n \in 1..n
    BY <1>3
  <2>2. n \in 1..Len(Coming) /\ Coming[n] = <<r, n>> /\ n = Len(TextOf(r))
    BY <1>9, <1>15, <2>1 DEF size
  <2> HIDE DEF n
  <2> QED BY <1>3, <2>2 DEF NextByte, EndsWhole
<1>16. WriterFollows'
  <2>1. CASE cut = 0
    <3>1. Sure
      BY <2>1 DEF Sure
    <3>2. WriterAt = NextByte(Coming[Len(Coming)])
      BY <1>5, <2>1 DEF WriterFollows
    <3>3. CASE Coming' = <<>>
      BY <1>2, <1>8, <1>13, <1>15, <2>1, <3>1, <3>2, <3>3 DEF WriterFollows
    <3>4. CASE Coming' # <<>>
      BY <1>2, <1>8, <1>14, <2>1, <3>2, <3>4, SameFrames DEF WriterFollows
    <3> QED BY <3>3, <3>4
  <2>2. CASE cut # 0
    BY <1>2, <1>5, <1>14, <2>2, SameFrames DEF WriterFollows, EndsWhole
  <2> QED BY <2>1, <2>2
<1>17. ReaderFollows'
  <2> SUFFICES ASSUME cut = 0 \/ r + 1 < cut
               PROVE  /\ Coming' # <<>> => Coming'[1] = <<r + 1, 1 - HeaderLen>>
                      /\ cut # 0 => Coming' # <<>>
    BY <1>1, <1>2, <1>8 DEF ReaderFollows, Sure
  <2>1. Sure
    BY <1>3 DEF Sure, r
  <2>2. ASSUME Coming' # <<>> PROVE Coming'[1] = <<r + 1, 1 - HeaderLen>>
    <3>1. 1 \in 1..Len(Coming') /\ n \in 1..Len(Coming) - 1 /\ 1 + n = n + 1
      BY <1>3, <1>4, <1>5, <2>2
    <3>2. cut = 0 \/ Coming[n][1] < cut
      BY <1>3, <1>15, <2>1
    <3>3. Coming[n + 1] = NextByte(Coming[n])
      BY <1>3, <1>15, <2>1, <3>1, <3>2 DEF Chained
    <3>4. Coming'[1] = Coming[1 + n]
      BY <1>4, <3>1
    <3> QED BY <1>15, <2>1, <3>1, <3>3, <3>4
  <2>3. ASSUME cut # 0, Coming' = <<>> PROVE FALSE
    <3>1. Len(Coming) = n /\ Coming[n] = <<r, n>> /\ ~EndsWhole(Coming[n])
      BY <1>3, <1>13, <1>15, <2>1, <2>3
    <3>2. Coming[n][1] >= cut
      BY <1>5, <2>3, <3>1 DEF WriterFollows
    <3> QED BY <1>3, <2>3, <3>1, <3>2
  <2> QED BY <2>2, <2>3
<1> QED BY <1>4, <1>10, <1>11, <1>12, <1>16, <1>17

-----------------------------------------------------------------------------
(***************************************************************************)
(* What the sender does                                                    *)
(***************************************************************************)
\* The first n bytes of a send go out, and either nothing is discarded for the
\* first time or something of this frame is.
LEMMA SomeGoOut ==
    ASSUME Inv, part # "idle", NEW n \in 0..Len(toWrite),
           pipe' = pipe \o SubSeq(toWrite, 1, n),
           UNCHANGED <<frames, begun, recvBuffer, expected, delivered>>,
           cut' = cut \/ (cut = 0 /\ cut' = begun)
    PROVE  /\ pipe' \in Seq(Byte) /\ Len(pipe') = Len(pipe) + n
           /\ Longer(Coming', Coming, toWrite, n)
           /\ BytesKnown' /\ Chained' /\ ReaderFollows' /\ FramesInOrder'
<1> USE DEF Inv
<1> DEFINE size == Len(TextOf(begun))
           last == IF part = "header" THEN 0 ELSE size
           w == Len(toWrite)
           c == Len(Coming)
<1>1. recvBuffer \in Seq(Byte) /\ pipe \in Seq(Byte) /\ toWrite \in Seq(Byte)
  BY DEF Types
<1>2. pipe' \in Seq(Byte) /\ Longer(Coming', Coming, toWrite, n)
  <2>1. recvBuffer' = recvBuffer
    OBVIOUS
  <2> QED BY <1>1, <2>1, PutBehind DEF Coming
<1>3. Len(pipe') = Len(pipe) + n
  BY <1>1
<1>4. /\ Len(Coming') = c + n /\ c \in Nat /\ n \in Nat /\ w \in Nat /\ n <= w
      /\ \A k \in 1..c : k \in 1..Len(Coming') /\ Coming'[k] = Coming[k]
      /\ \A k \in 1..n : c + k \in 1..Len(Coming') /\ Coming'[c + k] = toWrite[k]
      /\ Coming = <<>> <=> c = 0
      /\ Coming' = <<>> <=> c + n = 0
  <2>1. c \in Nat /\ w \in Nat /\ (Coming = <<>> <=> c = 0)
    BY <1>1, ComingType
  <2> HIDE DEF Coming
  <2>2. Coming' \in Seq(Byte) /\ Len(Coming') = c + n
    BY <1>2 DEF Longer
  <2>3. \A k \in 1..c + n : Coming'[k] = IF k <= c THEN Coming[k] ELSE toWrite[k - c]
    BY <1>2, <2>2 DEF Longer
  <2>4. ASSUME NEW k \in 1..n
        PROVE  Coming'[c + k] = toWrite[k]
    <3>1. c + k \in 1..c + n /\ ~(c + k <= c) /\ (c + k) - c = k
      BY <2>1
    <3> QED BY <2>3, <3>1
  <2> QED BY <2>1, <2>2, <2>3, <2>4
<1> HIDE DEF Coming
<1>5. /\ begun \in 1..Len(frames) /\ size \in Nat \ {0} /\ last \in Nat
      /\ HeaderLen \in Nat \ {0} /\ cut \in 0..begun
  <2>1. begun \in 1..Len(frames) /\ cut \in 0..begun
    BY DEF Types, WritesTheRest
  <2> QED BY <2>1, FrameText, Bounds
<1>6. /\ w >= 1 /\ 1 - HeaderLen <= last - w + 1 /\ last <= size
      /\ \A k \in 1..w : toWrite[k] = <<begun, last - w + k>>
  <2>1. w \in Nat /\ size \in Nat \ {0} /\ HeaderLen \in Nat \ {0}
    BY <1>4, <1>5
  <2>2. WritesTheRest
    OBVIOUS
  <2> HIDE DEF Inv
  <2>3. \A k \in 1..w : toWrite[k] = <<begun, last - w + k>>
    BY <2>2 DEF WritesTheRest
  <2>4. w \in 1..(IF part = "header" THEN HeaderLen ELSE size)
    BY <2>2 DEF WritesTheRest
  <2>5. /\ part = "header" => w <= HeaderLen /\ last = 0
        /\ part # "header" => w <= size /\ last = size
    BY <2>4
  <2> HIDE DEF last, size, w
  <2>6. w >= 1 /\ 1 - HeaderLen <= last - w + 1 /\ last <= size
    BY <2>1, <2>4, <2>5
  <2> QED BY <2>3, <2>6
<1> HIDE DEF last, size, w, c
<1>7. BytesKnown'
  <2> SUFFICES ASSUME NEW k \in 1..Len(Coming')
               PROVE  /\ Coming'[k][1] \in 1..begun
                      /\ Coming'[k][2] \in 1 - HeaderLen..Len(TextOf(Coming'[k][1]))
    BY SameFrames DEF BytesKnown
  <2>1. CASE k <= c
    <3>1. k \in 1..Len(Coming) /\ Coming'[k] = Coming[k]
      BY <1>4, <2>1 DEF c
    <3> QED BY <3>1 DEF BytesKnown
  <2>2. CASE ~(k <= c)
    <3>1. k - c \in 1..n /\ k - c \in 1..w /\ c + (k - c) = k
      BY <1>4, <2>2
    <3>2. Coming'[k] = <<begun, last - w + (k - c)>>
      BY <1>4, <1>6, <3>1
    <3>3. last - w + (k - c) \in 1 - HeaderLen..size
      BY <1>4, <1>5, <1>6, <3>1
    <3> QED BY <1>5, <3>2, <3>3 DEF size
  <2> QED BY <2>1, <2>2
<1>8. WriterAt = toWrite[1] /\ toWrite[1][1] = begun
  <2>1. 1 \in 1..w
    BY <1>4, <1>6
  <2> QED BY <1>6, <2>1 DEF WriterAt
<1>9. Chained'
  <2> SUFFICES ASSUME NEW k \in 1..Len(Coming') - 1,
                      cut' = 0 \/ Coming'[k][1] < cut'
               PROVE  \/ Coming'[k + 1] = NextByte(Coming'[k])
                      \/ cut' # 0 /\ cut' = cut /\ EndsWhole(Coming'[k])
    BY SameFrames DEF Chained, EndsWhole
  <2>1. CASE k < c
    <3>1. /\ k \in 1..Len(Coming) - 1 /\ k \in 1..c /\ k + 1 \in 1..c
          /\ k \in 1..Len(Coming)
      BY <1>4, <2>1 DEF c
    <3>2. Coming'[k] = Coming[k] /\ Coming'[k + 1] = Coming[k + 1]
      BY <1>4, <3>1
    <3>3. cut = 0 \/ Coming[k][1] < cut
      BY <3>2
    <3> QED BY <3>1, <3>2, <3>3 DEF Chained
  <2>2. CASE k = c
    <3>1. /\ c \in 1..Len(Coming) /\ Coming # <<>> /\ c = Len(Coming) /\ 1 \in 1..n
          /\ Coming'[c] = Coming[c] /\ Coming'[c + 1] = toWrite[1]
      BY <1>4, <2>2 DEF c
    <3>2. CASE cut = 0
      BY <1>8, <2>2, <3>1, <3>2 DEF WriterFollows
    <3>3. CASE cut # 0
      <4>1. cut' = cut /\ Coming[c][1] < cut
        BY <2>2, <3>1, <3>3
      <4>2. Coming[c][1] \in Nat /\ cut \in Nat
        BY <1>5, <3>1, ByteIsKnown
      <4>3. EndsWhole(Coming[c])
        BY <3>1, <3>3, <4>1, <4>2 DEF WriterFollows
      <4> QED BY <2>2, <3>1, <3>3, <4>1, <4>3
    <3> QED BY <3>2, <3>3
  <2>3. CASE k > c
    <3>1. /\ k - c \in 1..n /\ k - c \in 1..w /\ c + (k - c) = k
          /\ (k - c) + 1 \in 1..n /\ (k - c) + 1 \in 1..w /\ c + ((k - c) + 1) = k + 1
      BY <1>4, <2>3
    <3>2. /\ Coming'[k] = <<begun, last - w + (k - c)>>
          /\ Coming'[k + 1] = <<begun, last - w + ((k - c) + 1)>>
      BY <1>4, <1>6, <3>1
    <3>3. /\ last - w + (k - c) # size
          /\ last - w + ((k - c) + 1) = last - w + (k - c) + 1
      BY <1>4, <1>5, <1>6, <3>1
    <3>4. NextByte(Coming'[k]) = Coming'[k + 1]
      BY <3>2, <3>3 DEF NextByte, size
    <3> QED BY <3>4
  <2>4. k < c \/ k = c \/ k > c
    BY <1>4
  <2> QED BY <2>1, <2>2, <2>3, <2>4
<1>10. Reading' = Reading /\ ReaderAt' = ReaderAt /\ ReaderAt[1] = Reading
  BY DEF Reading, ReaderAt
<1>11. Reading \in Nat
  BY DEF Reading, Types, IsSequence
<1>12. ReaderFollows'
  <2> SUFFICES ASSUME cut' = 0 \/ Reading < cut'
               PROVE  /\ Coming' # <<>> => Coming'[1] = ReaderAt
                      /\ expected # 0 => /\ Reading <= begun
                                         /\ expected = Len(TextOf(Reading))
                      /\ cut' # 0 => Coming' # <<>>
    BY <1>10, SameFrames DEF ReaderFollows, Sure
  <2>1. Sure
    BY DEF Sure
  <2>2. CASE c # 0
    <3>1. 1 \in 1..c /\ Coming # <<>> /\ Coming' # <<>>
      BY <1>4, <2>2
    <3>2. Coming'[1] = Coming[1]
      BY <1>4, <3>1
    <3> QED BY <2>1, <3>1, <3>2 DEF ReaderFollows
  <2>3. CASE c = 0
    <3>1. Coming = <<>> /\ cut = 0
      BY <1>4, <2>1, <2>3 DEF ReaderFollows
    <3>2. ReaderAt = toWrite[1] /\ Reading = begun
      BY <1>8, <1>10, <3>1 DEF WriterFollows
    <3>3. cut' = 0
      BY <1>5, <1>11, <3>1, <3>2
    <3>4. ASSUME Coming' # <<>> PROVE Coming'[1] = ReaderAt
      <4>1. 1 \in 1..n /\ c + 1 = 1
        BY <1>4, <2>3, <3>4
      <4> QED BY <1>4, <3>2, <4>1
    <3> QED BY <2>1, <3>3, <3>4 DEF ReaderFollows
  <2> QED BY <2>2, <2>3
<1>13. FramesInOrder'
  <2>1. Len(delivered) \in Nat /\ Len(frames) \in Nat
    BY DEF Types, IsSequence
  <2>2. ReadWhole' \subseteq ReadWhole
    BY <1>5, <2>1 DEF ReadWhole, Whole, FramesInOrder
  <2> QED BY <1>5, <2>2, SameFrames DEF FramesInOrder
<1> QED BY <1>2, <1>3, <1>7, <1>9, <1>12, <1>13

LEMMA FitsType ==
    ASSUME Inv, part # "idle"
    PROVE  /\ Fits \in 0..Len(toWrite) /\ Len(pipe) + Fits <= PipeCap
           /\ Len(pipe) \in Nat /\ Len(toWrite) \in Nat \ {0}
           /\ Fits = 0 <=> Len(pipe) = PipeCap
<1>1. /\ Len(pipe) \in Nat /\ Len(pipe) <= PipeCap /\ Len(toWrite) \in Nat
      /\ PipeCap \in Nat
  BY Bounds DEF Inv, Types
<1>2. Len(toWrite) >= 1
  <2>1. begun \in 1..Len(frames)
    BY DEF Inv, Types, WritesTheRest
  <2>2. Len(TextOf(begun)) \in Nat
    BY <2>1, FrameText DEF Inv
  <2> QED BY <2>2, Bounds DEF Inv, WritesTheRest
<1> QED BY <1>1, <1>2 DEF Fits

\* The bytes of a header and of a text, one after the other.
LEMMA WholeSends ==
    ASSUME Types, begun > 0
    PROVE  /\ Len(TextOf(begun)) \in Nat \ {0}
           /\ Payload(begun) \in Seq(Byte) /\ Len(Payload(begun)) = Len(TextOf(begun))
           /\ \A i \in 1..Len(TextOf(begun)) : Payload(begun)[i] = <<begun, i>>
<1>1. begun \in 1..Len(frames) /\ begun \in Nat
  BY DEF Types
<1>2. Len(TextOf(begun)) \in Nat \ {0}
  BY <1>1, FrameText
<1>3. \A i \in 1..Len(TextOf(begun)) : <<begun, i>> \in Byte
  BY <1>1, <1>2 DEF Byte
<1> QED BY <1>2, <1>3 DEF Payload

\* A send that is over, with all its bytes sent or not.
LEMMA SendEnds ==
    ASSUME Inv, part # "idle", EndSend,
           UNCHANGED <<blocking, begun, frames>>
    PROVE  /\ toWrite' \in Seq(Byte) /\ part' \in {"idle", "payload"}
           /\ WritesTheRest'
           /\ WriterAt' = IF part = "header" THEN <<begun, 1>>
                          ELSE <<begun + 1, 1 - HeaderLen>>
<1>1. part \in {"header", "payload"} /\ begun > 0 /\ begun \in Nat
  BY DEF Inv, Types, WritesTheRest
<1>2. CASE part = "header"
  <2>1. /\ part' = "payload" /\ toWrite' = Payload(begun)
    BY <1>2 DEF EndSend
  <2>2. /\ Len(TextOf(begun)) \in Nat \ {0}
        /\ Payload(begun) \in Seq(Byte) /\ Len(Payload(begun)) = Len(TextOf(begun))
        /\ \A i \in 1..Len(TextOf(begun)) : Payload(begun)[i] = <<begun, i>>
    BY <1>1, WholeSends DEF Inv
  <2>3. WritesTheRest'
    <3>1. TextOf(begun)' = TextOf(begun)
      BY SameFrames DEF TextOf
    <3> HIDE DEF TextOf
    <3>2. \A i \in 1..Len(TextOf(begun)) :
             Len(TextOf(begun)) - Len(Payload(begun)) + i = i
      BY <2>2
    <3> QED BY <1>1, <2>1, <2>2, <3>1, <3>2 DEF WritesTheRest
  <2>4. WriterAt' = <<begun, 1>>
    <3>1. 1 \in 1..Len(TextOf(begun))
      BY <2>2
    <3> QED BY <2>1, <2>2, <3>1 DEF WriterAt
  <2> QED BY <1>2, <2>1, <2>2, <2>3, <2>4
<1>3. CASE part # "header"
  <2>1. part' = "idle" /\ toWrite' = <<>>
    BY <1>3 DEF EndSend
  <2> QED BY <1>3, <2>1 DEF WritesTheRest, WriterAt
<1> QED BY <1>2, <1>3

\* What follows the last byte of a send.
LEMMA LastOfSend ==
    ASSUME Inv, part # "idle"
    PROVE  /\ Len(toWrite) \in Nat \ {0} /\ toWrite[Len(toWrite)][1] = begun
           /\ toWrite[1][1] = begun
           /\ NextByte(toWrite[Len(toWrite)]) =
                 IF part = "header" THEN <<begun, 1>> ELSE <<begun + 1, 1 - HeaderLen>>
           /\ ~blocking => toWrite[1] = IF part = "header" THEN <<begun, 1 - HeaderLen>>
                                        ELSE <<begun, 1>>
           /\ \A i \in 1..Len(toWrite) - 1 : NextByte(toWrite[i]) = toWrite[i + 1]
<1> DEFINE size == Len(TextOf(begun))
           last == IF part = "header" THEN 0 ELSE size
           whole == IF part = "header" THEN HeaderLen ELSE size
           w == Len(toWrite)
<1>1. /\ begun \in 1..Len(frames) /\ size \in Nat \ {0} /\ last \in Nat
      /\ HeaderLen \in Nat \ {0}
  <2>1. begun \in 1..Len(frames)
    BY DEF Inv, Types, WritesTheRest
  <2> QED BY <2>1, FrameText, Bounds DEF Inv
<1>2. /\ w \in 1..whole
      /\ ~blocking => w = whole
      /\ \A i \in 1..w : toWrite[i] = <<begun, last - w + i>>
  BY DEF Inv, WritesTheRest
<1>3. last = 0 \/ last = size
  OBVIOUS
<1>4. part = "header" => last = 0 /\ whole = HeaderLen
  OBVIOUS
<1>5. part # "header" => last = size /\ whole = size
  OBVIOUS
<1> HIDE DEF size, last, whole, w
<1>6. w \in Nat \ {0} /\ w \in 1..w /\ 1 \in 1..w /\ (last - w) + w = last
  BY <1>1, <1>2, <1>4, <1>5
<1>7. toWrite[w] = <<begun, last>> /\ toWrite[1] = <<begun, last - w + 1>>
  BY <1>2, <1>6
<1>8. NextByte(toWrite[w]) = IF part = "header" THEN <<begun, 1>>
                             ELSE <<begun + 1, 1 - HeaderLen>>
  BY <1>1, <1>4, <1>5, <1>7 DEF NextByte, size
<1>9. ~blocking => toWrite[1] = IF part = "header" THEN <<begun, 1 - HeaderLen>>
                                ELSE <<begun, 1>>
  <2>1. ~blocking => last - w + 1 = IF part = "header" THEN 1 - HeaderLen ELSE 1
    BY <1>1, <1>2, <1>4, <1>5
  <2> QED BY <1>7, <2>1
<1>10. ASSUME NEW i \in 1..w - 1
       PROVE  NextByte(toWrite[i]) = toWrite[i + 1]
  <2>1. /\ i \in 1..w /\ i + 1 \in 1..w /\ last - w + i # size
        /\ last - w + (i + 1) = last - w + i + 1
    BY <1>1, <1>3, <1>6
  <2>2. toWrite[i] = <<begun, last - w + i>> /\ toWrite[i + 1] = <<begun, last - w + (i + 1)>>
    BY <1>2, <2>1
  <2> QED BY <2>1, <2>2 DEF NextByte, size
<1> QED BY <1>6, <1>7, <1>8, <1>9, <1>10 DEF w

LEMMA BlockingSendInv ==
    ASSUME Inv, BlockingSend
    PROVE  Inv'
<1> USE DEF Inv
<1> DEFINE n == Fits
           c == Len(Coming)
<1>1. /\ blocking /\ part # "idle" /\ n > 0 /\ pipe' = pipe \o SubSeq(toWrite, 1, n)
      /\ blocking' = blocking /\ log' = log /\ joined' = joined /\ frames' = frames
      /\ begun' = begun /\ cut' = cut /\ recvBuffer' = recvBuffer
      /\ expected' = expected /\ delivered' = delivered
  BY DEF BlockingSend, readerVars
<1>2. /\ n \in 1..Len(toWrite) /\ n \in 0..Len(toWrite) /\ Len(pipe) + n <= PipeCap
      /\ Len(toWrite) \in Nat \ {0}
  BY <1>1, FitsType
<1>3. /\ pipe' \in Seq(Byte) /\ Len(pipe') = Len(pipe) + n
      /\ Longer(Coming', Coming, toWrite, n)
      /\ BytesKnown' /\ Chained' /\ ReaderFollows' /\ FramesInOrder'
  <2>1. n \in 0..Len(toWrite)
    BY <1>2
  <2>2. cut' = cut \/ (cut = 0 /\ cut' = begun)
    BY <1>1, Zenon
  <2> HIDE DEF n
  <2> QED BY <1>1, <2>1, <2>2, SomeGoOut
<1>4. cut = 0 /\ cut' = 0
  BY <1>1 DEF Types
<1>5. /\ Coming' # <<>> /\ Len(Coming') = c + n
      /\ Coming'[Len(Coming')] = toWrite[n]
  <2>1. c \in Nat
    BY ComingType
  <2>2. /\ Coming' \in Seq(Byte) /\ Len(Coming') = c + n
        /\ \A k \in 1..Len(Coming') :
              Coming'[k] = IF k <= c THEN Coming[k] ELSE toWrite[k - c]
    BY <1>3 DEF Longer
  <2> HIDE DEF n, c, Coming
  <2>3. c + n \in 1..c + n /\ ~(c + n <= c) /\ (c + n) - c = n
    BY <1>2, <2>1
  <2> QED BY <2>2, <2>3
<1> HIDE DEF n, c
<1>6. CASE n = Len(toWrite)
  <2>1. EndSend
    BY <1>1, <1>6 DEF BlockingSend, n
  <2>2. /\ toWrite' \in Seq(Byte) /\ part' \in {"idle", "payload"}
        /\ WritesTheRest'
        /\ WriterAt' = IF part = "header" THEN <<begun, 1>>
                       ELSE <<begun + 1, 1 - HeaderLen>>
    BY <1>1, <2>1, SendEnds
  <2>3. Types'
    BY <1>1, <1>2, <1>3, <2>2 DEF Types, IsSequence
  <2>4. WriterAt' = NextByte(toWrite[n])
    BY <1>1, <1>6, <2>2, LastOfSend
  <2>5. WriterFollows'
    BY <1>1, <1>4, <1>5, <2>4, SameFrames DEF WriterFollows
  <2> QED BY <1>3, <2>2, <2>3, <2>5
<1>7. CASE n # Len(toWrite)
  <2>1. /\ toWrite' = SubSeq(toWrite, n + 1, Len(toWrite)) /\ part' = part
    BY <1>1, <1>7 DEF BlockingSend, n
  <2>2. /\ toWrite' \in Seq(Byte) /\ Len(toWrite') = Len(toWrite) - n
        /\ \A k \in 1..Len(toWrite') : toWrite'[k] = toWrite[k + n]
    <3>1. toWrite \in Seq(Byte)
      BY DEF Types
    <3> QED BY <1>2, <2>1, <3>1
  <2>3. Len(toWrite') \in 1..Len(toWrite) /\ 1 \in 1..Len(toWrite')
    BY <1>2, <1>7, <2>2
  <2>4. Types'
    BY <1>1, <1>2, <1>3, <2>1, <2>2 DEF Types, IsSequence
  <2>5. WritesTheRest'
    <3> DEFINE size == IF part = "header" THEN HeaderLen ELSE Len(TextOf(begun))
               last == IF part = "header" THEN 0 ELSE Len(TextOf(begun))
    <3>1. /\ begun > 0 /\ Len(toWrite) \in 1..size
          /\ \A i \in 1..Len(toWrite) :
                 toWrite[i] = <<begun, last - Len(toWrite) + i>>
      BY <1>1 DEF WritesTheRest
    <3>2. Len(TextOf(begun)) \in Nat /\ HeaderLen \in Nat
      BY <3>1, WholeSends, Bounds
    <3>3. TextOf(begun)' = TextOf(begun)
      BY <1>1 DEF TextOf
    <3>4. last \in Nat /\ size \in Nat
      BY <3>2
    <3>5. WritesTheRest' <=>
             /\ begun > 0 /\ Len(toWrite') \in 1..size
             /\ \A i \in 1..Len(toWrite') :
                   toWrite'[i] = <<begun, last - Len(toWrite') + i>>
      BY <1>1, <2>1, <3>3 DEF WritesTheRest
    <3> HIDE DEF size, last
    <3>6. ASSUME NEW i \in 1..Len(toWrite')
          PROVE  toWrite'[i] = <<begun, last - Len(toWrite') + i>>
      <4>1. /\ i + n \in 1..Len(toWrite)
            /\ last - Len(toWrite) + (i + n) = last - Len(toWrite') + i
        BY <1>2, <2>2, <3>4
      <4>2. toWrite'[i] = toWrite[i + n]
        BY <2>2
      <4> QED BY <3>1, <4>1, <4>2
    <3>7. Len(toWrite') \in 1..size
      BY <2>3, <3>1, <3>4
    <3> QED BY <3>1, <3>5, <3>6, <3>7
  <2>6. WriterAt' = NextByte(toWrite[n])
    <3>1. n \in 1..Len(toWrite) - 1 /\ 1 + n = n + 1
      BY <1>2, <1>7
    <3>2. toWrite'[1] = toWrite[n + 1]
      BY <2>2, <2>3, <3>1
    <3> QED BY <1>1, <2>1, <3>1, <3>2, LastOfSend DEF WriterAt
  <2>7. WriterFollows'
    BY <1>1, <1>4, <1>5, <2>6, SameFrames DEF WriterFollows
  <2> QED BY <1>3, <2>4, <2>5, <2>7
<1> QED BY <1>6, <1>7

LEMMA NonBlockingSendInv ==
    ASSUME Inv, NonBlockingSend
    PROVE  Inv'
<1> USE DEF Inv
<1> DEFINE n == Fits
           c == Len(Coming)
           w == Len(toWrite)
<1>1. /\ ~blocking /\ part # "idle" /\ pipe' = pipe \o SubSeq(toWrite, 1, n)
      /\ cut' = IF cut = 0 /\ n < w THEN begun ELSE cut
      /\ blocking' = blocking /\ log' = log /\ joined' = joined /\ frames' = frames
      /\ begun' = begun /\ recvBuffer' = recvBuffer
      /\ expected' = expected /\ delivered' = delivered
      /\ EndSend
  BY DEF NonBlockingSend, readerVars
<1>2. n \in 0..w /\ Len(pipe) + n <= PipeCap /\ w \in Nat \ {0}
  BY <1>1, FitsType
<1>3. /\ pipe' \in Seq(Byte) /\ Len(pipe') = Len(pipe) + n
      /\ Longer(Coming', Coming, toWrite, n)
      /\ BytesKnown' /\ Chained' /\ ReaderFollows' /\ FramesInOrder'
  <2>1. n \in 0..Len(toWrite)
    BY <1>2
  <2>2. cut' = cut \/ (cut = 0 /\ cut' = begun)
    BY <1>1, Zenon
  <2> HIDE DEF n
  <2> QED BY <1>1, <2>1, <2>2, SomeGoOut
<1>4. /\ toWrite' \in Seq(Byte) /\ part' \in {"idle", "payload"}
      /\ WritesTheRest'
      /\ WriterAt' = IF part = "header" THEN <<begun, 1>>
                     ELSE <<begun + 1, 1 - HeaderLen>>
  BY <1>1, SendEnds
<1>5. cut \in 0..begun /\ cut' \in 0..begun /\ begun \in Nat /\ begun > 0
  BY <1>1 DEF Types, WritesTheRest
<1>6. Types'
  BY <1>1, <1>2, <1>3, <1>4, <1>5 DEF Types, IsSequence
<1>7. /\ c \in Nat /\ Len(Coming') = c + n
      /\ Coming' = <<>> <=> c + n = 0
      /\ Coming = <<>> <=> c = 0
      /\ n > 0 => Coming'[Len(Coming')] = toWrite[n]
      /\ n = 0 => Coming' = Coming
  <2>1. c \in Nat /\ (Coming = <<>> <=> c = 0) /\ Coming \in Seq(Byte)
    BY ComingType
  <2>2. /\ Coming' \in Seq(Byte) /\ Len(Coming') = c + n
        /\ \A k \in 1..Len(Coming') :
              Coming'[k] = IF k <= c THEN Coming[k] ELSE toWrite[k - c]
    BY <1>3 DEF Longer
  <2>3. n = 0 => Coming' = Coming
    <3> HIDE DEF Coming, n
    <3> QED BY <2>1, <2>2
  <2> HIDE DEF n, c, Coming
  <2>4. ASSUME n > 0 PROVE Coming'[Len(Coming')] = toWrite[n]
    <3>1. c + n \in 1..c + n /\ ~(c + n <= c) /\ (c + n) - c = n
      BY <1>2, <2>1, <2>4
    <3> QED BY <2>2, <3>1
  <2> QED BY <2>1, <2>2, <2>3, <2>4
<1> HIDE DEF n, c, w
<1>8. /\ toWrite[w][1] = begun /\ toWrite[1][1] = begun
      /\ NextByte(toWrite[w]) = WriterAt'
      /\ toWrite[1] = IF part = "header" THEN <<begun, 1 - HeaderLen>> ELSE <<begun, 1>>
  BY <1>1, <1>4, LastOfSend DEF w
<1>9. WriterAt = toWrite[1]
  BY <1>1 DEF WriterAt
<1>10. n > 0 => toWrite[n][1] = begun
  <2>1. \A i \in 1..Len(toWrite) : toWrite[i][1] = begun
    BY <1>1 DEF WritesTheRest
  <2> QED BY <1>2, <2>1 DEF w
<1>11. WriterFollows'
  <2>1. CASE cut = 0 /\ n = w
    <3>1. cut' = 0 /\ n > 0 /\ Coming' # <<>>
      BY <1>1, <1>2, <1>7, <2>1
    <3> QED BY <1>1, <1>7, <1>8, <2>1, <3>1, SameFrames DEF WriterFollows
  <2>2. CASE ~(cut = 0 /\ n = w)
    <3>1. cut' # 0 /\ cut' <= begun /\ (cut' = begun \/ cut' = cut)
      BY <1>1, <1>2, <1>5, <2>2
    <3> SUFFICES ASSUME Coming' # <<>>
                 PROVE  \/ Coming'[Len(Coming')][1] >= cut'
                        \/ /\ Coming'[Len(Coming')][1] = cut' - 1
                           /\ Coming'[Len(Coming')][2] =
                                 Len(TextOf(Coming'[Len(Coming')][1]))
      BY <1>1, <3>1, SameFrames DEF WriterFollows, EndsWhole
    <3>2. CASE n > 0
      BY <1>5, <1>7, <1>10, <3>1, <3>2
    <3>3. CASE n = 0
      <4> DEFINE b == Coming[c]
      <4>1. Coming' = Coming /\ c \in 1..Len(Coming) /\ Coming # <<>> /\ Len(Coming') = c
        BY <1>2, <1>7, <3>3 DEF c
      <4>2. CASE cut # 0
        <5>1. cut' = cut
          BY <1>1, <4>2
        <5> QED BY <4>1, <4>2, <5>1 DEF WriterFollows, EndsWhole, c
      <4>3. CASE cut = 0
        <5>1. cut' = begun
          BY <1>1, <1>2, <2>2, <3>3, <4>3
        <5>2. NextByte(b) = toWrite[1]
          BY <1>9, <4>1, <4>3 DEF WriterFollows, c
        <5>3. b[1] \in 1..begun
          BY <4>1, ByteIsKnown
        <5> HIDE DEF b
        <5>4. CASE b[2] = Len(TextOf(b[1]))
          <6>1. b[1] + 1 = begun
            BY <1>8, <5>2, <5>4 DEF NextByte
          <6>2. b[1] = cut' - 1
            BY <1>5, <5>1, <5>3, <6>1
          <6> QED BY <4>1, <5>4, <6>2 DEF b
        <5>5. CASE b[2] # Len(TextOf(b[1]))
          <6>1. b[1] = begun
            BY <1>8, <5>2, <5>5 DEF NextByte
          <6> QED BY <1>5, <4>1, <5>1, <6>1 DEF b
        <5> QED BY <5>4, <5>5
      <4> QED BY <4>2, <4>3
    <3> QED BY <1>2, <3>2, <3>3
  <2> QED BY <2>1, <2>2
<1> QED BY <1>3, <1>4, <1>6, <1>11

LEMMA BeginFrameInv ==
    ASSUME Inv, BeginFrame
    PROVE  Inv'
<1> USE DEF Inv
<1>1. /\ part = "idle" /\ begun < Len(frames) /\ begun' = begun + 1
      /\ part' = "header" /\ toWrite' = Header(begun + 1)
      /\ blocking' = blocking /\ log' = log /\ joined' = joined /\ frames' = frames
      /\ cut' = cut /\ pipe' = pipe /\ recvBuffer' = recvBuffer
      /\ expected' = expected /\ delivered' = delivered
  BY DEF BeginFrame, readerVars
<1>2. /\ begun \in Nat /\ cut \in 0..begun /\ Len(frames) \in Nat /\ HeaderLen \in Nat \ {0}
      /\ begun' \in 1..Len(frames)
  BY <1>1, Bounds DEF Types
<1>3. /\ toWrite' \in Seq(Byte) /\ Len(toWrite') = HeaderLen
      /\ \A i \in 1..HeaderLen : toWrite'[i] = <<begun + 1, i - HeaderLen>>
  <2>1. \A i \in 1..HeaderLen : <<begun + 1, i - HeaderLen>> \in Byte
    BY <1>2 DEF Byte
  <2> DEFINE h == [i \in 1..HeaderLen |-> <<begun + 1, i - HeaderLen>>]
  <2>2. h \in Seq(Byte) /\ Len(h) = HeaderLen
    BY <1>2, <2>1
  <2>3. toWrite' = h /\ \A i \in 1..HeaderLen : h[i] = <<begun + 1, i - HeaderLen>>
    BY <1>1 DEF Header
  <2> QED BY <2>2, <2>3
<1>4. Types'
  BY <1>1, <1>2, <1>3 DEF Types, IsSequence
<1>5. WritesTheRest'
  <2>1. \A i \in 1..HeaderLen : 0 - HeaderLen + i = i - HeaderLen
    BY <1>2
  <2> QED BY <1>1, <1>2, <1>3, <2>1 DEF WritesTheRest
<1>6. WriterAt' = WriterAt
  <2>1. 1 \in 1..HeaderLen
    BY <1>2
  <2> QED BY <1>1, <1>3, <2>1 DEF WriterAt
<1>7. Coming' = Coming /\ Reading' = Reading /\ ReaderAt' = ReaderAt
  BY <1>1 DEF Coming, Reading, ReaderAt
<1> HIDE DEF Coming
<1>8. BytesKnown'
  <2> SUFFICES ASSUME NEW k \in 1..Len(Coming)
               PROVE  /\ Coming[k][1] \in 1..begun + 1
                      /\ Coming[k][2] \in 1 - HeaderLen..Len(TextOf(Coming[k][1]))
    BY <1>1, <1>7, SameFrames DEF BytesKnown
  <2> QED BY <1>2 DEF BytesKnown
<1>9. Chained' /\ WriterFollows'
  BY <1>1, <1>6, <1>7, SameFrames DEF Chained, WriterFollows, EndsWhole
<1>10. ReaderFollows'
  <2>1. Reading \in Nat
    BY DEF Reading, Types, IsSequence
  <2> QED BY <1>1, <1>2, <1>7, <2>1, SameFrames DEF ReaderFollows, Sure
<1>11. FramesInOrder'
  <2>1. Len(delivered) \in Nat
    BY DEF Types, IsSequence
  <2> QED BY <1>1, <1>2, <2>1, SameFrames DEF FramesInOrder, ReadWhole, Whole
<1> QED BY <1>4, <1>5, <1>8, <1>9, <1>10, <1>11

\* A message more at the end of those queued.
LEMMA FramesGrow ==
    ASSUME Inv, frames' \in Seq(Seq(Typed)), Len(frames) <= Len(frames'),
           \A f \in 1..Len(frames) : frames'[f] = frames[f],
           UNCHANGED <<blocking, begun, part, toWrite, cut, pipe, readerVars>>
    PROVE  /\ WritesTheRest' /\ BytesKnown' /\ Chained' /\ WriterFollows'
           /\ ReaderFollows' /\ FramesInOrder'
<1> USE DEF Inv
<1>1. /\ blocking' = blocking /\ begun' = begun /\ part' = part /\ toWrite' = toWrite
      /\ cut' = cut /\ pipe' = pipe /\ recvBuffer' = recvBuffer
      /\ expected' = expected /\ delivered' = delivered
  BY DEF readerVars
<1>2. \A f \in 1..Len(frames) : TextOf(f)' = TextOf(f)
  BY DEF TextOf
<1>3. Coming' = Coming /\ Reading' = Reading /\ ReaderAt' = ReaderAt /\ WriterAt' = WriterAt
  BY <1>1 DEF Coming, Reading, ReaderAt, WriterAt
<1> HIDE DEF TextOf, Coming
<1>4. ASSUME NEW k \in 1..Len(Coming)
      PROVE  /\ Coming[k][1] \in 1..Len(frames)
             /\ TextOf(Coming[k][1])' = TextOf(Coming[k][1])
             /\ NextByte(Coming[k])' = NextByte(Coming[k])
  <2>1. Coming[k][1] \in 1..Len(frames)
    BY ByteIsKnown
  <2>2. TextOf(Coming[k][1])' = TextOf(Coming[k][1])
    <3> DEFINE f == Coming[k][1]
    <3>1. f' = f /\ f \in 1..Len(frames)
      BY <1>3, <2>1
    <3> HIDE DEF f
    <3>2. SerializeMessage(frames'[f]) = SerializeMessage(frames[f])
      BY <1>2, <3>1 DEF TextOf
    <3>3. TextOf(f)' = TextOf(f)
      BY <3>1, <3>2 DEF TextOf
    <3> QED BY <3>3 DEF f
  <2> QED BY <1>3, <2>1, <2>2 DEF NextByte
<1>5. WritesTheRest'
  <2> SUFFICES ASSUME part # "idle" PROVE WritesTheRest'
    BY <1>1 DEF WritesTheRest
  <2>1. TextOf(begun)' = TextOf(begun)
    <3>1. begun \in 1..Len(frames)
      BY DEF WritesTheRest, Types
    <3> QED BY <1>2, <3>1
  <2> HIDE DEF TextOf
  <2> QED BY <1>1, <2>1 DEF WritesTheRest
<1> HIDE DEF TextOf, NextByte, Coming
<1>6. BytesKnown'
  BY <1>1, <1>3, <1>4 DEF BytesKnown
<1>7. Len(Coming) \in Nat /\ (Coming = <<>> <=> Len(Coming) = 0)
  BY ComingType
<1>8. Chained'
  <2> SUFFICES ASSUME NEW k \in 1..Len(Coming) - 1, cut = 0 \/ Coming[k][1] < cut
               PROVE  \/ Coming[k + 1] = NextByte(Coming[k])'
                      \/ cut # 0 /\ Coming[k][1] = cut - 1
                                 /\ Coming[k][2] = Len(TextOf(Coming[k][1])')
    BY <1>1, <1>3 DEF Chained, EndsWhole
  <2>1. k \in 1..Len(Coming)
    BY <1>7
  <2> QED BY <1>4, <2>1 DEF Chained, EndsWhole
<1>9. WriterFollows'
  <2>1. CASE Coming = <<>>
    BY <1>1, <1>3, <2>1 DEF WriterFollows
  <2>2. CASE Coming # <<>>
    <3>1. Len(Coming) \in 1..Len(Coming)
      BY <1>7, <2>2
    <3> QED BY <1>1, <1>3, <1>4, <2>2, <3>1 DEF WriterFollows, EndsWhole
  <2> QED BY <2>1, <2>2
<1>10. ReaderFollows'
  <2>1. expected # 0 /\ Sure => TextOf(Reading)' = TextOf(Reading)
    <3> SUFFICES ASSUME expected # 0, Sure PROVE TextOf(Reading)' = TextOf(Reading)
      OBVIOUS
    <3>1. Reading <= begun
      BY DEF ReaderFollows
    <3>2. Len(delivered) \in Nat /\ begun \in 0..Len(frames) /\ Len(frames) \in Nat
      BY DEF Types, IsSequence
    <3>3. Reading \in 1..Len(frames)
      BY <3>1, <3>2 DEF Reading
    <3>4. frames'[Reading] = frames[Reading]
      BY <3>3
    <3> QED BY <1>3, <3>4 DEF TextOf
  <2> QED BY <1>1, <1>3, <2>1 DEF ReaderFollows, Sure
<1>11. FramesInOrder'
  <2>1. Len(delivered) \in Nat /\ begun \in 0..Len(frames) /\ cut \in 0..begun
        /\ Len(frames) \in Nat /\ Len(frames') \in Nat
    BY DEF Types, IsSequence
  <2>2. ReadWhole' \subseteq ReadWhole /\ ReadWhole \subseteq 1..Len(frames)
    BY <1>1, <2>1 DEF ReadWhole, Whole, FramesInOrder
  <2> QED BY <1>1, <1>2, <2>2 DEF FramesInOrder
<1> QED BY <1>5, <1>6, <1>8, <1>9, <1>10, <1>11

LEMMA TypeInv ==
    ASSUME Inv, Type
    PROVE  Inv'
<1>1. PICK ch \in Char :
         LET op == [id |-> OpName(Len(log) + 1), ch |-> ch]
         IN  /\ log' = Append(log, op)
             /\ frames' = IF joined THEN Append(frames, <<op>>) ELSE frames
  BY DEF Type
<1>2. UNCHANGED <<blocking, joined, begun, part, toWrite, cut, pipe, readerVars>>
  BY DEF Type
<1> DEFINE op == [id |-> OpName(Len(log) + 1), ch |-> ch]
<1>3. log \in Seq(Typed) /\ frames \in Seq(Seq(Typed)) /\ Len(frames) \in Nat
  BY DEF Inv, Types
<1>4. op \in Typed
  <2>1. Len(log) + 1 \in Nat
    BY <1>3
  <2>2. ToString(Len(log) + 1) \in Number
    BY <2>1 DEF Number
  <2>3. OpName(Len(log) + 1) \in Seq(Number)
    BY <2>2, FewTokens DEF OpName
  <2> QED BY <2>3 DEF Typed
<1>5. log' = Append(log, op) /\ frames' = IF joined THEN Append(frames, <<op>>) ELSE frames
  BY <1>1
<1> HIDE DEF op
<1>6. log' \in Seq(Typed) /\ <<op>> \in Seq(Typed)
  BY <1>3, <1>4, <1>5
<1>7. /\ frames' \in Seq(Seq(Typed)) /\ Len(frames) <= Len(frames')
      /\ \A f \in 1..Len(frames) : frames'[f] = frames[f]
      /\ Len(frames') \in Nat
  BY <1>3, <1>5, <1>6
<1>8. /\ WritesTheRest' /\ BytesKnown' /\ Chained' /\ WriterFollows'
      /\ ReaderFollows' /\ FramesInOrder'
  BY <1>2, <1>7, FramesGrow
<1>9. Types'
  <2>1. ~joined => frames' = <<>>
    BY <1>5 DEF Inv, Types
  <2>2. begun \in 0..Len(frames')
    BY <1>3, <1>7 DEF Inv, Types
  <2> QED BY <1>2, <1>6, <1>7, <2>1, <2>2 DEF Inv, Types, IsSequence, readerVars
<1> QED BY <1>8, <1>9 DEF Inv

LEMMA JoinInv ==
    ASSUME Inv, Join
    PROVE  Inv'
<1>1. /\ ~joined /\ joined' = TRUE /\ frames' = IF log = <<>> THEN <<>> ELSE <<log>>
      /\ log' = log
      /\ UNCHANGED <<blocking, begun, part, toWrite, cut, pipe, readerVars>>
  BY DEF Join
<1>2. log \in Seq(Typed) /\ frames = <<>>
  BY <1>1 DEF Inv, Types
<1>3. /\ frames' \in Seq(Seq(Typed)) /\ Len(frames) <= Len(frames')
      /\ \A f \in 1..Len(frames) : frames'[f] = frames[f]
      /\ Len(frames') \in Nat /\ Len(frames) = 0
  BY <1>1, <1>2
<1>4. /\ WritesTheRest' /\ BytesKnown' /\ Chained' /\ WriterFollows'
      /\ ReaderFollows' /\ FramesInOrder'
  BY <1>1, <1>3, FramesGrow
<1>5. Types'
  <2>1. begun \in 0..Len(frames')
    BY <1>3 DEF Inv, Types
  <2> QED BY <1>1, <1>3, <2>1 DEF Inv, Types, IsSequence, readerVars
<1> QED BY <1>4, <1>5 DEF Inv

-----------------------------------------------------------------------------
(***************************************************************************)
(* The theorems                                                            *)
(***************************************************************************)
LEMMA InitInv == Init => Inv
<1> SUFFICES ASSUME Init PROVE Inv
  OBVIOUS
<1> USE DEF Init
<1>1. Types
  <2>1. IsSequence(<<>>)
    BY DEF IsSequence
  <2>2. /\ begun \in 0..Len(frames) /\ cut \in 0..begun /\ Len(pipe) <= PipeCap
        /\ expected \in Nat
    BY Bounds
  <2>3. /\ log \in Seq(Typed) /\ frames \in Seq(Seq(Typed)) /\ toWrite \in Seq(Byte)
        /\ pipe \in Seq(Byte) /\ recvBuffer \in Seq(Byte)
    OBVIOUS
  <2>4. blocking \in BOOLEAN /\ joined \in BOOLEAN /\ (~joined => frames = <<>>)
    OBVIOUS
  <2>5. (blocking => cut = 0) /\ part \in {"idle", "header", "payload"}
    OBVIOUS
  <2>6. IsSequence(delivered)
    BY <2>1
  <2> QED BY <2>2, <2>3, <2>4, <2>5, <2>6, Zenon DEF Types
<1>2. Coming = <<>> /\ Len(Coming) = 0
  BY DEF Coming
<1> HIDE DEF Coming
<1>3. WritesTheRest /\ BytesKnown /\ Chained
  BY <1>2 DEF WritesTheRest, BytesKnown, Chained
<1>4. ReaderAt = <<1, 1 - HeaderLen>> /\ WriterAt = <<1, 1 - HeaderLen>>
  BY DEF ReaderAt, Reading, WriterAt
<1>5. WriterFollows /\ ReaderFollows /\ FramesInOrder
  BY <1>2, <1>4 DEF WriterFollows, ReaderFollows, FramesInOrder, ReadWhole, Whole
<1> QED BY <1>1, <1>3, <1>5 DEF Inv

LEMMA NextInv == Inv /\ [Next]_vars => Inv'
<1> SUFFICES ASSUME Inv, [Next]_vars PROVE Inv'
  OBVIOUS
<1>1. CASE Type
  BY <1>1, TypeInv
<1>2. CASE Join
  BY <1>2, JoinInv
<1>3. CASE BeginFrame
  BY <1>3, BeginFrameInv
<1>4. CASE BlockingSend
  BY <1>4, BlockingSendInv
<1>5. CASE NonBlockingSend
  BY <1>5, NonBlockingSendInv
<1>6. CASE Recv
  BY <1>6, RecvInv
<1>7. CASE ReadHeader
  BY <1>7, ReadHeaderInv
<1>8. CASE ReadPayload
  BY <1>8, ReadPayloadInv
<1>9. CASE UNCHANGED vars
  <2>1. /\ blocking' = blocking /\ log' = log /\ joined' = joined /\ frames' = frames
        /\ begun' = begun /\ part' = part /\ toWrite' = toWrite /\ cut' = cut
        /\ pipe' = pipe /\ recvBuffer' = recvBuffer /\ expected' = expected
        /\ delivered' = delivered
    BY <1>9 DEF vars, senderVars, readerVars
  <2>2. /\ frames' \in Seq(Seq(Typed)) /\ Len(frames) <= Len(frames')
        /\ \A f \in 1..Len(frames) : frames'[f] = frames[f]
    BY <2>1 DEF Inv, Types
  <2>3. /\ WritesTheRest' /\ BytesKnown' /\ Chained' /\ WriterFollows'
        /\ ReaderFollows' /\ FramesInOrder'
    BY <2>1, <2>2, FramesGrow DEF readerVars
  <2>4. Types'
    BY <2>1 DEF Inv, Types, IsSequence
  <2> QED BY <2>3, <2>4 DEF Inv
<1> QED BY <1>1, <1>2, <1>3, <1>4, <1>5, <1>6, <1>7, <1>8, <1>9 DEF Next, Send, Read

LEMMA SpecInv == Spec => []Inv
BY InitInv, NextInv, PTL DEF Spec

\* When neither end can go on there is no byte on the way: the last one that was
\* sent ends a frame, and the reader, in whose buffer it is, waits for more of
\* the frame before.
LEMMA NothingComing ==
    ASSUME Inv, AtRest, blocking
    PROVE  /\ Coming = <<>> /\ recvBuffer = <<>> /\ part = "idle"
           /\ begun = Len(frames) /\ cut = 0
<1> USE DEF Inv
<1>1. /\ pipe = <<>> /\ NeedsBytes /\ cut = 0 /\ Sure
  BY DEF AtRest, Types, Sure
<1>2. part = "idle" /\ begun = Len(frames)
  <2> SUFFICES ASSUME part # "idle", Fits = 0 PROVE FALSE
    BY DEF AtRest
  <2>1. Len(pipe) = PipeCap
    BY FitsType
  <2> QED BY <1>1, <2>1, Bounds
<1>3. /\ Len(Coming) = Len(recvBuffer) /\ Len(Coming) \in Nat
      /\ Coming = <<>> <=> Len(Coming) = 0
      /\ Len(recvBuffer) = 0 => recvBuffer = <<>>
  BY <1>1, ComingType DEF Types
<1> HIDE DEF Coming
<1>4. ASSUME Coming # <<>> PROVE FALSE
  <2> DEFINE c == Len(Coming)
             b == Coming[c]
             r == Reading
             o == ReaderAt[2]
  <2>1. c \in 1..Len(Coming) /\ c \in Nat
    BY <1>3, <1>4
  <2>2. NextByte(b) = <<begun + 1, 1 - HeaderLen>>
    BY <1>1, <1>2, <1>4 DEF WriterFollows, WriterAt
  <2>3. /\ b[1] \in 1..begun /\ b[2] \in Int /\ 1 - HeaderLen <= b[2]
        /\ Len(TextOf(b[1])) \in Nat \ {0}
    BY <2>1, ByteIsKnown
  <2>4. b[2] = Len(TextOf(b[1]))
    <3> HIDE DEF b
    <3> QED BY <2>2, <2>3, Bounds DEF NextByte
  <2>5. /\ r \in 1..begun /\ r \in 1..Len(frames)
        /\ c + o - 1 <= Len(TextOf(r)) => b = <<r, c + o - 1>>
    BY <1>1, <1>4, <2>1, FirstIsTheFrame
  <2>6. Len(TextOf(r)) \in Nat \ {0}
    BY <2>5, FrameText
  <2> HIDE DEF b, c
  <2>7. CASE expected = 0
    <3>1. o = 1 - HeaderLen /\ c < HeaderLen
      BY <1>1, <1>3, <2>7 DEF ReaderAt, NeedsBytes, c
    <3> HIDE DEF r, o
    <3>2. c + o - 1 = c - HeaderLen /\ c - HeaderLen < 0
      BY <2>1, <3>1, Bounds
    <3>3. b[2] = c - HeaderLen
      BY <2>1, <2>5, <2>6, <3>2, Bounds
    <3> QED BY <2>1, <2>3, <2>4, <3>2, <3>3, Bounds
  <2>8. CASE expected # 0
    <3>1. o = 1 /\ c < Len(TextOf(r))
      BY <1>1, <1>3, <2>8 DEF ReaderAt, NeedsBytes, ReaderFollows, c
    <3> HIDE DEF r, o
    <3>2. c + o - 1 = c
      BY <2>1, <3>1
    <3>3. b = <<r, c>>
      BY <2>1, <2>5, <2>6, <3>1, <3>2
    <3> QED BY <2>1, <2>4, <2>6, <3>1, <3>3
  <2> QED BY <2>7, <2>8
<1> QED BY <1>1, <1>2, <1>3, <1>4

\* However the bytes are divided, and whatever is typed, each frame is read once
\* and in order, up to the first one of which a send was cut.
THEOREM FramesAreInOrder == Spec => []FramesInOrder
<1>1. Inv => FramesInOrder
  BY DEF Inv
<1> QED BY <1>1, SpecInv, PTL

\* On a blocking socket nothing is lost, and the two ends never wait for each
\* other: when neither can go on, every message has been read.
THEOREM EverythingIsRead == Spec => []AllReadAtRest
<1>1. Inv => AllReadAtRest
  <2> SUFFICES ASSUME Inv, AtRest, blocking
               PROVE  /\ Len(delivered) = Len(frames)
                      /\ recvBuffer = <<>> /\ expected = 0
    BY DEF AllReadAtRest
  <2>1. /\ Coming = <<>> /\ recvBuffer = <<>> /\ part = "idle"
        /\ begun = Len(frames) /\ cut = 0
    BY NothingComing
  <2>2. <<begun + 1, 1 - HeaderLen>> = ReaderAt
    BY <2>1 DEF Inv, WriterFollows, WriterAt
  <2>3. expected = 0
    BY <2>2, Bounds DEF ReaderAt
  <2>4. Len(delivered) + 1 = begun + 1 /\ Len(delivered) \in Nat /\ begun \in Nat
    BY <2>2 DEF ReaderAt, Reading, Inv, Types, IsSequence
  <2> QED BY <2>1, <2>3, <2>4
<1> QED BY <1>1, SpecInv, PTL
=============================================================================
