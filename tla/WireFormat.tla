----------------------------- MODULE WireFormat -----------------------------
(***************************************************************************)
(* The text of a message: serializeMessage, splitObjects, parseMessage     *)
(* (crdt.cpp) and the JSON escapes (utils.cpp).                            *)
(*                                                                         *)
(* A text is a sequence of tokens.  A token is one character, except that  *)
(* the name of a field and the name of an operation, in which nothing is   *)
(* ever escaped, are one token each.  Of the fields of an operation op_id  *)
(* and ch are kept; those between them have the form of op_id, and so have *)
(* the fields of a message before ops.  Searches that fail give the empty  *)
(* set, where the code has a Boolean result and an output parameter.       *)
(***************************************************************************)
EXTENDS Integers, Sequences, FiniteSets, SequencesExt, TLC

Quote == "\""
Backslash == "\\"
Newline == "LF"
Letter == "n"       \* also the letter jsonEscape puts for a line break

\* ch of an operation in which none was found.
NoCh == "NUL"

\* A name is a text.
OpName(n) == <<ToString(n)>>

(***************************************************************************)
(* Escapes                                                                 *)
(***************************************************************************)
JsonEscape(ch) ==
    CASE ch \in {Quote, Backslash} -> <<Backslash, ch>>
      [] ch = Newline              -> <<Backslash, Letter>>
      [] OTHER                     -> <<ch>>

\* One token more of jsonUnescape: half says that the last was a backslash.
Unescaped(st, t) ==
    IF st.half
    THEN [half |-> FALSE,
          out  |-> Append(st.out, IF t = Letter THEN Newline ELSE t)]
    ELSE IF t = Backslash THEN [st EXCEPT !.half = TRUE]
    ELSE [st EXCEPT !.out = Append(@, t)]

\* A backslash at the very end stands for itself.
JsonUnescape(text) ==
    LET st == FoldLeft(Unescaped, [half |-> FALSE, out |-> <<>>], text)
    IN  IF st.half THEN Append(st.out, Backslash) ELSE st.out

(***************************************************************************)
(* Writing                                                                 *)
(***************************************************************************)
Field(name, value) ==
    <<Quote, name, Quote, ":", Quote>> \o value \o <<Quote>>

OpText(op) ==
    <<"{">> \o Field("op_id", op.id)
            \o <<",">> \o Field("ch", JsonEscape(op.ch)) \o <<"}">>

SerializeMessage(ops) ==
    <<"{", Quote, "ops", Quote, ":", "[">>
    \o FlattenSeq([i \in 1..Len(ops) |->
                      OpText(ops[i]) \o (IF i < Len(ops) THEN <<",">> ELSE <<>>)])
    \o <<"]", "}">>

(***************************************************************************)
(* Reading                                                                 *)
(***************************************************************************)
\* Where token t first stands in a text, from position from on.
Find(text, t, from) ==
    LET at == {i \in from..Len(text) : text[i] = t}
    IN  IF at = {} THEN {} ELSE {Min(at)}

\* Where "name", with its quotes, first begins.
FindName(text, name) ==
    LET at == {i \in 1..Len(text) - 2 :
                  SubSeq(text, i, i + 2) = <<Quote, name, Quote>>}
    IN  IF at = {} THEN {} ELSE {Min(at)}

\* The closing quote of the string opened at position open: the first one that
\* an odd number of backslashes does not precede.
ClosingQuote(text, open) ==
    LET Escaped(i) ==
            LET plain == {j \in open..i - 1 : text[j] # Backslash}
            IN  (i - 1 - Max(plain)) % 2 = 1
        at == {i \in open + 1..Len(text) : text[i] = Quote /\ ~Escaped(i)}
    IN  IF at = {} THEN {} ELSE {Min(at)}

\* extractString: the value of the first field of that name.
ExtractString(text, name) ==
    UNION {UNION {UNION {
        {JsonUnescape(SubSeq(text, open + 1, end - 1)) :
            end \in ClosingQuote(text, open)} :
        open \in Find(text, Quote, colon)} :
        colon \in Find(text, ":", at)} :
        at \in FindName(text, name)}

\* Mutant: braces count wherever they stand.
SplitAnywhere(text, st, i) ==
    LET c == text[i]
    IN  IF c \notin {"{", "}"} THEN st
        ELSE IF c = "{"
        THEN [st EXCEPT !.depth = @ + 1,
                        !.start = IF st.depth = 0 THEN i ELSE @]
        ELSE IF st.depth = 1 /\ st.start # 0
        THEN [st EXCEPT !.depth = 0, !.start = 0,
                        !.objects = Append(@, SubSeq(text, st.start, i))]
        ELSE [st EXCEPT !.depth = @ - 1]

\* Position i of splitObjects.  A quote after a backslash changes nothing,
\* whether or not that backslash is itself escaped.
Split(text, st, i) ==
    LET c == text[i]
        inString == IF c = Quote /\ (i = 1 \/ text[i - 1] # Backslash)
                    THEN ~st.inString ELSE st.inString
        at == [st EXCEPT !.inString = inString]
    IN  IF inString \/ c \notin {"{", "}"} THEN at
        ELSE IF c = "{"
        THEN [at EXCEPT !.depth = @ + 1,
                        !.start = IF st.depth = 0 THEN i ELSE @]
        ELSE IF st.depth = 1 /\ st.start # 0
        THEN [at EXCEPT !.depth = 0, !.start = 0,
                        !.objects = Append(@, SubSeq(text, st.start, i))]
        ELSE [at EXCEPT !.depth = @ - 1]

SplitObjects(text) ==
    FoldLeft(LAMBDA st, i : Split(text, st, i),
             [depth |-> 0, inString |-> FALSE, start |-> 0, objects |-> <<>>],
             [i \in 1..Len(text) |-> i]).objects

\* The operation in an object, if it has a name.  Of the text of ch the first
\* character counts.
ParseOp(object) ==
    LET ch == {c \in ExtractString(object, "ch") : c # <<>>}
    IN  IF ExtractString(object, "op_id") = {} THEN <<>>
        ELSE <<[id |-> CHOOSE id \in ExtractString(object, "op_id") : TRUE,
                ch |-> IF ch = {} THEN NoCh ELSE (CHOOSE c \in ch : TRUE)[1]]>>

\* parseMessage: the objects between the first bracket after ops and the last
\* one of the text.
ParseMessage(text) ==
    LET first == UNION {Find(text, "[", at) : at \in FindName(text, "ops")}
        last  == {i \in 1..Len(text) : text[i] = "]"}
    IN  IF first = {} \/ last = {} THEN <<>>
        ELSE LET objects == SplitObjects(SubSeq(text, Min(first), Max(last)))
             IN  FlattenSeq([i \in DOMAIN objects |-> ParseOp(objects[i])])
=============================================================================
