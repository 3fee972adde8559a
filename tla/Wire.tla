-------------------------------- MODULE Wire --------------------------------
(***************************************************************************)
(* One direction of one connection: what a user types, the messages made   *)
(* of it, the frames they are sent in (sendFrame), the kernel's buffers,   *)
(* and the reading of frames and messages at the other end (readFromPeer,  *)
(* parseMessage).                                                          *)
(*                                                                         *)
(* A byte is named <<f, i>>: byte i of the text of frame f, or, for i <= 0 *)
(* a byte of its header.  A character counts as one byte.                  *)
(***************************************************************************)
EXTENDS WireFormat

CONSTANTS Char,        \* the characters that are typed
          MaxTyped,    \* bound: how many are typed
          HeaderLen,   \* bytes of a header (4 in the code)
          PipeCap,     \* bytes the kernel holds between the two ends
          ReadSize,    \* bytes one recv returns at most (4096)
          Chunks,      \* bound: how many it may return of those that are there
          MisreadLen   \* what a header made of other bytes may say

ASSUME WireAssumption ==
    /\ MaxTyped \in Nat
    /\ {HeaderLen, PipeCap, ReadSize} \subseteq Nat \ {0}
    /\ Chunks \cup MisreadLen \subseteq Nat \ {0}

VARIABLES
    blocking,   \* the sender's socket blocks: it has dialed, not accepted
    joined,     \* the connection is open
    log,        \* the operations typed
    frames,     \* the messages queued, each a sequence of operations
    begun,      \* how many of them sendFrame has been called for
    part,       \* of sendFrame: "idle", "header", "payload"
    toWrite,    \* the bytes the present send has not got rid of
    cut,        \* the first frame of which bytes were discarded, or 0
    pipe,       \* the bytes on their way
    recvBuffer, \* recv_buffer of the peer
    expected,   \* expected_len
    delivered   \* the operations made of each frame read

senderVars == <<log, joined, frames, begun, part, toWrite, cut>>
readerVars == <<recvBuffer, expected, delivered>>
vars == <<blocking, senderVars, pipe, readerVars>>

TextOf(f) == SerializeMessage(frames[f])

Header(f)  == [i \in 1..HeaderLen |-> <<f, i - HeaderLen>>]
Payload(f) == [i \in 1..Len(TextOf(f)) |-> <<f, i>>]

Token(byte) == IF byte[2] > 0 THEN TextOf(byte[1])[byte[2]] ELSE "#"

Init ==
    /\ blocking \in BOOLEAN
    /\ joined = FALSE
    /\ log = <<>> /\ frames = <<>> /\ begun = 0
    /\ part = "idle" /\ toWrite = <<>> /\ cut = 0
    /\ pipe = <<>>
    /\ recvBuffer = <<>> /\ expected = 0 /\ delivered = <<>>

(***************************************************************************)
(* What is sent                                                            *)
(***************************************************************************)
\* A character is typed; once the connection is open it goes into a message of
\* its own.
Type ==
    /\ Len(log) < MaxTyped
    /\ \E ch \in Char :
         LET op == [id |-> OpName(Len(log) + 1), ch |-> ch]
         IN  /\ log' = Append(log, op)
             /\ frames' = IF joined THEN Append(frames, <<op>>) ELSE frames
    /\ UNCHANGED <<blocking, joined, begun, part, toWrite, cut, pipe>>
    /\ UNCHANGED readerVars

\* The connection opens.  What was typed before is sent in a snapshot.
Join ==
    /\ ~joined /\ joined' = TRUE
    /\ frames' = IF log = <<>> THEN <<>> ELSE <<log>>
    /\ UNCHANGED <<blocking, log, begun, part, toWrite, cut, pipe>>
    /\ UNCHANGED readerVars

(***************************************************************************)
(* sendFrame: a send for the header and one for the payload, whose results *)
(* are not looked at.                                                      *)
(***************************************************************************)
BeginFrame ==
    /\ part = "idle" /\ begun < Len(frames)
    /\ begun' = begun + 1
    /\ part' = "header"
    /\ toWrite' = Header(begun + 1)
    /\ UNCHANGED <<blocking, log, joined, frames, cut, pipe>>
    /\ UNCHANGED readerVars

Fits == LET room == PipeCap - Len(pipe)
        IN  IF room < Len(toWrite) THEN room ELSE Len(toWrite)

\* This send is over.
EndSend ==
    /\ part' = IF part = "header" THEN "payload" ELSE "idle"
    /\ toWrite' = IF part = "header" THEN Payload(begun) ELSE <<>>

\* Mutant: the rest of a send is forgotten.
BlockingSendOnce ==
    /\ blocking /\ part # "idle" /\ Fits > 0
    /\ pipe' = pipe \o SubSeq(toWrite, 1, Fits)
    /\ EndSend
    /\ UNCHANGED <<blocking, log, joined, frames, begun, cut>>
    /\ UNCHANGED readerVars

\* A blocking socket takes what fits and keeps the thread until all is taken.
BlockingSend ==
    /\ blocking /\ part # "idle" /\ Fits > 0
    /\ pipe' = pipe \o SubSeq(toWrite, 1, Fits)
    /\ IF Fits = Len(toWrite) THEN EndSend
       ELSE /\ toWrite' = SubSeq(toWrite, Fits + 1, Len(toWrite))
            /\ UNCHANGED part
    /\ UNCHANGED <<blocking, log, joined, frames, begun, cut>>
    /\ UNCHANGED readerVars

\* A non-blocking socket takes what fits; the rest is lost.
NonBlockingSend ==
    /\ ~blocking /\ part # "idle"
    /\ pipe' = pipe \o SubSeq(toWrite, 1, Fits)
    /\ cut' = IF cut = 0 /\ Fits < Len(toWrite) THEN begun ELSE cut
    /\ EndSend
    /\ UNCHANGED <<blocking, log, joined, frames, begun>>
    /\ UNCHANGED readerVars

(***************************************************************************)
(* readFromPeer                                                            *)
(***************************************************************************)
\* The length is known, or there are too few bytes for it, and the bytes there
\* are do not make a frame.
NeedsBytes == IF expected = 0 THEN Len(recvBuffer) < HeaderLen
              ELSE Len(recvBuffer) < expected

\* recv returns what is there or, when the rest is still on its way, less.
Recv ==
    /\ NeedsBytes
    /\ \E n \in (Chunks \cup {Len(pipe), ReadSize}) \cap 1..Len(pipe) :
         /\ n <= ReadSize
         /\ recvBuffer' = recvBuffer \o SubSeq(pipe, 1, n)
         /\ pipe' = SubSeq(pipe, n + 1, Len(pipe))
    /\ UNCHANGED <<blocking, expected, delivered>>
    /\ UNCHANGED senderVars

\* The first bytes are taken for the length of a frame.  If they are not the
\* header of one, they say something else.
ReadHeader ==
    /\ expected = 0 /\ ~NeedsBytes
    /\ LET bytes == SubSeq(recvBuffer, 1, HeaderLen)
           f     == bytes[1][1]
       IN  expected' \in IF bytes = Header(f) THEN {Len(TextOf(f))} ELSE MisreadLen
    /\ recvBuffer' = SubSeq(recvBuffer, HeaderLen + 1, Len(recvBuffer))
    /\ UNCHANGED <<blocking, delivered, pipe>>
    /\ UNCHANGED senderVars

\* Mutant: what came with the last bytes of the frame is thrown away.
ReadPayloadAlone ==
    /\ expected # 0 /\ ~NeedsBytes
    /\ LET bytes == SubSeq(recvBuffer, 1, expected)
       IN  delivered' = Append(delivered,
                ParseMessage([i \in DOMAIN bytes |-> Token(bytes[i])]))
    /\ recvBuffer' = <<>>
    /\ expected' = 0
    /\ UNCHANGED <<blocking, pipe>>
    /\ UNCHANGED senderVars

\* A frame is complete: its operations are read.
ReadPayload ==
    /\ expected # 0 /\ ~NeedsBytes
    /\ LET bytes == SubSeq(recvBuffer, 1, expected)
       IN  delivered' = Append(delivered,
                ParseMessage([i \in DOMAIN bytes |-> Token(bytes[i])]))
    /\ recvBuffer' = SubSeq(recvBuffer, expected + 1, Len(recvBuffer))
    /\ expected' = 0
    /\ UNCHANGED <<blocking, pipe>>
    /\ UNCHANGED senderVars

Send == BeginFrame \/ BlockingSend \/ NonBlockingSend
Read == Recv \/ ReadHeader \/ ReadPayload

Next == Type \/ Join \/ Send \/ Read

Spec == Init /\ [][Next]_vars

-----------------------------------------------------------------------------
\* Frames before this one went out whole.
Whole == IF cut = 0 THEN Len(frames) ELSE cut - 1

ReadWhole == 1..(IF Len(delivered) < Whole THEN Len(delivered) ELSE Whole)

\* However the bytes are divided, and whatever is typed, each frame is read once
\* and in order, up to the first one of which a send was cut (network.cpp
\* 290-353).
FramesInOrder ==
    /\ \A f \in ReadWhole : delivered[f] = ParseMessage(TextOf(f))
    /\ cut = 0 => Len(delivered) <= begun

\* The operations before the first backslash of a message.
BeforeBackslash(ops) ==
    LET at == {i \in DOMAIN ops : ops[i].ch = Backslash}
    IN  IF at = {} THEN ops ELSE SubSeq(ops, 1, Min(at) - 1)

\* What is read of a message is what was sent, up to the first backslash typed,
\* whatever quotes, braces and line breaks there are; behind it operations can
\* be missing, but none is made up, doubled or out of order (crdt.cpp 271-293:
\* splitObjects takes the quote behind an escaped backslash for an escaped one).
ParsedAsSent ==
    \A f \in ReadWhole :
        LET sent  == frames[f]
            got   == delivered[f]
            names == [i \in DOMAIN got |-> got[i].id]
        IN  /\ IsPrefix(BeforeBackslash(sent), got)
            /\ \E kept \in SUBSET DOMAIN sent :
                   names = [i \in 1..Cardinality(kept) |->
                              sent[CHOOSE k \in kept :
                                     Cardinality({j \in kept : j < k}) = i - 1].id]

\* Neither end can do anything more, or both wait for each other.
AtRest ==
    /\ pipe = <<>> /\ NeedsBytes
    /\ IF part = "idle" THEN begun = Len(frames) ELSE blocking /\ Fits = 0

\* On a blocking socket nothing is lost, and the ends never wait for each other:
\* when neither can go on, every message queued has been read, to the last byte
\* (network.cpp 290-353).
AllReadAtRest ==
    AtRest /\ blocking => /\ Len(delivered) = Len(frames)
                          /\ recvBuffer = <<>> /\ expected = 0
=============================================================================
