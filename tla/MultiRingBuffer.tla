-------------------------- MODULE MultiRingBuffer --------------------------
(***************************************************************************)
(* The output of a terminal's process (process/src/node/multi-ring-buffer  *)
(* and terminal-process.ts): a ring that keeps the last maxSize bytes, and *)
(* the streams of the channels that are attached to it.  A stream first    *)
(* reads what the ring has, in pieces of the stream's buffer size, and     *)
(* then everything that is enqueued, at once.  Bytes are named by their    *)
(* place in the output, and some continue the character of the byte        *)
(* before: what is read of a character that is not whole is no text.       *)
(***************************************************************************)
EXTENDS Integers, Sequences, FiniteSets, SequencesExt

CONSTANTS
    maxSize,       \* bytes of the ring (1048576)
    HighWaterMark, \* how much a stream asks for before it flows (16384)
    Chunks,        \* lengths of what the process writes at once
    Continues,     \* the bytes that continue the character of the byte before
    MaxBytes,      \* how much it writes in all
    MaxStreams     \* how many streams are created

ASSUME RingAssumption ==
    /\ {maxSize, HighWaterMark} \subseteq Nat \ {0}
    /\ Chunks \subseteq Nat /\ Continues \subseteq Nat \ {0, 1} /\ {MaxBytes, MaxStreams} \subseteq Nat

VARIABLES
    ring,    \* the fields of MultiRingBuffer; the streams are its readers
    written, \* the bytes 1 .. written have been enqueued
    cut,     \* those that were dropped from a chunk that was too long for the ring
    atEnd,   \* those that were put in the last place of the ring
    from,    \* the first byte that a stream should have got
    before,  \* the last one that was written before the stream
    text     \* what the listener of every stream has got, -b for a byte b that was no text

ringVars == <<ring, written, cut, atEnd, from, before, text>>

Positions == 0 .. maxSize - 1
Streams == 0 .. MaxStreams - 1

----------------------------------------------------------------------------
(* The arithmetic of the ring: an end is -1 while the ring is empty, and a *)
(* reader is at -1 when it has read everything.                            *)

Inc(pos, size) ==
    LET newPos == IF size = 0 THEN pos ELSE (pos + size) % maxSize
    IN [newPos |-> newPos, wrap |-> size # 0 /\ newPos <= pos]

IsWrapped(start, end) == end < start

SizeFrom(start, end) ==
    IF start = -1 \/ end = -1 THEN 0
    ELSE IF IsWrapped(start, end) THEN end + 1 + maxSize - start ELSE end - start + 1

\* Would an end that moves on by size reach pos?
ShouldIncPos(pos, end, size) ==
    LET new == Inc(end, size)
    IN IF IsWrapped(pos, end) THEN new.wrap \/ new.newPos >= pos ELSE new.wrap /\ new.newPos >= pos

\* Wrong: a head that comes to the tail's own place does not push it.
IncTailLate(pos, size) ==
    IF ~ShouldIncPos(pos, ring.head, size) \/ Inc(ring.head, size).newPos = pos THEN pos
    ELSE Inc(Inc(ring.head, size).newPos, 1).newPos

IncTail(pos, size) ==
    IF ShouldIncPos(pos, ring.head, size) THEN Inc(Inc(ring.head, size).newPos, 1).newPos ELSE pos

SameCharacter(b, c) == (b + 1 .. c) \union (c + 1 .. b) \subseteq Continues
Character(b) == {c \in 1 .. MaxBytes : SameCharacter(b, c)}

\* Buffer.copy.
Copy(buffer, bytes, start) ==
    [p \in Positions |-> IF p - start + 1 \in DOMAIN bytes THEN bytes[p - start + 1] ELSE buffer[p]]

\* Buffer.toString: a part of a character is replaced by U+FFFD.
ToText(buffer, start, end) ==
    LET bytes == {buffer[p] : p \in start .. end - 1}
        decoded(b) == IF Character(b) \subseteq bytes THEN b ELSE -b
    IN [i \in 1 .. end - start |-> decoded(buffer[start + i - 1])]

----------------------------------------------------------------------------
(* deq of a reader at a position that is not -1.                           *)

Deq(r, pos, size) ==
    LET maxDeqSize == SizeFrom(pos, r.head)
        deqSize == IF size = -1 \/ size > maxDeqSize THEN maxDeqSize ELSE size
    IN [text |-> IF IsWrapped(pos, r.head)
                 THEN ToText(r.buffer, pos, maxSize) \o ToText(r.buffer, 0, deqSize - (maxSize - pos))
                 ELSE ToText(r.buffer, pos, pos + deqSize),
        pos |-> IF Inc(pos, deqSize - 1).newPos = r.head THEN -1 ELSE Inc(pos, deqSize).newPos]

\* MultiRingBufferReadableStream.deq: until there is nothing left.  A stream with a listener of its
\* data wants more after every piece.
ReadAll(r, start, size) ==
    LET read[pos \in Positions] ==
            LET piece == Deq(r, pos, size)
            IN piece.text \o IF piece.pos = -1 THEN << >> ELSE read[piece.pos]
    IN IF start = -1 THEN << >> ELSE read[start]

RingInit ==
    /\ ring = [buffer |-> [p \in Positions |-> 0], head |-> -1, tail |-> -1,
               readers |-> [s \in Streams |-> -1], streams |-> {}, readerId |-> 0]
    /\ written = 0
    /\ cut = {} /\ atEnd = {}
    /\ from = [s \in Streams |-> 1]
    /\ before = [s \in Streams |-> 0]
    /\ text = [s \in Streams |-> << >>]

\* Wrong: it is not cut.
SlicedNever(n) == [i \in 1 .. n |-> written + i]

\* Buffer.slice of a chunk that is too long.
Sliced(n) == LET length == IF n > maxSize THEN maxSize ELSE n
             IN [i \in 1 .. length |-> written + n - length + i]

\* Wrong: a reader that has read everything goes on at the last byte.
OnDataAtHead(r, start) ==
    /\ text' = [s \in Streams |-> IF s \in r.streams THEN text[s] \o ReadAll(r, r.head, -1) ELSE text[s]]
    /\ ring' = r

\* onData: a reader that has read everything goes on where the new bytes begin.
OnData(r, start) ==
    LET readers == [s \in Streams |-> IF s \in r.streams /\ r.readers[s] = -1 THEN start ELSE r.readers[s]]
    IN /\ text' = [s \in Streams |-> IF s \in r.streams THEN text[s] \o ReadAll(r, readers[s], -1) ELSE text[s]]
       /\ ring' = [r EXCEPT !.readers = [s \in Streams |-> IF s \in r.streams THEN -1 ELSE readers[s]]]

\* incTails moves the readers too, compared with the tail it has just moved.
IncTails(r, size) ==
    LET tail == IncTail(r.tail, size)
    IN [r EXCEPT !.tail = tail,
                 !.readers = [s \in Streams |->
                                IF r.readers[s] # -1 /\ ShouldIncPos(r.readers[s], tail, size) THEN tail
                                ELSE r.readers[s]]]

\* The process writes n bytes, which the terminal's listener of data gets as a string: no character
\* goes on in the next chunk.
Enq(n) ==
    /\ written + n <= MaxBytes /\ written + n + 1 \notin Continues
    /\ LET bytes == Sliced(n)
           size == Len(bytes)
           start == Inc(ring.head, 1).newPos
           first == [ring EXCEPT !.buffer = Copy(@, bytes, 0), !.head = size - 1, !.tail = 0]
           copied == IF Inc(start, size).wrap
                     THEN Copy(Copy(ring.buffer, bytes, start), SubSeq(bytes, maxSize - start + 1, size), 0)
                     ELSE Copy(ring.buffer, bytes, start)
           later == [IncTails(ring, size) EXCEPT !.buffer = copied, !.head = Inc(ring.head, size).newPos]
       IN \/ size = 0 /\ UNCHANGED <<ring, text>>
          \/ size > 0 /\ ring.head = -1 /\ OnData(first, 0)
          \/ size > 0 /\ ring.head # -1 /\ OnData(later, start)
    /\ written' = written + n
    /\ cut' = cut \union (written + 1 .. written + n - maxSize)
    /\ atEnd' = atEnd \union {ring'.buffer[maxSize - 1]}
    /\ UNCHANGED <<from, before>>

\* A channel of the terminal is opened: the stream begins at the tail and reads what there is when
\* its listener is installed.
GetStream ==
    /\ ring.readerId < MaxStreams
    /\ LET s == ring.readerId
       IN /\ ring' = [ring EXCEPT !.readers[s] = -1, !.streams = @ \union {s}, !.readerId = s + 1]
          /\ text' = [text EXCEPT ![s] = ReadAll(ring, ring.tail, HighWaterMark)]
          /\ from' = [from EXCEPT ![s] = IF written < maxSize THEN 1 ELSE written - maxSize + 1]
       /\ before' = [before EXCEPT ![s] = written]
    /\ UNCHANGED <<written, cut, atEnd>>

\* The channel is closed: closeStream and closeReader.
DisposeStream(s) ==
    /\ s \in ring.streams
    /\ ring' = [ring EXCEPT !.readers[s] = -1, !.streams = @ \ {s}]
    /\ text' = [text EXCEPT ![s] = << >>]
    /\ UNCHANGED <<written, cut, atEnd, from, before>>

RingNext ==
    \/ \E n \in Chunks : Enq(n)
    \/ GetStream
    \/ \E s \in Streams : DisposeStream(s)

RingSpec == RingInit /\ [][RingNext]_ringVars

----------------------------------------------------------------------------
(* Properties.                                                             *)

\* The two ends are in the ring and both set or both -1, and between two callbacks no stream is
\* behind: the readers that incTails moves are all at -1.
RingTypeOK ==
    /\ ring.buffer \in [Positions -> 0 .. MaxBytes]
    /\ {ring.head, ring.tail} \subseteq Positions \union {-1}
    /\ (ring.head = -1) = (ring.tail = -1)
    /\ ring.readers \in [Streams -> {-1}]
    /\ ring.streams \subseteq 0 .. ring.readerId - 1
    /\ written \in 0 .. MaxBytes

\* However the chunks wrap around, from tail to head the ring holds the last bytes of the output,
\* in order and as many as fit.
RingHoldsLast ==
    LET size == IF written < maxSize THEN written ELSE maxSize
    IN /\ SizeFrom(ring.tail, ring.head) = size
       /\ \A i \in 0 .. size - 1 : ring.buffer[(ring.tail + i) % maxSize] = written - size + 1 + i

\* Where what a stream reads may cut a character: at the end of the ring, at what was dropped of a
\* chunk, and, in what was there when it was attached, between the pieces it asks for.
Borders(s) ==
    atEnd \union cut
        \union ({from[s] - 1 + k * HighWaterMark : k \in 0 .. MaxBytes} \intersect (from[s] - 1 .. before[s]))

\* The characters of b, of c and of the byte after c are one.
CutAt(b, c) == SameCharacter(b, c) /\ SameCharacter(b, c + 1)

\* A terminal that is attached, again or for the first time, shows the output that was kept and all
\* that came after, in order: a byte appears for the first time after all that were written before.
\* It is replaced only as a part of a character that goes over one of the borders.
StreamsMissNothing ==
    \A s \in ring.streams :
        LET shows(b, i) == text[s][i] \in {b, -b}
            first(b) == CHOOSE i \in DOMAIN text[s] : shows(b, i) /\ \A j \in 1 .. i - 1 : ~shows(b, j)
            shown == (from[s] .. written) \ cut
        IN /\ \A i \in DOMAIN text[s] : \E b \in shown : shows(b, i)
           /\ \A b \in shown : \E i \in DOMAIN text[s] : shows(b, i)
           /\ \A b, c \in shown : b < c => first(b) < first(c)
           /\ \A i \in DOMAIN text[s] : text[s][i] < 0 => \E c \in Borders(s) : CutAt(-text[s][i], c)

\* "These readers are created using the getReader or getStream functions to create a reader that can
\* be read using deq() or one that is a readable stream.": nothing is read twice.
NothingReadTwice ==
    \A s \in ring.streams : \A i, j \in DOMAIN text[s] : text[s][i] \in {text[s][j], -text[s][j]} => i = j
=============================================================================
