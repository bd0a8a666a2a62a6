-------------------------- MODULE Processes_proofs --------------------------
(***************************************************************************)
(* Proofs about the processes of the backend: what a terminal shows of the *)
(* output of its process (MultiRingBuffer), and how widgets and processes  *)
(* stay together (Terminals).                                              *)
(*                                                                         *)
(* The ring holds the last bytes for every size of the ring, every chunk   *)
(* and any number of streams.  The invariant counts back from the head, so *)
(* that what a chunk adds is in front of what was there, and every         *)
(* remainder is of a number below 2 * maxSize.  What a stream reads is     *)
(* shown by the least distance from the head at which it would go wrong.   *)
(* The characters it cuts are those at the borders of its pieces: a set    *)
(* that has the first of them and, with each, the next.                    *)
(*                                                                         *)
(* For any widgets, processes, sockets and reloads, what ties a widget to  *)
(* its process is mostly under way: in requests, in answers, and in the    *)
(* exits that follow them.  The invariant is about these messages: a       *)
(* terminal is named to one widget; a widget has one talk at a time on the *)
(* socket of the page; and an exit comes after the answer that it is       *)
(* about.                                                                  *)
(***************************************************************************)
EXTENDS MultiRingBuffer, Terminals, SequenceTheorems, FunctionTheorems, FiniteSetTheorems,
        WellFoundedInduction, TLAPS

----------------------------------------------------------------------------
(* The ring.                                                               *)

Kept(n) == IF n < maxSize THEN n ELSE maxSize
Back(pos, e) == IF e <= pos THEN pos - e ELSE pos - e + maxSize

Rings ==
  [buffer : [Positions -> 0 .. MaxBytes], head : Positions \union {-1}, tail : Positions \union {-1},
   readers : [Streams -> {-1}], streams : SUBSET Streams, readerId : 0 .. MaxStreams]

TypeInv ==
  /\ ring \in Rings
  /\ ring.streams \subseteq 0 .. ring.readerId - 1
  /\ written \in 0 .. MaxBytes

\* The last size bytes before and at a head.
HoldsBack(r, size, last) ==
  /\ r.tail = Back(r.head, size - 1)
  /\ \A e \in 0 .. size - 1 : r.buffer[Back(r.head, e)] = last - e

BytesInv ==
  IF written = 0 THEN ring.head = -1 /\ ring.tail = -1
  ELSE /\ ring.head \in Positions
       /\ HoldsBack(ring, Kept(written), written)

RingInv == TypeInv /\ BytesInv

-----------------------------------------------------------------------------
(* Remainders, and the arithmetic of the ring. *)

LEMMA Sizes == maxSize \in Nat \ {0} /\ MaxBytes \in Nat /\ MaxStreams \in Nat /\ Chunks \subseteq Nat
BY RingAssumption

LEMMA Remainder ==
  ASSUME NEW x \in 0 .. 2 * maxSize - 1
  PROVE  x % maxSize = IF x < maxSize THEN x ELSE x - maxSize
<1>1. CASE x < maxSize
  BY <1>1, Sizes
<1>2. CASE x >= maxSize
  BY <1>2, Sizes
<1> QED
  BY <1>1, <1>2, Sizes

LEMMA BackType ==
  ASSUME NEW pos \in Positions, NEW e \in Positions
  PROVE  Back(pos, e) \in Positions
BY Sizes DEF Back, Positions

\* What Inc does to an end that moves by at most the ring.
LEMMA IncIs ==
  ASSUME NEW pos \in Positions, NEW size \in 0 .. maxSize
  PROVE  /\ Inc(pos, size).newPos = IF pos + size < maxSize THEN pos + size ELSE pos + size - maxSize
         /\ Inc(pos, size).newPos \in Positions
         /\ Inc(pos, size).wrap <=> pos + size >= maxSize
<1> DEFINE x == pos + size
<1>1. x \in 0 .. 2 * maxSize - 1
  BY Sizes DEF Positions
<1>2. Inc(pos, size).newPos = IF size = 0 THEN pos ELSE x % maxSize
  BY Zenon DEF Inc
<1> HIDE DEF x
<1>3. Inc(pos, size).newPos = IF pos + size < maxSize THEN pos + size ELSE pos + size - maxSize
  <2>1. x % maxSize = IF x < maxSize THEN x ELSE x - maxSize
    BY <1>1, Remainder, Zenon
  <2>2. x = pos + size
    BY DEF x
  <2> HIDE DEF x
  <2> QED
    BY <1>2, <2>1, <2>2, Sizes DEF Positions
<1>4. Inc(pos, size).wrap <=> size # 0 /\ Inc(pos, size).newPos <= pos
  BY Zenon DEF Inc
<1> QED
  BY <1>3, <1>4, Sizes DEF Positions

\* incTail moves the tail exactly when the chunk does not fit, and then behind the new head.
LEMMA IncTailIs ==
  ASSUME NEW r \in Rings, ring = r, r.head \in Positions, NEW kept \in 1 .. maxSize,
         r.tail = Back(r.head, kept - 1), NEW size \in 1 .. maxSize
  PROVE  LET head == Inc(r.head, size).newPos
             now == IF kept + size < maxSize THEN kept + size ELSE maxSize
         IN IncTail(r.tail, size) = Back(head, now - 1)
<1> DEFINE head == Inc(r.head, size).newPos
           wrap == Inc(r.head, size).wrap
<1>1. /\ head = IF r.head + size < maxSize THEN r.head + size ELSE r.head + size - maxSize
      /\ head \in Positions
      /\ wrap <=> r.head + size >= maxSize
  BY IncIs, Sizes
<1>2. r.tail \in Positions
  <2>1. kept - 1 \in Positions
    BY Sizes DEF Positions
  <2> QED
    BY <2>1, BackType
<1>3. Inc(head, 1).newPos = IF head + 1 < maxSize THEN head + 1 ELSE head + 1 - maxSize
  BY <1>1, IncIs, Sizes
<1>4. ShouldIncPos(r.tail, r.head, size) <=>
        IF r.head < r.tail THEN wrap \/ head >= r.tail ELSE wrap /\ head >= r.tail
  BY Zenon DEF ShouldIncPos, IsWrapped
<1> HIDE DEF head, wrap
<1>5. ShouldIncPos(r.tail, r.head, size) <=> kept + size > maxSize
  BY <1>1, <1>2, <1>4, Sizes DEF Back, Positions
<1>6. CASE kept + size > maxSize
  <2>1. IncTail(r.tail, size) = Inc(head, 1).newPos
    BY <1>5, <1>6 DEF IncTail, head
  <2> QED
    BY <1>1, <1>3, <1>6, <2>1, Sizes DEF Back, Positions, head
<1>7. CASE kept + size <= maxSize
  <2>1. IncTail(r.tail, size) = r.tail
    BY <1>5, <1>7, Sizes DEF IncTail
  <2> QED
    BY <1>1, <1>7, <2>1, Sizes DEF Back, Positions, head
<1> QED
  BY <1>6, <1>7, Sizes

-----------------------------------------------------------------------------
(* What a chunk does to the buffer. *)

\* How far p is behind start, going around.
Off(start, p) == IF p >= start THEN p - start ELSE p - start + maxSize

Copied(buffer, bytes, start) ==
  IF Inc(start, Len(bytes)).wrap
  THEN Copy(Copy(buffer, bytes, start), SubSeq(bytes, maxSize - start + 1, Len(bytes)), 0)
  ELSE Copy(buffer, bytes, start)

LEMMA SlicedIs ==
  ASSUME NEW n \in Nat, written \in Nat
  PROVE  /\ Sliced(n) \in Seq(Nat)
         /\ Len(Sliced(n)) = Kept(n)
         /\ \A i \in 1 .. Kept(n) : Sliced(n)[i] = written + n - Kept(n) + i
<1>1. Kept(n) \in 0 .. n /\ Kept(n) \in 0 .. maxSize
  BY Sizes DEF Kept
<1>2. Sliced(n) = [i \in 1 .. Kept(n) |-> written + n - Kept(n) + i]
  BY <1>1, Sizes DEF Sliced, Kept
<1> HIDE DEF Kept
<1> QED
  BY <1>1, <1>2

LEMMA CopiedIs ==
  ASSUME NEW buffer \in [Positions -> Int], NEW bytes \in Seq(Nat), NEW start \in Positions,
         Len(bytes) \in 1 .. maxSize
  PROVE  Copied(buffer, bytes, start) =
           [p \in Positions |-> IF Off(start, p) < Len(bytes) THEN bytes[Off(start, p) + 1] ELSE buffer[p]]
<1> DEFINE size == Len(bytes)
           rest == SubSeq(bytes, maxSize - start + 1, size)
           once == Copy(buffer, bytes, start)
<1>0. size \in 1 .. maxSize /\ DOMAIN bytes = 1 .. size
  OBVIOUS
<1>1. Inc(start, size).wrap <=> start + size >= maxSize
  BY IncIs, Sizes
<1>2. CASE start + size >= maxSize
  <2>1. rest \in Seq(Nat) /\ Len(rest) = start + size - maxSize
    <3>1. maxSize - start + 1 \in 1 .. size + 1 /\ size \in Nat
      BY <1>0, <1>2, Sizes DEF Positions
    <3> HIDE DEF size
    <3>2. rest \in Seq(Nat)
      BY <1>0, <3>1, SubSeqProperties
    <3>3. Len(rest) = size - (maxSize - start + 1) + 1
      BY <1>0, <3>1, SubSeqProperties
    <3> QED
      BY <1>0, <3>2, <3>3, Sizes DEF Positions
  <2>2. \A i \in 1 .. Len(rest) : rest[i] = bytes[maxSize - start + i]
    <3> DEFINE first == maxSize - start + 1
    <3>1. first \in Int /\ size \in Int /\ \A i \in first .. size : bytes[i] \in Nat
      BY <1>0, Sizes DEF Positions
    <3>2. \A i \in 1 .. size - first + 1 : rest[i] = bytes[first + i - 1]
      <4> HIDE DEF size
      <4> QED
        BY <3>1, SubSeqProperties
    <3>3. Len(rest) = size - first + 1
      BY <1>0, <2>1, Sizes DEF Positions
    <3> SUFFICES ASSUME NEW i \in 1 .. Len(rest)
                 PROVE  rest[i] = bytes[maxSize - start + i]
      OBVIOUS
    <3>4. first + i - 1 = maxSize - start + i
      BY Sizes DEF Positions
    <3> HIDE DEF first, rest, size
    <3>5. rest[i] = bytes[first + i - 1]
      BY <3>2, <3>3
    <3> QED
      BY <3>4, <3>5, Zenon
  <2>3. DOMAIN rest = 1 .. start + size - maxSize
    BY <2>1
  <2>4. Copied(buffer, bytes, start) = Copy(once, rest, 0)
    BY <1>1, <1>2, Zenon DEF Copied
  <2> HIDE DEF rest, size
  <2> SUFFICES ASSUME NEW p \in Positions
               PROVE  Copy(once, rest, 0)[p] =
                        IF Off(start, p) < size THEN bytes[Off(start, p) + 1] ELSE buffer[p]
    BY <2>4 DEF Copy, size
  <2>5. CASE p >= start /\ p - start < size
    BY <1>0, <1>2, <2>3, <2>5, Sizes DEF Copy, Off, Positions
  <2>6. CASE p >= start /\ p - start >= size
    BY <1>0, <1>2, <2>3, <2>6, Sizes DEF Copy, Off, Positions
  <2>7. CASE p < start /\ p - start + maxSize < size
    <3>1. p + 1 \in 1 .. start + size - maxSize
      BY <1>0, <1>2, <2>7, Sizes DEF Positions
    <3>2. rest[p + 1] = bytes[maxSize - start + (p + 1)]
      BY <2>1, <2>2, <3>1
    <3> QED
      BY <1>0, <2>3, <2>7, <3>1, <3>2, Sizes DEF Copy, Off, Positions
  <2>8. CASE p < start /\ p - start + maxSize >= size
    BY <1>0, <1>2, <2>3, <2>8, Sizes DEF Copy, Off, Positions
  <2> QED
    BY <1>0, <2>5, <2>6, <2>7, <2>8, Sizes DEF Positions
<1>3. CASE start + size < maxSize
  <2>0. ~(start + size >= maxSize)
    BY <1>0, <1>3, Sizes DEF Positions
  <2>1. Copied(buffer, bytes, start) = Copy(buffer, bytes, start)
    BY <1>1, <2>0, Zenon DEF Copied
  <2> QED
    BY <1>0, <1>3, <2>1, Sizes DEF Copy, Off, Positions
<1> QED
  BY <1>2, <1>3, Sizes DEF Positions
-----------------------------------------------------------------------------
(* The steps.  Between two of them every reader is at -1, so that onData    *)
(* and incTails leave the readers there. *)

LEMMA OnDataKeeps ==
  ASSUME NEW r \in Rings, NEW start, OnData(r, start)
  PROVE  ring' = r
<1>1. r.readers = [s \in Streams |-> -1]
  BY DEF Rings
<1> DEFINE readers == [s \in Streams |-> IF s \in r.streams /\ r.readers[s] = -1 THEN start ELSE r.readers[s]]
<1>2. [s \in Streams |-> IF s \in r.streams THEN -1 ELSE readers[s]] = r.readers
  BY <1>1
<1>3. ring' = [r EXCEPT !.readers = [s \in Streams |-> IF s \in r.streams THEN -1 ELSE readers[s]]]
  BY DEF OnData
<1> QED
  BY <1>2, <1>3 DEF Rings

LEMMA IncTailsKeeps ==
  ASSUME NEW r \in Rings, NEW size
  PROVE  IncTails(r, size) = [r EXCEPT !.tail = IncTail(r.tail, size)]
<1>1. r.readers = [s \in Streams |-> -1]
  BY DEF Rings
<1> DEFINE tail == IncTail(r.tail, size)
<1>2. [s \in Streams |-> IF r.readers[s] # -1 /\ ShouldIncPos(r.readers[s], tail, size) THEN tail
                          ELSE r.readers[s]] = r.readers
  BY <1>1
<1> QED
  BY <1>2 DEF IncTails, Rings

\* The first bytes of the output.
LEMMA FirstBytes ==
  ASSUME RingInv, NEW n \in 1 .. MaxBytes, written = 0,
         NEW r, r = [ring EXCEPT !.buffer = Copy(@, Sliced(n), 0), !.head = Kept(n) - 1, !.tail = 0]
  PROVE  /\ r \in Rings
         /\ r.head \in Positions
         /\ HoldsBack(r, Kept(n), n)
<1>0. ring \in Rings /\ Kept(n) \in 1 .. maxSize /\ Kept(n) \in 1 .. n
  BY Sizes DEF RingInv, TypeInv, Kept
<1>1. /\ Sliced(n) \in Seq(Nat) /\ DOMAIN Sliced(n) = 1 .. Kept(n)
      /\ \A i \in 1 .. Kept(n) : Sliced(n)[i] = n - Kept(n) + i
  BY SlicedIs
<1> HIDE DEF Kept
<1>2. r.buffer = [p \in Positions |-> IF p + 1 \in 1 .. Kept(n) THEN Sliced(n)[p + 1] ELSE ring.buffer[p]]
  BY <1>0, <1>1, Sizes DEF Copy, Rings, Positions
<1>3. r.buffer \in [Positions -> 0 .. MaxBytes]
  <2> SUFFICES ASSUME NEW p \in Positions
               PROVE  (IF p + 1 \in 1 .. Kept(n) THEN Sliced(n)[p + 1] ELSE ring.buffer[p]) \in 0 .. MaxBytes
    BY <1>2
  <2>1. ring.buffer[p] \in 0 .. MaxBytes
    BY <1>0 DEF Rings
  <2>2. \A i \in 1 .. Kept(n) : Sliced(n)[i] \in 0 .. MaxBytes
    BY <1>0, <1>1, Sizes
  <2> QED
    BY <2>1, <2>2
<1>4. r.head = Kept(n) - 1 /\ r.tail = 0 /\ 0 \in Positions /\ r.head \in Positions
  BY <1>0, Sizes DEF Rings, Positions
<1>5. r \in Rings
  BY <1>0, <1>3, <1>4 DEF Rings
<1>6. ASSUME NEW e \in 0 .. Kept(n) - 1
      PROVE  r.buffer[Back(r.head, e)] = n - e
  <2>1. Back(r.head, e) = Kept(n) - 1 - e
    BY <1>0, <1>4 DEF Back
  <2>2. Kept(n) - 1 - e \in Positions /\ (Kept(n) - 1 - e) + 1 \in 1 .. Kept(n)
    BY <1>0, Sizes DEF Positions
  <2>3. r.buffer[Kept(n) - 1 - e] = Sliced(n)[(Kept(n) - 1 - e) + 1]
    BY <1>2, <2>2
  <2> QED
    BY <1>0, <1>1, <2>1, <2>2, <2>3
<1>7. r.tail = Back(r.head, Kept(n) - 1)
  BY <1>0, <1>4 DEF Back
<1> QED
  BY <1>4, <1>5, <1>6, <1>7 DEF HoldsBack

LEMMA HoldsBackIf ==
  ASSUME NEW r, NEW kept, NEW last,
         r.tail = Back(r.head, kept - 1),
         \A e \in 0 .. kept - 1 : r.buffer[Back(r.head, e)] = last - e
  PROVE  HoldsBack(r, kept, last)
BY DEF HoldsBack

\* Later bytes: those that remain are pushed back by the chunk.
LEMMA LaterBytes ==
  ASSUME RingInv, NEW n \in 1 .. MaxBytes, written # 0, written + n <= MaxBytes,
         NEW r, r = [ring EXCEPT !.tail = IncTail(@, Kept(n)),
                                 !.buffer = Copied(@, Sliced(n), Inc(ring.head, 1).newPos),
                                 !.head = Inc(@, Kept(n)).newPos]
  PROVE  /\ r \in Rings
         /\ r.head \in Positions
         /\ HoldsBack(r, Kept(written + n), written + n)
<1> DEFINE size == Kept(n)
           kept == Kept(written)
           now == Kept(written + n)
           start == Inc(ring.head, 1).newPos
           head == Inc(ring.head, size).newPos
<1>0. /\ ring \in Rings /\ written \in 1 .. MaxBytes
      /\ size \in 1 .. maxSize /\ size <= n /\ kept \in 1 .. maxSize /\ kept <= written
      /\ now = IF kept + size < maxSize THEN kept + size ELSE maxSize
      /\ size = IF n < maxSize THEN n ELSE maxSize
  BY Sizes DEF RingInv, TypeInv, Kept
<1>a. now \in 1 .. maxSize /\ now <= kept + size
  <2> HIDE DEF now, kept, size
  <2> QED
    BY <1>0, Sizes
<1>1. ring.head \in Positions /\ HoldsBack(ring, kept, written)
  BY DEF RingInv, BytesInv
<1>2. /\ Sliced(n) \in Seq(Nat) /\ Len(Sliced(n)) = size
      /\ \A i \in 1 .. size : Sliced(n)[i] = written + n - size + i
  <2>1. n \in Nat /\ written \in Nat
    BY <1>0
  <2> QED BY <2>1, SlicedIs, Zenon
<1> HIDE DEF size, kept, now
<1>3. /\ start = IF ring.head + 1 < maxSize THEN ring.head + 1 ELSE ring.head + 1 - maxSize
      /\ start \in Positions
  BY <1>1, IncIs, Sizes
<1>4. /\ head = IF ring.head + size < maxSize THEN ring.head + size ELSE ring.head + size - maxSize
      /\ head \in Positions
  BY <1>0, <1>1, IncIs, Sizes
<1> HIDE DEF head, start
<1>5. IncTail(ring.tail, size) = Back(head, now - 1)
  BY <1>0, <1>1, IncTailIs, Sizes DEF HoldsBack, head
<1>6. Copied(ring.buffer, Sliced(n), start) =
        [p \in Positions |-> IF Off(start, p) < size THEN Sliced(n)[Off(start, p) + 1] ELSE ring.buffer[p]]
  <2>1. ring.buffer \in [Positions -> Int]
    BY <1>0 DEF Rings
  <2>2. Len(Sliced(n)) \in 1 .. maxSize
    BY <1>0, <1>2
  <2>3. Copied(ring.buffer, Sliced(n), start) =
          [p \in Positions |-> IF Off(start, p) < Len(Sliced(n)) THEN Sliced(n)[Off(start, p) + 1]
                               ELSE ring.buffer[p]]
    BY <1>2, <1>3, <2>1, <2>2, CopiedIs
  <2> QED
    BY <1>2, <2>3, Zenon
<1>7. now - 1 \in Positions /\ Back(head, now - 1) \in Positions
  <2>1. now - 1 \in Positions
    BY <1>0, Sizes DEF Positions
  <2> QED
    BY <1>4, <2>1, BackType
<1>8. r = [ring EXCEPT !.tail = Back(head, now - 1), !.head = head,
                       !.buffer = Copied(ring.buffer, Sliced(n), start)]
  BY <1>5 DEF size, head, start
<1>9. /\ r.tail = Back(head, now - 1) /\ r.head = head
      /\ r.buffer = Copied(ring.buffer, Sliced(n), start)
      /\ r.readers = ring.readers /\ r.streams = ring.streams /\ r.readerId = ring.readerId
  BY <1>0, <1>8 DEF Rings
<1>10. r.buffer \in [Positions -> 0 .. MaxBytes]
  <2> SUFFICES ASSUME NEW p \in Positions
               PROVE  (IF Off(start, p) < size THEN Sliced(n)[Off(start, p) + 1] ELSE ring.buffer[p]) \in 0 .. MaxBytes
    BY <1>6, <1>9
  <2>1. Off(start, p) \in Nat
    BY <1>3, Sizes DEF Off, Positions
  <2>2. ring.buffer[p] \in 0 .. MaxBytes
    BY <1>0 DEF Rings
  <2>3. ASSUME NEW i \in 1 .. size
        PROVE  Sliced(n)[i] \in 0 .. MaxBytes
    <3>1. written + n - size + i \in 0 .. MaxBytes
      BY <1>0, Sizes
    <3> QED
      BY <1>2, <3>1
  <2>4. Off(start, p) < size => Off(start, p) + 1 \in 1 .. size
    BY <1>0, <2>1
  <2> QED
    BY <2>2, <2>3, <2>4
<1>11. r \in Rings
  BY <1>0, <1>4, <1>7, <1>8, <1>9, <1>10 DEF Rings
<1>12. ASSUME NEW e \in 0 .. now - 1
       PROVE  r.buffer[Back(head, e)] = (written + n) - e
  <2>1. e \in Positions /\ Back(head, e) \in Positions
    <3>1. e \in Positions
      BY <1>0, Sizes DEF Positions
    <3> QED
      BY <1>4, <3>1, BackType
  <2>2. CASE e < size
    <3>1. Off(start, Back(head, e)) = size - 1 - e
      BY <1>0, <1>1, <1>3, <1>4, <2>1, <2>2, Sizes DEF Off, Back, Positions
    <3>2. r.buffer[Back(head, e)] = Sliced(n)[(size - 1 - e) + 1]
      BY <1>0, <1>6, <1>9, <2>1, <2>2, <3>1
    <3>3. (size - 1 - e) + 1 \in 1 .. size
      BY <1>0, <2>2
    <3>4. Sliced(n)[(size - 1 - e) + 1] = written + n - size + ((size - 1 - e) + 1)
      BY <1>2, <3>3, Zenon
    <3>5. written + n - size + ((size - 1 - e) + 1) = (written + n) - e
      BY <1>0
    <3> QED
      BY <3>2, <3>4, <3>5, Zenon
  <2>3. CASE e >= size
    <3>1. ~(Off(start, Back(head, e)) < size)
      BY <1>0, <1>1, <1>3, <1>4, <2>1, <2>3, Sizes DEF Off, Back, Positions
    <3>2. Back(head, e) = Back(ring.head, e - size)
      BY <1>0, <1>1, <1>4, <2>1, <2>3, Sizes DEF Back, Positions
    <3>3. r.buffer[Back(head, e)] = ring.buffer[Back(ring.head, e - size)]
      BY <1>6, <1>9, <2>1, <3>1, <3>2
    <3>4. e - size \in 0 .. kept - 1
      BY <1>0, <1>a, <2>3
    <3>5. ring.buffer[Back(ring.head, e - size)] = written - (e - size)
      BY <1>1, <3>4 DEF HoldsBack
    <3>6. e < now /\ n = size
      BY <1>0, <1>a, <2>3, Sizes
    <3> QED
      BY <1>0, <3>3, <3>5, <3>6
  <2> QED
    BY <1>0, <2>2, <2>3
<1>13. HoldsBack(r, now, written + n)
  <2>1. \A e \in 0 .. now - 1 : r.buffer[Back(r.head, e)] = (written + n) - e
    BY <1>9, <1>12, Zenon
  <2>2. r.tail = Back(r.head, now - 1)
    BY <1>9, Zenon
  <2> QED
    BY <2>1, <2>2, HoldsBackIf, Zenon
<1>14. r.head \in Positions
  BY <1>4, <1>9
<1> QED
  BY <1>11, <1>13, <1>14 DEF now
-----------------------------------------------------------------------------
(* The invariant is inductive. *)

LEMMA InitInv == RingInit => RingInv
<1> SUFFICES ASSUME RingInit PROVE RingInv
  OBVIOUS
<1>1. ring = [buffer |-> [p \in Positions |-> 0], head |-> -1, tail |-> -1,
              readers |-> [s \in Streams |-> -1], streams |-> {}, readerId |-> 0]
  BY DEF RingInit
<1>2. ring \in Rings /\ ring.streams = {} /\ ring.head = -1 /\ ring.tail = -1
  BY <1>1, Sizes DEF Rings
<1> QED
  BY <1>2, Sizes DEF RingInit, RingInv, TypeInv, BytesInv

\* What a chunk does: nothing when it is empty, or a ring whose readers go on with its first byte.
LEMMA EnqIs ==
  ASSUME RingInv, NEW n \in Chunks, Enq(n)
  PROVE  /\ n \in Nat /\ written \in 0 .. MaxBytes /\ written + n \in 0 .. MaxBytes
         /\ written' = written + n
         /\ cut' = cut \cup (written + 1 .. written + n - maxSize) /\ from' = from
         /\ \/ n = 0 /\ ring' = ring /\ text' = text
            \/ n \in 1 .. MaxBytes /\ \E r \in Rings, start \in Positions :
                 /\ r.head \in Positions /\ HoldsBack(r, Kept(written + n), written + n)
                 /\ r.streams = ring.streams /\ r.readerId = ring.readerId
                 /\ start = Back(r.head, Kept(n) - 1)
                 /\ OnData(r, start)
<1>0. n \in Nat /\ written \in 0 .. MaxBytes /\ written + n \in 0 .. MaxBytes /\ written' = written + n
  BY Sizes DEF Enq, RingInv, TypeInv
<1>1. Sliced(n) \in Seq(Nat) /\ Len(Sliced(n)) = Kept(n)
  BY <1>0, SlicedIs
<1> DEFINE start == Inc(ring.head, 1).newPos
           first == [ring EXCEPT !.buffer = Copy(@, Sliced(n), 0), !.head = Kept(n) - 1, !.tail = 0]
           later == [IncTails(ring, Kept(n)) EXCEPT
                       !.buffer = Copied(ring.buffer, Sliced(n), start),
                       !.head = Inc(ring.head, Kept(n)).newPos]
<1>2. \/ Kept(n) = 0 /\ ring' = ring /\ text' = text
      \/ Kept(n) > 0 /\ ring.head = -1 /\ OnData(first, 0)
      \/ Kept(n) > 0 /\ ring.head # -1 /\ OnData(later, start)
  BY <1>1, Zenon DEF Enq, Copied
<1>3. Kept(n) > 0 => n \in 1 .. MaxBytes /\ Kept(n) \in 1 .. maxSize
  BY <1>0, Sizes DEF Kept
<1>4. Kept(n) = 0 => n = 0
  BY <1>0, Sizes DEF Kept
<1>5. (ring.head = -1) <=> (written = 0)
  BY Sizes DEF RingInv, BytesInv, Positions
<1>6. cut' = cut \cup (written + 1 .. written + n - maxSize) /\ from' = from
  BY DEF Enq
<1>8. CASE Kept(n) > 0 /\ ring.head = -1 /\ OnData(first, 0)
  <2>1. first \in Rings /\ first.head \in Positions /\ HoldsBack(first, Kept(n), n)
    BY <1>3, <1>5, <1>8, FirstBytes
  <2>2. first.head = Kept(n) - 1 /\ first.streams = ring.streams /\ first.readerId = ring.readerId
    BY DEF RingInv, TypeInv, Rings
  <2>3. written + n = n
    BY <1>0, <1>5, <1>8
  <2> HIDE DEF first
  <2>4. 0 \in Positions /\ 0 = Back(first.head, Kept(n) - 1)
    BY <1>3, <1>8, <2>2, Sizes DEF Back, Positions
  <2> QED
    BY <1>0, <1>3, <1>6, <1>8, <2>1, <2>2, <2>3, <2>4
<1>9. CASE Kept(n) > 0 /\ ring.head # -1 /\ OnData(later, start)
  <2>1. later \in Rings /\ later.head \in Positions /\ HoldsBack(later, Kept(written + n), written + n)
    <3>1. n \in 1 .. MaxBytes /\ written # 0 /\ written + n <= MaxBytes
      BY <1>0, <1>3, <1>5, <1>9
    <3>2. later = [ring EXCEPT !.tail = IncTail(@, Kept(n)),
                               !.buffer = Copied(@, Sliced(n), Inc(ring.head, 1).newPos),
                               !.head = Inc(@, Kept(n)).newPos]
      BY IncTailsKeeps DEF RingInv, TypeInv
    <3> HIDE DEF later
    <3> QED
      BY <3>1, <3>2, LaterBytes, Zenon
  <2>2. later.streams = ring.streams /\ later.readerId = ring.readerId
    BY IncTailsKeeps DEF RingInv, TypeInv, Rings
  <2>3. later.head = Inc(ring.head, Kept(n)).newPos
    BY IncTailsKeeps DEF RingInv, TypeInv, Rings
  <2> HIDE DEF later
  <2>4. start \in Positions /\ start = Back(later.head, Kept(n) - 1)
    <3>1. ring.head \in Positions
      BY <1>5, <1>9 DEF RingInv, BytesInv
    <3>2. 1 \in 0 .. maxSize /\ Kept(n) \in 0 .. maxSize
      BY <1>3, <1>9, Sizes
    <3>3. /\ start = IF ring.head + 1 < maxSize THEN ring.head + 1 ELSE ring.head + 1 - maxSize
          /\ start \in Positions
      BY <3>1, <3>2, IncIs
    <3>4. later.head = IF ring.head + Kept(n) < maxSize THEN ring.head + Kept(n) ELSE ring.head + Kept(n) - maxSize
      BY <2>3, <3>1, <3>2, IncIs
    <3> HIDE DEF start
    <3> QED BY <1>3, <1>9, <2>1, <3>1, <3>3, <3>4, Sizes DEF Back, Positions
  <2> HIDE DEF start
  <2> QED
    BY <1>0, <1>3, <1>6, <1>9, <2>1, <2>2, <2>4
<1> QED
  BY <1>0, <1>2, <1>4, <1>6, <1>8, <1>9

LEMMA EnqInv ==
  ASSUME RingInv, NEW n \in Chunks, Enq(n)
  PROVE  RingInv'
<1>1. /\ n \in Nat /\ written \in 0 .. MaxBytes /\ written + n \in 0 .. MaxBytes
      /\ written' = written + n
      /\ \/ n = 0 /\ ring' = ring
         \/ n \in 1 .. MaxBytes /\ \E r \in Rings, start \in Positions :
              /\ r.head \in Positions /\ HoldsBack(r, Kept(written + n), written + n)
              /\ r.streams = ring.streams /\ r.readerId = ring.readerId
              /\ OnData(r, start)
  BY EnqIs
<1>2. CASE n = 0 /\ ring' = ring
  BY <1>1, <1>2 DEF RingInv, TypeInv, BytesInv, HoldsBack
<1>3. ASSUME n \in 1 .. MaxBytes, NEW r \in Rings, NEW start \in Positions, r.head \in Positions,
             HoldsBack(r, Kept(written + n), written + n),
             r.streams = ring.streams, r.readerId = ring.readerId, OnData(r, start)
      PROVE  RingInv'
  <2>0. ring' = r
    BY <1>3, OnDataKeeps
  <2>1. TypeInv'
    BY <1>1, <1>3, <2>0 DEF RingInv, TypeInv, Rings
  <2>2. written' # 0
    BY <1>1, <1>3
  <2>3. HoldsBack(r, Kept(written'), written')
    BY <1>1, <1>3, Zenon
  <2> QED
    BY <1>3, <2>0, <2>1, <2>2, <2>3 DEF RingInv, BytesInv
<1> QED
  BY <1>1, <1>2, <1>3

LEMMA GetStreamInv ==
  ASSUME RingInv, GetStream
  PROVE  RingInv'
<1>1. /\ ring.readerId < MaxStreams
      /\ ring' = [ring EXCEPT !.readers[ring.readerId] = -1, !.streams = @ \union {ring.readerId},
                              !.readerId = ring.readerId + 1]
      /\ written' = written
  BY DEF GetStream
<1>2. ring.readerId \in Streams /\ ring.readerId + 1 \in 0 .. MaxStreams /\ ring \in Rings
  BY <1>1, Sizes DEF RingInv, TypeInv, Rings, Streams
<1>3. /\ ring'.buffer = ring.buffer /\ ring'.head = ring.head /\ ring'.tail = ring.tail
      /\ ring'.streams = ring.streams \union {ring.readerId} /\ ring'.readerId = ring.readerId + 1
  BY <1>1, <1>2 DEF Rings
<1>4. ring' \in Rings
  BY <1>1, <1>2 DEF Rings
<1>5. TypeInv'
  BY <1>1, <1>2, <1>3, <1>4, Sizes DEF RingInv, TypeInv, Rings
<1> QED
  BY <1>1, <1>3, <1>5 DEF RingInv, BytesInv, HoldsBack

LEMMA DisposeInv ==
  ASSUME RingInv, NEW s \in Streams, DisposeStream(s)
  PROVE  RingInv'
<1>1. /\ ring' = [ring EXCEPT !.readers[s] = -1, !.streams = @ \ {s}]
      /\ written' = written /\ ring \in Rings
  BY DEF DisposeStream, RingInv, TypeInv
<1>2. /\ ring'.buffer = ring.buffer /\ ring'.head = ring.head /\ ring'.tail = ring.tail
      /\ ring'.streams = ring.streams \ {s} /\ ring'.readerId = ring.readerId
  BY <1>1 DEF Rings
<1>3. ring' \in Rings
  BY <1>1 DEF Rings
<1>4. TypeInv'
  BY <1>1, <1>2, <1>3 DEF RingInv, TypeInv
<1> QED
  BY <1>1, <1>2, <1>4 DEF RingInv, BytesInv, HoldsBack

LEMMA NextInv == RingInv /\ [RingNext]_ringVars => RingInv'
<1> SUFFICES ASSUME RingInv, [RingNext]_ringVars PROVE RingInv'
  OBVIOUS
<1>1. CASE UNCHANGED ringVars
  BY <1>1 DEF ringVars, RingInv, TypeInv, BytesInv, HoldsBack
<1> QED
  BY <1>1, EnqInv, GetStreamInv, DisposeInv DEF RingNext

LEMMA Inductive == RingSpec => []RingInv
BY InitInv, NextInv, PTL DEF RingSpec

-----------------------------------------------------------------------------
(* What the invariant says of the ring. *)

LEMMA Typed == RingInv => RingTypeOK
<1> SUFFICES ASSUME RingInv PROVE RingTypeOK
  OBVIOUS
<1>1. ring \in Rings /\ written \in 0 .. MaxBytes /\ ring.streams \subseteq 0 .. ring.readerId - 1
  BY DEF RingInv, TypeInv
<1>2. (ring.head = -1) = (ring.tail = -1)
  <2>1. CASE written = 0
    BY <2>1 DEF RingInv, BytesInv
  <2>2. CASE written # 0
    <3>1. ring.head \in Positions /\ ring.tail = Back(ring.head, Kept(written) - 1)
      BY <2>2 DEF RingInv, BytesInv, HoldsBack
    <3>2. Kept(written) - 1 \in Positions
      BY <1>1, <2>2, Sizes DEF Kept, Positions
    <3>3. ring.tail \in Positions
      BY <3>1, <3>2, BackType
    <3> QED
      BY <3>1, <3>3, Sizes DEF Positions
  <2> QED
    BY <2>1, <2>2
<1> QED
  BY <1>1, <1>2 DEF RingTypeOK, Rings

LEMMA Holds == RingInv => RingHoldsLast
<1> SUFFICES ASSUME RingInv PROVE RingHoldsLast
  OBVIOUS
<1> DEFINE size == IF written < maxSize THEN written ELSE maxSize
<1>1. written \in 0 .. MaxBytes /\ size \in 0 .. maxSize /\ size = Kept(written)
  BY Sizes DEF RingInv, TypeInv, Kept
<1>2. CASE written = 0
  <2>1. size = 0 /\ ring.tail = -1
    BY <1>2, Sizes DEF RingInv, BytesInv
  <2> HIDE DEF size
  <2>2. SizeFrom(ring.tail, ring.head) = 0
    BY <2>1 DEF SizeFrom
  <2>3. 0 .. size - 1 = {}
    BY <2>1
  <2> QED
    BY <2>1, <2>2, <2>3 DEF RingHoldsLast, size
<1>3. CASE written # 0
  <2>0. size \in 1 .. maxSize /\ size - 1 \in Positions
    BY <1>1, <1>3, Sizes DEF Positions
  <2>1. ring.head \in Positions /\ HoldsBack(ring, size, written)
    BY <1>1, <1>3 DEF RingInv, BytesInv
  <2> HIDE DEF size
  <2>2. ring.tail = Back(ring.head, size - 1) /\ ring.tail \in Positions
    BY <2>0, <2>1, BackType DEF HoldsBack
  <2>3. SizeFrom(ring.tail, ring.head) = size
    BY <2>0, <2>1, <2>2, Sizes DEF SizeFrom, IsWrapped, Back, Positions
  <2>4. ASSUME NEW i \in 0 .. size - 1
        PROVE  ring.buffer[(ring.tail + i) % maxSize] = written - size + 1 + i
    <3> DEFINE x == ring.tail + i
    <3>1. x \in 0 .. 2 * maxSize - 1 /\ x = ring.tail + i
      BY <2>0, <2>2, Sizes DEF Positions
    <3> HIDE DEF x
    <3>2. x % maxSize = IF x < maxSize THEN x ELSE x - maxSize
      BY <3>1, Remainder, Zenon
    <3>3. x % maxSize = Back(ring.head, size - 1 - i)
      BY <2>0, <2>1, <2>2, <3>1, <3>2, Sizes DEF Back, Positions
    <3>4. size - 1 - i \in 0 .. size - 1
      BY <2>0
    <3>5. ring.buffer[Back(ring.head, size - 1 - i)] = written - (size - 1 - i)
      BY <2>1, <3>4, Zenon DEF HoldsBack
    <3>6. written - (size - 1 - i) = written - size + 1 + i
      BY <1>1, <2>0
    <3> QED
      BY <3>3, <3>5, <3>6, Zenon DEF x
  <2> QED
    BY <2>3, <2>4, Zenon DEF RingHoldsLast, size
<1> QED
  BY <1>2, <1>3

-----------------------------------------------------------------------------
(* What the streams have got. *)

\* A byte appears for the first time after all that were written before.
Ordered(t) == \A i \in DOMAIN t : \A b \in ToSet(t) : b < t[i] => \E j \in 1 .. i - 1 : t[j] = b

\* The bytes of a text, whether they are shown or replaced.
Bare(t) == [i \in DOMAIN t |-> IF t[i] < 0 THEN -t[i] ELSE t[i]]

\* The bytes first to last, each at least once and in the order of their first appearance.
Covers(t, first, last) == t \in Seq(Int) /\ ToSet(Bare(t)) = first .. last /\ Ordered(Bare(t))

\* Those that are replaced are of characters that go over the borders.
Breaks(t, borders) == \A i \in DOMAIN t : t[i] < 0 => \E c \in borders : CutAt(-t[i], c)

LEMMA EmptyCovers == \A first \in Int, last \in Int : first .. last = {} => Covers(<< >>, first, last)
<1>1. << >> \in Seq(Int) /\ DOMAIN << >> = {}
  OBVIOUS
<1>2. Bare(<< >>) = << >>
  BY <1>1 DEF Bare
<1>3. ToSet(<< >>) = {} /\ Ordered(<< >>)
  BY <1>1 DEF ToSet, Ordered
<1> QED BY <1>1, <1>2, <1>3 DEF Covers

LEMMA BareIs ==
  ASSUME NEW t \in Seq(Int)
  PROVE  /\ Bare(t) \in Seq(Int) /\ Len(Bare(t)) = Len(t) /\ DOMAIN t = 1 .. Len(t) /\ Len(t) \in Nat
         /\ \A i \in 1 .. Len(t) : Bare(t)[i] = IF t[i] < 0 THEN -t[i] ELSE t[i]
<1>1. DOMAIN t = 1 .. Len(t) /\ Len(t) \in Nat
  OBVIOUS
<1>2. Bare(t) = [i \in 1 .. Len(t) |-> IF t[i] < 0 THEN -t[i] ELSE t[i]]
  BY <1>1 DEF Bare
<1>3. \A i \in 1 .. Len(t) : t[i] \in Int
  BY <1>1
<1> QED BY <1>1, <1>2, <1>3

LEMMA BareJoined ==
  ASSUME NEW u \in Seq(Int), NEW v \in Seq(Int)
  PROVE  /\ u \o v \in Seq(Int) /\ Bare(u \o v) = Bare(u) \o Bare(v)
         /\ \A B : Breaks(u, B) /\ Breaks(v, B) => Breaks(u \o v, B)
<1>1. /\ u \o v \in Seq(Int) /\ Len(u \o v) = Len(u) + Len(v) /\ Len(u) \in Nat /\ Len(v) \in Nat
      /\ \A i \in 1 .. Len(u) + Len(v) : (u \o v)[i] = IF i <= Len(u) THEN u[i] ELSE v[i - Len(u)]
  OBVIOUS
<1>2. \A t \in Seq(Int) : /\ Bare(t) \in Seq(Int) /\ Len(Bare(t)) = Len(t) /\ DOMAIN t = 1 .. Len(t)
                         /\ \A i \in 1 .. Len(t) : Bare(t)[i] = IF t[i] < 0 THEN -t[i] ELSE t[i]
  BY BareIs
<1> DEFINE w == u \o v
           a == Bare(u)
           b == Bare(v)
           c == Bare(w)
<1>3. /\ w \in Seq(Int) /\ Len(w) = Len(u) + Len(v) /\ DOMAIN w = 1 .. Len(u) + Len(v)
      /\ \A i \in 1 .. Len(u) + Len(v) : w[i] = IF i <= Len(u) THEN u[i] ELSE v[i - Len(u)]
  BY <1>1, <1>2
<1>4. a \in Seq(Int) /\ Len(a) = Len(u) /\ \A i \in 1 .. Len(u) : a[i] = IF u[i] < 0 THEN -u[i] ELSE u[i]
  BY <1>2
<1>5. b \in Seq(Int) /\ Len(b) = Len(v) /\ \A i \in 1 .. Len(v) : b[i] = IF v[i] < 0 THEN -v[i] ELSE v[i]
  BY <1>2
<1>6. c \in Seq(Int) /\ Len(c) = Len(w) /\ \A i \in 1 .. Len(w) : c[i] = IF w[i] < 0 THEN -w[i] ELSE w[i]
  BY <1>2, <1>3
<1>7. DOMAIN u = 1 .. Len(u) /\ DOMAIN v = 1 .. Len(v)
  BY <1>2
<1>8. ASSUME NEW B, Breaks(u, B), Breaks(v, B)
      PROVE  Breaks(w, B)
  <2> SUFFICES ASSUME NEW i \in 1 .. Len(u) + Len(v), w[i] < 0 PROVE \E x \in B : CutAt(-w[i], x)
    BY <1>3 DEF Breaks
  <2> HIDE DEF w
  <2>1. CASE i <= Len(u)
    <3>1. i \in DOMAIN u /\ w[i] = u[i]
      BY <1>1, <1>3, <1>7, <2>1
    <3> QED BY <1>8, <3>1, Zenon DEF Breaks
  <2>2. CASE ~(i <= Len(u))
    <3>1. i - Len(u) \in 1 .. Len(v) /\ w[i] = v[i - Len(u)]
      BY <1>1, <1>3, <2>2
    <3> QED BY <1>7, <1>8, <3>1, Zenon DEF Breaks
  <2> QED BY <2>1, <2>2
<1> HIDE DEF w, a, b, c
<1>9. c = a \o b
  <2>0. a \in Seq(Int) /\ b \in Seq(Int) /\ c \in Seq(Int)
    BY <1>4, <1>5, <1>6, Zenon
  <2>1. /\ a \o b \in Seq(Int) /\ Len(a \o b) = Len(a) + Len(b)
        /\ \A i \in 1 .. Len(a) + Len(b) : (a \o b)[i] = IF i <= Len(a) THEN a[i] ELSE b[i - Len(a)]
    BY ONLY <2>0
  <2>2. Len(c) = Len(a) + Len(b) /\ Len(c) = Len(w)
    BY <1>3, <1>4, <1>5, <1>6, Zenon
  <2>3. ASSUME NEW i \in 1 .. Len(c) PROVE c[i] = (a \o b)[i]
    <3>0. /\ c[i] = IF w[i] < 0 THEN -w[i] ELSE w[i]
          /\ (a \o b)[i] = IF i <= Len(u) THEN a[i] ELSE b[i - Len(u)]
          /\ i \in 1 .. Len(u) + Len(v)
      BY <1>3, <1>4, <1>6, <2>1, <2>2, Zenon
    <3>1. CASE i <= Len(u)
      <4>1. i \in 1 .. Len(u) /\ w[i] = u[i]
        BY <1>1, <1>3, <3>0, <3>1
      <4>2. a[i] = IF u[i] < 0 THEN -u[i] ELSE u[i]
        BY <1>4, <4>1
      <4>3. (a \o b)[i] = a[i]
        BY <3>0, <3>1
      <4>4. c[i] = a[i]
        BY <3>0, <4>1, <4>2
      <4> QED BY <4>3, <4>4
    <3>2. CASE ~(i <= Len(u))
      <4>1. i - Len(u) \in 1 .. Len(v) /\ w[i] = v[i - Len(u)]
        BY <1>1, <1>3, <3>0, <3>2
      <4>2. b[i - Len(u)] = IF v[i - Len(u)] < 0 THEN -v[i - Len(u)] ELSE v[i - Len(u)]
        BY <1>5, <4>1
      <4>3. (a \o b)[i] = b[i - Len(u)]
        BY <3>0, <3>2
      <4>4. c[i] = b[i - Len(u)]
        BY <3>0, <4>1, <4>2
      <4> QED BY <4>3, <4>4
    <3> QED BY <3>1, <3>2
  <2> QED BY <2>0, <2>1, <2>2, <2>3, SeqEqual
<1> QED BY <1>1, <1>8, <1>9 DEF w, a, b, c

\* A character that goes over a border goes on behind it.
LEMMA CutContinues ==
  ASSUME NEW b \in Int, NEW c \in Int, CutAt(b, c)
  PROVE  c + 1 \in Continues
<1>1. CASE b <= c
  <2>1. c + 1 \in b + 1 .. c + 1
    BY <1>1
  <2> QED BY <2>1 DEF CutAt, SameCharacter
<1>2. CASE b > c
  <2>1. c + 1 \in c + 1 .. b
    BY <1>2
  <2> QED BY <2>1 DEF CutAt, SameCharacter
<1> QED BY <1>1, <1>2

LEMMA Least ==
  ASSUME NEW T \in SUBSET Nat, T # {}
  PROVE  \E n \in T : \A k \in T : n <= k
<1>1. IsWellFoundedOn(OpToRel(<, Nat), Nat)
  BY NatLessThanWellFounded
<1>2. \E n \in T : \A k \in T : <<k, n>> \notin OpToRel(<, Nat)
  BY <1>1, WFMin
<1>3. PICK n \in T : \A k \in T : <<k, n>> \notin OpToRel(<, Nat)
  BY <1>2
<1>4. \A k \in T : ~(k < n)
  BY <1>3 DEF OpToRel
<1>5. \A k \in T : n <= k
  BY <1>4
<1> QED BY <1>5

\* Bytes that follow in order what is there.
LEMMA JoinOrdered ==
  ASSUME NEW u \in Seq(Int), NEW v \in Seq(Int), Ordered(u), Ordered(v),
         \A i \in DOMAIN u : \A b \in ToSet(v) : b < u[i] => b \in ToSet(u)
  PROVE  /\ u \o v \in Seq(Int)
         /\ ToSet(u \o v) = ToSet(u) \cup ToSet(v)
         /\ Ordered(u \o v)
<1> DEFINE w == u \o v
<1>1. /\ w \in Seq(Int) /\ Len(w) = Len(u) + Len(v) /\ DOMAIN w = 1 .. Len(u) + Len(v)
      /\ DOMAIN u = 1 .. Len(u) /\ DOMAIN v = 1 .. Len(v) /\ Len(u) \in Nat /\ Len(v) \in Nat
  OBVIOUS
<1>2. \A i \in 1 .. Len(u) : w[i] = u[i]
  OBVIOUS
<1>3. \A i \in 1 .. Len(v) : w[Len(u) + i] = v[i]
  OBVIOUS
<1>4. \A i \in DOMAIN w : i \in DOMAIN u \/ \E j \in DOMAIN v : i = Len(u) + j
  <2> SUFFICES ASSUME NEW i \in DOMAIN w, i \notin DOMAIN u PROVE \E j \in DOMAIN v : i = Len(u) + j
    OBVIOUS
  <2>1. i - Len(u) \in DOMAIN v /\ i = Len(u) + (i - Len(u))
    BY <1>1
  <2> QED BY <2>1
<1>5. \A j \in DOMAIN v : Len(u) + j \in DOMAIN w
  BY <1>1
<1>6. \A i \in DOMAIN u : i \in DOMAIN w
  BY <1>1
<1> HIDE DEF w
<1>7. ToSet(w) = ToSet(u) \cup ToSet(v)
  <2>1. \A i \in DOMAIN w : w[i] \in ToSet(u) \cup ToSet(v)
    BY <1>1, <1>2, <1>3, <1>4 DEF ToSet
  <2>2. \A i \in DOMAIN u : u[i] \in ToSet(w)
    <3> SUFFICES ASSUME NEW i \in DOMAIN u PROVE u[i] \in ToSet(w)
      OBVIOUS
    <3>1. u[i] = w[i] /\ i \in DOMAIN w
      BY <1>1, <1>2, <1>6
    <3> QED BY <3>1 DEF ToSet
  <2>3. \A i \in DOMAIN v : v[i] \in ToSet(w)
    <3> SUFFICES ASSUME NEW i \in DOMAIN v PROVE v[i] \in ToSet(w)
      OBVIOUS
    <3>1. v[i] = w[Len(u) + i] /\ Len(u) + i \in DOMAIN w
      BY <1>1, <1>3, <1>5
    <3> QED BY <3>1 DEF ToSet
  <2> QED BY <2>1, <2>2, <2>3 DEF ToSet
<1>8. ASSUME NEW i \in DOMAIN w, NEW b \in ToSet(w), b < w[i]
      PROVE  \E j \in 1 .. i - 1 : w[j] = b
  <2>1. CASE i \in DOMAIN u
    <3>1. w[i] = u[i]
      BY <1>1, <1>2, <2>1
    <3>2. b \in ToSet(u)
      BY <1>7, <1>8, <2>1, <3>1
    <3>3. PICK j \in 1 .. i - 1 : u[j] = b
      BY <1>8, <2>1, <3>1, <3>2 DEF Ordered
    <3>4. w[j] = u[j]
      BY <1>1, <1>2, <2>1
    <3> QED BY <3>3, <3>4
  <2>2. CASE i \notin DOMAIN u
    <3>1. PICK k \in DOMAIN v : i = Len(u) + k
      BY <1>4, <2>2
    <3>2. w[i] = v[k]
      BY <1>1, <1>3, <3>1
    <3>3. CASE b \in ToSet(u)
      <4>1. PICK j \in DOMAIN u : u[j] = b
        BY <3>3 DEF ToSet
      <4>2. w[j] = b
        BY <1>1, <1>2, <4>1
      <4>3. k \in 1 .. Len(v) /\ j \in 1 .. Len(u)
        BY <1>1, Zenon
      <4>a. Len(u) \in Nat /\ Len(v) \in Nat
        BY <1>1
      <4>4. j \in 1 .. i - 1
        BY ONLY <3>1, <4>3, <4>a
      <4> QED BY <4>2, <4>4
    <3>4. CASE b \in ToSet(v)
      <4>1. PICK j \in 1 .. k - 1 : v[j] = b
        BY <1>8, <3>2, <3>4 DEF Ordered
      <4>0. k \in 1 .. Len(v) /\ j \in 1 .. k - 1
        BY <1>1, Zenon
      <4>a. Len(u) \in Nat /\ Len(v) \in Nat
        BY <1>1
      <4>2. Len(u) + j \in 1 .. i - 1 /\ j \in 1 .. Len(v)
        BY ONLY <3>1, <4>0, <4>a
      <4>3. w[Len(u) + j] = b
        BY <1>3, <4>1, <4>2
      <4> QED BY <4>2, <4>3
    <3> QED BY <1>7, <3>3, <3>4
  <2> QED BY <2>1, <2>2
<1>9. Ordered(w)
  BY <1>8 DEF Ordered
<1> QED BY <1>1, <1>7, <1>9 DEF w

\* Consecutive bytes.
LEMMA RunCovers ==
  ASSUME NEW p \in Seq(Int), NEW first \in Int,
         \A i \in 1 .. Len(p) : p[i] = first + i - 1
  PROVE  ToSet(p) = first .. first + Len(p) - 1 /\ Ordered(p)
<1>1. DOMAIN p = 1 .. Len(p) /\ Len(p) \in Nat
  OBVIOUS
<1> DEFINE k == Len(p)
<1>2. \A b \in first .. first + k - 1 : b - first + 1 \in 1 .. k /\ p[b - first + 1] = b
  <2> SUFFICES ASSUME NEW b \in first .. first + k - 1
               PROVE  b - first + 1 \in 1 .. k /\ p[b - first + 1] = b
    OBVIOUS
  <2>1. b - first + 1 \in 1 .. k
    BY <1>1
  <2>2. p[b - first + 1] = first + (b - first + 1) - 1
    BY <2>1
  <2> QED BY <1>1, <2>1, <2>2
<1>3. ToSet(p) = first .. first + k - 1
  <2>1. \A i \in DOMAIN p : p[i] \in first .. first + k - 1
    BY <1>1
  <2>2. \A b \in first .. first + k - 1 : \E i \in DOMAIN p : p[i] = b
    BY <1>1, <1>2
  <2> QED BY <2>1, <2>2 DEF ToSet
<1>4. ASSUME NEW i \in DOMAIN p, NEW b \in ToSet(p), b < p[i]
      PROVE  \E j \in 1 .. i - 1 : p[j] = b
  <2>1. b \in first .. first + k - 1
    BY <1>3
  <2>2. p[i] = first + i - 1 /\ i \in Nat
    BY <1>1
  <2>3. p[b - first + 1] = b /\ b - first + 1 \in 1 .. i - 1
    BY <1>1, <1>2, <1>4, <2>1, <2>2
  <2> QED BY <2>3
<1>5. Ordered(p)
  BY <1>4 DEF Ordered
<1> QED BY <1>3, <1>5

-----------------------------------------------------------------------------
(* What a reader gets at a distance from the head. *)

LEMMA BackMoves ==
  ASSUME NEW head \in Positions, NEW e \in Positions, NEW d \in 0 .. e
  PROVE  /\ Inc(Back(head, e), d).newPos = Back(head, e - d)
         /\ e - d \in Positions
         /\ Back(head, e - d) \in Positions
         /\ Back(head, e - d) = head <=> d = e
<1>1. Back(head, e) \in Positions /\ e - d \in Positions /\ d \in 0 .. maxSize
  BY BackType, Sizes DEF Positions
<1>2. Inc(Back(head, e), d).newPos =
        IF Back(head, e) + d < maxSize THEN Back(head, e) + d ELSE Back(head, e) + d - maxSize
  BY <1>1, IncIs
<1>3. Back(head, e - d) \in Positions
  BY <1>1, BackType
<1> QED BY <1>1, <1>2, <1>3, Sizes DEF Back, Positions

\* deq returns what is asked for or what there is, and more of it when that wraps around; the reader
\* moves by what was asked for.  When the bytes follow each other, it cuts the characters that go over
\* its ends and over that of the ring.
PieceOf(r, e, size, piece, d, k) ==
  /\ d \in {e + 1, size}
  /\ piece.pos = IF d = e + 1 THEN -1 ELSE Back(r.head, e - d)
  /\ piece.text \in Seq(Int) /\ Len(piece.text) = k
  /\ \A i \in 1 .. k : Bare(piece.text)[i] = r.buffer[Back(r.head, e - (i - 1))]
  /\ \A first \in Int :
       (\A i \in 1 .. k : Bare(piece.text)[i] = first + i - 1)
         => Breaks(piece.text, {first - 1, first + d - 1, r.buffer[maxSize - 1]})

LEMMA TextIs ==
  ASSUME NEW buffer \in [Positions -> Nat], NEW start \in Positions, NEW end \in 0 .. maxSize
  PROVE  /\ end <= start => ToText(buffer, start, end) = << >>
         /\ start <= end => /\ ToText(buffer, start, end) \in Seq(Int)
                            /\ Len(ToText(buffer, start, end)) = end - start
                            /\ \A i \in 1 .. end - start :
                                 Bare(ToText(buffer, start, end))[i] = buffer[start + i - 1]
<1> DEFINE bytes == {buffer[p] : p \in start .. end - 1}
           decoded(b) == IF Character(b) \subseteq bytes THEN b ELSE -b
           t == ToText(buffer, start, end)
<1>1. start \in Nat /\ end \in Nat
  BY Sizes DEF Positions
<1>2. t = [i \in 1 .. end - start |-> decoded(buffer[start + i - 1])]
  BY DEF ToText
<1>6. ASSUME end <= start PROVE 1 .. end - start = {}
  BY <1>1, <1>6
<1> HIDE DEF t, bytes
<1>3. ASSUME start <= end
      PROVE  t \in Seq(Int) /\ Len(t) = end - start /\ \A i \in 1 .. end - start : Bare(t)[i] = buffer[start + i - 1]
  <2>1. \A i \in 1 .. end - start : start + i - 1 \in Positions
    BY <1>1, <1>3, Sizes DEF Positions
  <2>2. end - start \in Nat
    BY <1>1, <1>3
  <2>3. \A i \in 1 .. end - start : buffer[start + i - 1] \in Nat
    BY <2>1
  <2>4. \A i \in 1 .. end - start : decoded(buffer[start + i - 1]) \in {buffer[start + i - 1], -buffer[start + i - 1]}
    OBVIOUS
  <2> HIDE DEF decoded
  <2>5. \A i \in 1 .. end - start : decoded(buffer[start + i - 1]) \in Int
    BY <2>3, <2>4
  <2>6. t \in Seq(Int) /\ Len(t) = end - start
    BY <1>2, <2>2, <2>5
  <2>7. \A i \in 1 .. end - start : t[i] \in {buffer[start + i - 1], -buffer[start + i - 1]}
    BY <1>2, <2>4
  <2>8. \A i \in 1 .. end - start : Bare(t)[i] = IF t[i] < 0 THEN -t[i] ELSE t[i]
    BY <2>6, BareIs
  <2>9. ASSUME NEW i \in 1 .. end - start PROVE Bare(t)[i] = buffer[start + i - 1]
    <3> DEFINE x == buffer[start + i - 1]
    <3>1. x \in Nat /\ t[i] \in {x, -x} /\ Bare(t)[i] = IF t[i] < 0 THEN -t[i] ELSE t[i]
      BY <2>3, <2>7, <2>8, Zenon
    <3> HIDE DEF x
    <3>2. Bare(t)[i] = x
      BY ONLY <3>1
    <3> QED BY <3>2 DEF x
  <2> QED BY <2>6, <2>9
<1>4. ASSUME end <= start PROVE t = << >>
  <2>1. t = [i \in {} |-> decoded(buffer[start + i - 1])]
    BY <1>2, <1>4, <1>6
  <2> HIDE DEF decoded
  <2> QED BY <2>1
<1> QED BY <1>3, <1>4 DEF t

\* Of bytes that follow each other only the characters at the two ends can be cut.
LEMMA TextBreaks ==
  ASSUME NEW buffer \in [Positions -> Nat], NEW start \in Positions, NEW end \in 0 .. maxSize, start <= end,
         NEW first \in Int, \A i \in 1 .. end - start : buffer[start + i - 1] = first + i - 1
  PROVE  Breaks(ToText(buffer, start, end), {first - 1, first + (end - start) - 1})
<1> DEFINE bytes == {buffer[p] : p \in start .. end - 1}
           decoded(b) == IF Character(b) \subseteq bytes THEN b ELSE -b
           t == ToText(buffer, start, end)
           last == first + (end - start) - 1
<1>1. start \in Nat /\ end \in Nat
  BY Sizes DEF Positions
<1>2. t = [i \in 1 .. end - start |-> decoded(buffer[start + i - 1])]
  BY DEF ToText
<1>3. \A x \in first .. last : x \in bytes
  <2> SUFFICES ASSUME NEW x \in first .. last PROVE x \in bytes
    OBVIOUS
  <2> DEFINE i == x - first + 1
  <2>1. i \in 1 .. end - start /\ first + i - 1 = x /\ start + i - 1 \in start .. end - 1
    BY <1>1
  <2> HIDE DEF i
  <2>2. buffer[start + i - 1] = x
    BY <2>1
  <2> QED BY <2>1, <2>2
<1> HIDE DEF bytes
<1> SUFFICES ASSUME NEW i \in DOMAIN t, t[i] < 0 PROVE \E c \in {first - 1, last} : CutAt(-t[i], c)
  BY DEF Breaks
<1> DEFINE b == first + i - 1
<1>4. i \in 1 .. end - start /\ t[i] = decoded(buffer[start + i - 1]) /\ buffer[start + i - 1] = b
  BY <1>2
<1>5. start + i - 1 \in Positions
  BY <1>1, <1>4, Sizes DEF Positions
<1>6. b \in first .. last /\ b \in Nat
  <2>1. buffer[start + i - 1] \in Nat
    BY <1>5
  <2> QED BY <1>1, <1>4, <2>1
<1> HIDE DEF t, b, last
<1>7. -t[i] = b /\ ~(Character(b) \subseteq bytes)
  <2>1. t[i] = decoded(b)
    BY <1>4
  <2> QED BY <1>6, <2>1
<1>8. PICK x \in Character(b) : x \notin first .. last
  BY <1>3, <1>7
<1>9. x \in Int /\ SameCharacter(b, x)
  BY <1>8, Sizes DEF Character
<1>0. first \in Int /\ last \in Int /\ b \in Int
  BY <1>1, <1>6 DEF last
<1>10. CASE x < first
  <2>1. /\ first - 1 + 1 .. b \subseteq x + 1 .. b /\ b + 1 .. first - 1 = {}
        /\ first - 1 + 1 + 1 .. b \subseteq x + 1 .. b /\ b + 1 .. first - 1 + 1 = {}
    BY ONLY <1>0, <1>6, <1>9, <1>10
  <2>2. CutAt(b, first - 1)
    BY <1>9, <2>1 DEF CutAt, SameCharacter
  <2> QED BY <1>7, <2>2
<1>11. CASE x > last
  <2>1. /\ b + 1 .. last \subseteq b + 1 .. x /\ last + 1 .. b = {}
        /\ b + 1 .. last + 1 \subseteq b + 1 .. x /\ last + 1 + 1 .. b = {}
    BY ONLY <1>0, <1>6, <1>9, <1>11
  <2>2. CutAt(b, last)
    BY <1>9, <2>1 DEF CutAt, SameCharacter
  <2> QED BY <1>7, <2>2
<1> QED BY <1>0, <1>8, <1>9, <1>10, <1>11

LEMMA DeqIs ==
  ASSUME NEW r, NEW pos, NEW size, NEW d,
         d = IF size = -1 \/ size > SizeFrom(pos, r.head) THEN SizeFrom(pos, r.head) ELSE size
  PROVE  Deq(r, pos, size) =
           [text |-> IF IsWrapped(pos, r.head)
                     THEN ToText(r.buffer, pos, maxSize) \o ToText(r.buffer, 0, d - (maxSize - pos))
                     ELSE ToText(r.buffer, pos, pos + d),
            pos |-> IF Inc(pos, d - 1).newPos = r.head THEN -1 ELSE Inc(pos, d).newPos]
BY Zenon DEF Deq

LEMMA PieceIs ==
  ASSUME NEW r \in Rings, r.head \in Positions, NEW e \in Positions, NEW size \in Nat \cup {-1}, size # 0
  PROVE  \E d \in 1 .. e + 1 : \E k \in d .. e + 1 :
           PieceOf(r, e, size, Deq(r, Back(r.head, e), size), d, k)
<1> DEFINE head == r.head
           pos == Back(head, e)
           d == IF size = -1 \/ size > e + 1 THEN e + 1 ELSE size
           piece == Deq(r, pos, size)
<1>0. head \in Positions
  OBVIOUS
<1>a. pos \in Positions
  BY <1>0, BackType
<1>1. pos \in Positions /\ e \in Nat /\ head \in Positions /\ maxSize \in Nat \ {0}
  BY <1>0, <1>a, Sizes DEF Positions
<1>2. d \in 1 .. e + 1 /\ d \in {e + 1, size}
  BY <1>1
<1>3. SizeFrom(pos, head) = e + 1
  BY <1>1 DEF SizeFrom, IsWrapped, Back, Positions
<1>4. IsWrapped(pos, head) <=> e > head
  BY <1>1 DEF IsWrapped, Back, Positions
<1>5. piece = [text |-> IF IsWrapped(pos, head)
                        THEN ToText(r.buffer, pos, maxSize) \o ToText(r.buffer, 0, d - (maxSize - pos))
                        ELSE ToText(r.buffer, pos, pos + d),
               pos |-> IF Inc(pos, d - 1).newPos = head THEN -1 ELSE Inc(pos, d).newPos]
  <2>1. d = IF size = -1 \/ size > SizeFrom(pos, r.head) THEN SizeFrom(pos, r.head) ELSE size
    BY <1>3, Zenon
  <2> HIDE DEF d, pos
  <2> QED BY <2>1, DeqIs, Zenon
<1> HIDE DEF d, piece
<1>6. piece.pos = IF d = e + 1 THEN -1 ELSE Back(head, e - d)
  <2>1. d - 1 \in 0 .. e
    BY <1>1, <1>2
  <2> DEFINE x == d - 1
  <2>0. x \in 0 .. e
    BY <2>1
  <2> HIDE DEF x
  <2>a. Inc(pos, x).newPos = Back(head, e - x) /\ (Back(head, e - x) = head <=> x = e)
    <3>1. e \in Positions
      OBVIOUS
    <3> HIDE DEF pos, head
    <3>2. Inc(Back(head, e), x).newPos = Back(head, e - x) /\ (Back(head, e - x) = head <=> x = e)
      BY ONLY <1>0, <2>0, <3>1, BackMoves
    <3> QED BY <3>2, Zenon DEF pos, head
  <2>2. Inc(pos, d - 1).newPos = head <=> d - 1 = e
    BY <2>a, Zenon DEF x
  <2>3. CASE d = e + 1
    BY <1>1, <1>5, <2>2, <2>3
  <2>4. CASE d # e + 1
    <3>1. d \in 0 .. e /\ ~(d - 1 = e)
      BY <1>1, <1>2, <2>4
    <3>2. Inc(pos, d).newPos = Back(head, e - d)
      <4>1. e \in Positions
        OBVIOUS
      <4> HIDE DEF head
      <4> QED BY ONLY <1>0, <3>1, <4>1, BackMoves
    <3> QED BY <1>5, <2>2, <2>4, <3>1, <3>2
  <2> QED BY <2>3, <2>4
<1>7. r.buffer \in [Positions -> Nat]
  BY Sizes DEF Rings
<1>8. CASE e <= head
  <2>1. pos = head - e /\ pos + d \in 0 .. maxSize /\ pos <= pos + d /\ (pos + d) - pos = d
    BY <1>1, <1>2, <1>8 DEF Back, Positions
  <2>2. piece.text = ToText(r.buffer, pos, pos + d)
    BY <1>1, <1>4, <1>5, <1>8 DEF Positions
  <2>3. /\ piece.text \in Seq(Int) /\ Len(piece.text) = d
        /\ \A i \in 1 .. d : Bare(piece.text)[i] = r.buffer[pos + i - 1]
    <3>1. /\ ToText(r.buffer, pos, pos + d) \in Seq(Int)
          /\ Len(ToText(r.buffer, pos, pos + d)) = (pos + d) - pos
          /\ \A i \in 1 .. (pos + d) - pos : Bare(ToText(r.buffer, pos, pos + d))[i] = r.buffer[pos + i - 1]
      BY <1>a, <1>7, <2>1, TextIs, Zenon
    <3> QED BY <2>1, <2>2, <3>1, Zenon
  <2>4. \A i \in 1 .. d : pos + i - 1 = Back(head, e - (i - 1))
    BY <1>1, <1>2, <1>8, <2>1 DEF Back, Positions
  <2>5. \A i \in 1 .. d : Bare(piece.text)[i] = r.buffer[Back(head, e - (i - 1))]
    BY <2>3, <2>4
  <2>a. ASSUME NEW first \in Int, \A i \in 1 .. d : Bare(piece.text)[i] = first + i - 1
        PROVE  Breaks(piece.text, {first - 1, first + d - 1, r.buffer[maxSize - 1]})
    <3>1. \A i \in 1 .. (pos + d) - pos : r.buffer[pos + i - 1] = first + i - 1
      BY <2>1, <2>3, <2>a
    <3>2. Breaks(piece.text, {first - 1, first + ((pos + d) - pos) - 1})
      BY <1>1, <1>7, <2>1, <2>2, <3>1, TextBreaks
    <3> QED BY <2>1, <3>2 DEF Breaks
  <2>6. PieceOf(r, e, size, piece, d, d)
    BY <1>2, <1>6, <2>3, <2>5, <2>a DEF PieceOf
  <2>7. d \in d .. e + 1
    BY <1>1, <1>2
  <2> QED BY <1>2, <2>6, <2>7 DEF piece
<1>9. CASE e > head
  <2> DEFINE m == maxSize - pos
             one == ToText(r.buffer, pos, maxSize)
             two == ToText(r.buffer, 0, d - m)
  <2>1. pos = head - e + maxSize /\ m = e - head /\ m \in 1 .. e
    BY <1>1, <1>9 DEF Back, Positions
  <2>2. piece.text = one \o two
    BY <1>4, <1>5, <1>9
  <2>3. /\ one \in Seq(Int) /\ Len(one) = m
        /\ \A i \in 1 .. m : Bare(one)[i] = r.buffer[pos + i - 1]
    <3>1. maxSize \in 0 .. maxSize /\ pos <= maxSize
      BY <1>1 DEF Positions
    <3> QED BY <1>1, <1>7, <3>1, TextIs
  <2>4. \A i \in 1 .. m : pos + i - 1 = Back(head, e - (i - 1))
    BY <1>1, <1>9, <2>1 DEF Back, Positions
  <2>a. ASSUME NEW first \in Int, \A i \in 1 .. m : Bare(one)[i] = first + i - 1
        PROVE  /\ r.buffer[maxSize - 1] = first + m - 1
               /\ Breaks(one, {first - 1, r.buffer[maxSize - 1]})
    <3>0. pos + m - 1 = maxSize - 1 /\ m \in 1 .. m /\ maxSize \in 0 .. maxSize /\ pos <= maxSize /\ maxSize - pos = m
      BY <1>1, <2>1 DEF Positions
    <3>1. \A i \in 1 .. maxSize - pos : r.buffer[pos + i - 1] = first + i - 1
      <4> HIDE DEF one
      <4> QED BY <2>3, <2>a
    <3>2. Breaks(one, {first - 1, first + (maxSize - pos) - 1})
      BY <1>1, <1>7, <3>0, <3>1, TextBreaks
    <3>3. r.buffer[maxSize - 1] = first + m - 1
      <4>1. r.buffer[pos + m - 1] = first + m - 1
        BY <3>0, <3>1
      <4> QED BY <3>0, <4>1
    <3> QED BY <3>2, <3>3
  <2> HIDE DEF one, two, m
  <2>5. \A i \in 1 .. m : Bare(one)[i] = r.buffer[Back(head, e - (i - 1))]
    BY <2>3, <2>4
  <2>6. CASE d <= m
    <3>1. two = << >>
      <4>1. 1 .. (d - m) - 0 = {}
        BY <1>1, <1>2, <2>1, <2>6
      <4> DEFINE bytes == {r.buffer[p] : p \in 0 .. (d - m) - 1}
                 decoded(b) == IF Character(b) \subseteq bytes THEN b ELSE -b
      <4>2. two = [i \in 1 .. (d - m) - 0 |-> decoded(r.buffer[0 + i - 1])]
        BY DEF two, ToText
      <4> HIDE DEF decoded, bytes
      <4>3. two = [i \in {} |-> decoded(r.buffer[0 + i - 1])]
        BY <4>1, <4>2
      <4> QED BY <4>3
    <3>2. piece.text = one
      BY <2>2, <2>3, <3>1
    <3>a. ASSUME NEW first \in Int, \A i \in 1 .. m : Bare(piece.text)[i] = first + i - 1
          PROVE  Breaks(piece.text, {first - 1, first + d - 1, r.buffer[maxSize - 1]})
      BY <2>a, <3>2, <3>a DEF Breaks
    <3>3. PieceOf(r, e, size, piece, d, m)
      BY <1>2, <1>6, <2>3, <2>5, <3>2, <3>a DEF PieceOf
    <3>4. m \in d .. e + 1
      BY <1>1, <1>2, <2>1, <2>6
    <3> QED BY <1>2, <3>3, <3>4 DEF piece
  <2>7. CASE d > m
    <3>0. 0 \in Positions /\ d - m \in 0 .. maxSize /\ d - m >= 0 /\ (d - m) - 0 = d - m /\ m \in Nat /\ d \in Nat
      BY <1>1, <1>2, <2>1, <2>7 DEF Positions
    <3>1. /\ two \in Seq(Int) /\ Len(two) = d - m
          /\ \A i \in 1 .. d - m : Bare(two)[i] = r.buffer[0 + i - 1]
      <4>1. /\ ToText(r.buffer, 0, d - m) \in Seq(Int)
            /\ Len(ToText(r.buffer, 0, d - m)) = (d - m) - 0
            /\ \A i \in 1 .. (d - m) - 0 : Bare(ToText(r.buffer, 0, d - m))[i] = r.buffer[0 + i - 1]
        <5>1. 0 <= d - m
          BY <3>0
        <5> QED BY <1>7, <3>0, <5>1, TextIs, Zenon
      <4> QED BY <3>0, <4>1, Zenon DEF two
    <3>2. one \o two \in Seq(Int) /\ Len(one \o two) = d
      <4>1. Len(one \o two) = Len(one) + Len(two) /\ one \o two \in Seq(Int)
        <5>1. one \in Seq(Int) /\ two \in Seq(Int)
          BY <2>3, <3>1
        <5> QED BY ONLY <5>1
      <4> QED BY <2>3, <3>0, <3>1, <4>1
    <3>b. /\ Bare(one \o two) = Bare(one) \o Bare(two)
          /\ Bare(one) \in Seq(Int) /\ Len(Bare(one)) = m
          /\ Bare(two) \in Seq(Int) /\ Len(Bare(two)) = d - m
          /\ \A B : Breaks(one, B) /\ Breaks(two, B) => Breaks(one \o two, B)
      BY <2>3, <3>1, BareIs, BareJoined
    <3>c. \A i \in 1 .. d : Bare(one \o two)[i] = IF i <= m THEN Bare(one)[i] ELSE Bare(two)[i - m]
      <4> DEFINE u == Bare(one)
                 v == Bare(two)
      <4>1. u \in Seq(Int) /\ Len(u) = m /\ v \in Seq(Int) /\ Len(v) = d - m
        BY <3>b, Zenon
      <4> HIDE DEF u, v
      <4>2. \A i \in 1 .. d : (u \o v)[i] = IF i <= m THEN u[i] ELSE v[i - m]
        BY ONLY <3>0, <4>1
      <4> QED BY <3>b, <4>2 DEF u, v
    <3>3. ASSUME NEW i \in 1 .. d
          PROVE  Bare(one \o two)[i] = r.buffer[Back(head, e - (i - 1))]
      <4>1. CASE i <= m
        <5>1. i \in 1 .. m
          BY <3>0, <4>1
        <5> QED BY <2>5, <3>c, <4>1, <5>1
      <4>2. CASE i > m
        <5>1. i - m \in 1 .. d - m /\ ~(i <= m)
          BY <3>0, <4>2
        <5>2. Bare(two)[i - m] = r.buffer[0 + (i - m) - 1]
          BY <3>1, <5>1
        <5>3. 0 + (i - m) - 1 = Back(head, e - (i - 1))
          BY <1>1, <1>2, <2>1, <3>0, <4>2 DEF Back, Positions
        <5> QED BY <3>c, <5>1, <5>2, <5>3
      <4>3. i <= m \/ i > m
        BY <3>0
      <4> QED BY <4>1, <4>2, <4>3
    <3>a. ASSUME NEW first \in Int, \A i \in 1 .. d : Bare(piece.text)[i] = first + i - 1
          PROVE  Breaks(piece.text, {first - 1, first + d - 1, r.buffer[maxSize - 1]})
      <4>1. \A i \in 1 .. d : Bare(one \o two)[i] = first + i - 1
        BY <2>2, <3>a
      <4>2. \A i \in 1 .. m : Bare(one)[i] = first + i - 1
        BY <3>0, <3>c, <4>1
      <4>3. r.buffer[maxSize - 1] = first + m - 1 /\ Breaks(one, {first - 1, r.buffer[maxSize - 1]})
        BY <2>a, <4>2
      <4>4. \A i \in 1 .. (d - m) - 0 : r.buffer[0 + i - 1] = (first + m) + i - 1
        <5> SUFFICES ASSUME NEW i \in 1 .. d - m PROVE r.buffer[0 + i - 1] = (first + m) + i - 1
          BY <3>0
        <5>1. m + i \in 1 .. d /\ ~(m + i <= m) /\ (m + i) - m = i /\ first + (m + i) - 1 = (first + m) + i - 1
          BY <3>0
        <5>2. Bare(one \o two)[m + i] = Bare(two)[i]
          BY <3>c, <5>1
        <5>3. Bare(one \o two)[m + i] = first + (m + i) - 1
          BY <4>1, <5>1
        <5>4. Bare(two)[i] = r.buffer[0 + i - 1]
          BY <3>1
        <5> QED BY <5>1, <5>2, <5>3, <5>4
      <4>5. Breaks(two, {(first + m) - 1, (first + m) + ((d - m) - 0) - 1})
        <5>1. first + m \in Int /\ 0 <= d - m
          BY <3>0
        <5> QED BY <1>7, <3>0, <4>4, <5>1, TextBreaks DEF two
      <4>6. (first + m) - 1 = r.buffer[maxSize - 1] /\ (first + m) + ((d - m) - 0) - 1 = first + d - 1
        BY <3>0, <4>3
      <4>7. Breaks(two, {r.buffer[maxSize - 1], first + d - 1})
        BY <4>5, <4>6
      <4> DEFINE B == {first - 1, first + d - 1, r.buffer[maxSize - 1]}
      <4>8. Breaks(one, B) /\ Breaks(two, B)
        BY <4>3, <4>7, Zenon DEF Breaks
      <4> HIDE DEF B
      <4>9. Breaks(one \o two, B)
        BY <3>b, <4>8, Zenon
      <4> QED BY <2>2, <4>9 DEF B
    <3>4. PieceOf(r, e, size, piece, d, d)
      <4>1. piece.text \in Seq(Int) /\ Len(piece.text) = d
        BY <2>2, <3>2
      <4>2. \A i \in 1 .. d : Bare(piece.text)[i] = r.buffer[Back(r.head, e - (i - 1))]
        BY <2>2, <3>3
      <4> QED BY <1>2, <1>6, <3>a, <4>1, <4>2 DEF PieceOf
    <3>5. d \in d .. e + 1
      BY <1>1, <1>2
    <3> QED BY <1>2, <3>4, <3>5 DEF piece
  <2> QED BY <1>1, <1>2, <2>1, <2>6, <2>7
<1> QED BY <1>1, <1>8, <1>9 DEF Positions

-----------------------------------------------------------------------------
(* What a stream reads until there is nothing left: a recursion on the      *)
(* distance from the head.  What holds at no distance that is the first one *)
(* to fail holds at all. *)

\* f reads from pos on what deq returns there, and then from where the reader is left.
ReadsAt(r, size, f, pos) ==
  f[pos] = Deq(r, pos, size).text \o IF Deq(r, pos, size).pos = -1 THEN << >> ELSE f[Deq(r, pos, size).pos]

\* It does so at the distances below n.
ReadsUpTo(r, size, f, n) == \A e \in 0 .. n - 1 : ReadsAt(r, size, f, Back(r.head, e))

LEMMA BackInjective ==
  ASSUME NEW head \in Positions, NEW d \in Positions, NEW e \in Positions, Back(head, d) = Back(head, e)
  PROVE  d = e
BY Sizes DEF Back, Positions

LEMMA BackReaches ==
  ASSUME NEW head \in Positions, NEW pos \in Positions
  PROVE  \E e \in Positions : pos = Back(head, e)
<1> DEFINE e == IF pos <= head THEN head - pos ELSE head - pos + maxSize
<1>1. e \in Positions /\ pos = Back(head, e)
  BY Sizes DEF Back, Positions
<1> QED BY <1>1

LEMMA OneMore ==
  ASSUME NEW r \in Rings, r.head \in Positions, NEW size \in Nat \cup {-1}, size # 0,
         NEW n \in Positions, NEW f \in [Positions -> Seq(Int)], ReadsUpTo(r, size, f, n)
  PROVE  \E g \in [Positions -> Seq(Int)] : ReadsUpTo(r, size, g, n + 1)
<1> DEFINE at == Back(r.head, n)
           piece == Deq(r, at, size)
           rest == IF piece.pos = -1 THEN << >> ELSE f[piece.pos]
           g == [f EXCEPT ![at] = piece.text \o rest]
<1>a. at \in Positions
  BY BackType
<1>0. n \in Nat /\ at \in Positions
  BY <1>a, Sizes DEF Positions
<1>1. PICK d \in 1 .. n + 1 : \E k \in d .. n + 1 : PieceOf(r, n, size, piece, d, k)
  BY PieceIs
<1> HIDE DEF piece
<1>2. piece.text \in Seq(Int) /\ piece.pos = IF d = n + 1 THEN -1 ELSE Back(r.head, n - d)
  BY <1>1 DEF PieceOf
<1>3. d # n + 1 => n - d \in 0 .. n - 1 /\ n - d \in Positions /\ Back(r.head, n - d) \in Positions
  <2> SUFFICES ASSUME d # n + 1 PROVE n - d \in 0 .. n - 1 /\ n - d \in Positions /\ Back(r.head, n - d) \in Positions
    OBVIOUS
  <2>1. n - d \in 0 .. n - 1 /\ n - d \in Positions
    BY <1>0, Sizes DEF Positions
  <2> QED BY <2>1, BackType
<1>4. rest \in Seq(Int)
  <2>1. CASE d = n + 1
    BY <1>2, <2>1
  <2>2. CASE d # n + 1
    <3>1. piece.pos \in Positions
      BY <1>2, <1>3, <2>2
    <3>2. f[piece.pos] \in Seq(Int)
      BY <3>1
    <3> QED BY <3>2
  <2> QED BY <2>1, <2>2
<1> HIDE DEF rest
<1>5. piece.text \o rest \in Seq(Int)
  BY <1>2, <1>4
<1>6. g \in [Positions -> Seq(Int)]
  BY <1>5
<1>7. \A e \in 0 .. n - 1 : Back(r.head, e) \in Positions /\ Back(r.head, e) # at /\ g[Back(r.head, e)] = f[Back(r.head, e)]
  <2> SUFFICES ASSUME NEW e \in 0 .. n - 1
               PROVE  Back(r.head, e) \in Positions /\ Back(r.head, e) # at /\ g[Back(r.head, e)] = f[Back(r.head, e)]
    OBVIOUS
  <2>1. e \in Positions /\ e # n
    BY <1>0, Sizes DEF Positions
  <2>2. Back(r.head, e) \in Positions
    BY <2>1, BackType
  <2>3. Back(r.head, e) # at
    BY <2>1, BackInjective
  <2> QED BY <2>2, <2>3
<1> HIDE DEF g
<1>8. ASSUME NEW e \in 0 .. n - 1
      PROVE  ReadsAt(r, size, g, Back(r.head, e))
  <2> DEFINE pos == Back(r.head, e)
             q == Deq(r, pos, size)
  <2>1. ReadsAt(r, size, f, pos)
    BY <1>8 DEF ReadsUpTo
  <2>2. f[pos] = q.text \o IF q.pos = -1 THEN << >> ELSE f[q.pos]
    BY <2>1 DEF ReadsAt
  <2>3. g[pos] = f[pos]
    BY <1>7, <1>8
  <2>4. e \in Positions
    BY <1>0, <1>8, Sizes DEF Positions
  <2>5. PICK c \in 1 .. e + 1 : \E k \in c .. e + 1 : PieceOf(r, e, size, q, c, k)
    BY <2>4, PieceIs
  <2> HIDE DEF q, pos
  <2>6. q.pos = IF c = e + 1 THEN -1 ELSE Back(r.head, e - c)
    BY <2>5 DEF PieceOf
  <2>7. c # e + 1 => g[q.pos] = f[q.pos]
    <3> SUFFICES ASSUME c # e + 1 PROVE g[q.pos] = f[q.pos]
      OBVIOUS
    <3>1. e - c \in 0 .. n - 1
      BY <1>0, <2>4, Sizes DEF Positions
    <3> QED BY <1>7, <2>6, <3>1
  <2>8. c = e + 1 => q.pos = -1
    BY <2>6
  <2>9. g[pos] = q.text \o IF q.pos = -1 THEN << >> ELSE g[q.pos]
    BY <2>2, <2>3, <2>7, <2>8
  <2> QED BY <2>9 DEF ReadsAt, q, pos
<1>9. ReadsAt(r, size, g, at)
  <2>1. g[at] = piece.text \o rest
    BY <1>0 DEF g
  <2>2. rest = IF piece.pos = -1 THEN << >> ELSE g[piece.pos]
    <3>1. CASE d = n + 1
      BY <1>2, <3>1 DEF rest
    <3>2. CASE d # n + 1
      <4>1. piece.pos = Back(r.head, n - d) /\ n - d \in 0 .. n - 1
        BY <1>2, <1>3, <3>2
      <4>2. g[piece.pos] = f[piece.pos] /\ piece.pos \in Positions
        BY <1>7, <4>1
      <4>3. piece.pos # -1
        BY <4>2, Sizes DEF Positions
      <4> QED BY <4>2, <4>3 DEF rest
    <3> QED BY <3>1, <3>2
  <2> QED BY <2>1, <2>2 DEF ReadsAt, piece
<1>10. \A e \in 0 .. (n + 1) - 1 : e = n \/ e \in 0 .. n - 1
  BY <1>0
<1>11. ReadsUpTo(r, size, g, n + 1)
  BY <1>8, <1>9, <1>10 DEF ReadsUpTo
<1> QED BY <1>6, <1>11

LEMMA ReadExists ==
  ASSUME NEW r \in Rings, r.head \in Positions, NEW size \in Nat \cup {-1}, size # 0
  PROVE  \E f \in [Positions -> Seq(Int)] : \A pos \in Positions : ReadsAt(r, size, f, pos)
<1> DEFINE Fails == {n \in 0 .. maxSize : ~\E f \in [Positions -> Seq(Int)] : ReadsUpTo(r, size, f, n)}
<1>1. Fails = {}
  <2> SUFFICES ASSUME Fails # {} PROVE FALSE
    OBVIOUS
  <2>1. Fails \in SUBSET Nat
    OBVIOUS
  <2> HIDE DEF Fails
  <2>2. PICK n \in Fails : \A k \in Fails : n <= k
    BY <2>1, Least
  <2>3. n \in 0 .. maxSize /\ ~\E f \in [Positions -> Seq(Int)] : ReadsUpTo(r, size, f, n)
    BY <2>2 DEF Fails
  <2>4. n # 0
    <3> SUFFICES ASSUME n = 0 PROVE FALSE
      OBVIOUS
    <3>1. [p \in Positions |-> << >>] \in [Positions -> Seq(Int)]
      OBVIOUS
    <3>2. ReadsUpTo(r, size, [p \in Positions |-> << >>], n)
      <4>1. 0 .. n - 1 = {}
        OBVIOUS
      <4> QED BY <4>1 DEF ReadsUpTo
    <3> QED BY <2>3, <3>1, <3>2
  <2>5. n - 1 \in Positions /\ n - 1 \in 0 .. maxSize /\ (n - 1) + 1 = n
    BY <2>3, <2>4, Sizes DEF Positions
  <2>6. n - 1 \notin Fails
    BY <2>2, <2>3, <2>5
  <2>7. PICK f \in [Positions -> Seq(Int)] : ReadsUpTo(r, size, f, n - 1)
    BY <2>5, <2>6 DEF Fails
  <2>8. \E g \in [Positions -> Seq(Int)] : ReadsUpTo(r, size, g, (n - 1) + 1)
    BY <2>5, <2>7, OneMore
  <2> QED BY <2>3, <2>5, <2>8
<1>2. maxSize \in 0 .. maxSize
  BY Sizes
<1>3. PICK f \in [Positions -> Seq(Int)] : ReadsUpTo(r, size, f, maxSize)
  BY <1>1, <1>2
<1>4. ASSUME NEW pos \in Positions
      PROVE  ReadsAt(r, size, f, pos)
  <2>1. PICK e \in Positions : pos = Back(r.head, e)
    BY BackReaches
  <2>2. e \in 0 .. maxSize - 1
    BY DEF Positions
  <2> QED BY <1>3, <2>1, <2>2 DEF ReadsUpTo
<1> QED BY <1>4

\* The function that ReadAll chooses.
LEMMA ReadAllIs ==
  ASSUME NEW r \in Rings, r.head \in Positions, NEW size \in Nat \cup {-1}, size # 0
  PROVE  \E f : /\ \A pos \in Positions : ReadsAt(r, size, f, pos)
                /\ \A start \in Positions : ReadAll(r, start, size) = f[start]
<1> DEFINE Reads(f) ==
             f = [pos \in Positions |->
                    Deq(r, pos, size).text \o
                      IF Deq(r, pos, size).pos = -1 THEN << >> ELSE f[Deq(r, pos, size).pos]]
           read == CHOOSE f : Reads(f)
<1>1. \E f : Reads(f)
  <2>1. PICK f \in [Positions -> Seq(Int)] : \A pos \in Positions : ReadsAt(r, size, f, pos)
    BY ReadExists
  <2>2. f = [pos \in Positions |-> f[pos]]
    OBVIOUS
  <2>3. Reads(f)
    BY <2>1, <2>2 DEF ReadsAt
  <2> QED BY <2>3
<1>2. Reads(read)
  <2> HIDE DEF Reads
  <2> QED BY <1>1
<1>3. \A start : ReadAll(r, start, size) = IF start = -1 THEN << >> ELSE read[start]
  BY DEF ReadAll
<1> HIDE DEF read
<1>4. \A pos \in Positions : ReadsAt(r, size, read, pos)
  BY <1>2 DEF ReadsAt
<1>5. \A start \in Positions : ReadAll(r, start, size) = read[start]
  BY <1>3, Sizes DEF Positions
<1> QED BY <1>4, <1>5

\* A reader at distance e, which the ring still holds, gets the bytes from there to the last one,
\* and cuts the characters that go over where it starts, the end of the ring, or where it goes on.
LEMMA ReadCovers ==
  ASSUME NEW r \in Rings, r.head \in Positions, NEW size \in Nat \cup {-1}, size # 0,
         NEW kept \in 1 .. maxSize, NEW last \in Nat, HoldsBack(r, kept, last),
         NEW e \in 0 .. kept - 1,
         NEW B \in SUBSET Int, last \in B, r.buffer[maxSize - 1] \in B,
         NEW S \in SUBSET B, last - e - 1 \in S,
         size # -1 => \A c \in S : c + size <= last => c + size \in S
  PROVE  /\ Covers(ReadAll(r, Back(r.head, e), size), last - e, last)
         /\ Breaks(ReadAll(r, Back(r.head, e), size), B)
<1>1. PICK f : /\ \A pos \in Positions : ReadsAt(r, size, f, pos)
               /\ \A start \in Positions : ReadAll(r, start, size) = f[start]
  BY ReadAllIs
<1> DEFINE Right(n) == /\ Covers(f[Back(r.head, n)], last - n, last)
                       /\ last - n - 1 \in S => Breaks(f[Back(r.head, n)], B)
           Fails == {n \in 0 .. kept - 1 : ~Right(n)}
<1>2. Fails = {}
  <2> SUFFICES ASSUME Fails # {} PROVE FALSE
    OBVIOUS
  <2>1. Fails \in SUBSET Nat
    OBVIOUS
  <2> HIDE DEF Fails
  <2>2. PICK n \in Fails : \A k \in Fails : n <= k
    BY <2>1, Least
  <2>3. n \in 0 .. kept - 1 /\ ~Right(n)
    BY <2>2 DEF Fails
  <2>4. n \in Positions /\ n \in Nat
    BY <2>3, Sizes DEF Positions
  <2>5. Back(r.head, n) \in Positions
    BY <2>4, BackType
  <2> DEFINE piece == Deq(r, Back(r.head, n), size)
             rest == IF piece.pos = -1 THEN << >> ELSE f[piece.pos]
  <2>6. PICK d \in 1 .. n + 1 : \E k \in d .. n + 1 : PieceOf(r, n, size, piece, d, k)
    BY <2>4, PieceIs
  <2>7. PICK k \in d .. n + 1 : PieceOf(r, n, size, piece, d, k)
    BY <2>6
  <2>8. f[Back(r.head, n)] = piece.text \o rest
    BY <1>1, <2>5 DEF ReadsAt
  <2> HIDE DEF piece, rest
  <2>9. /\ piece.pos = IF d = n + 1 THEN -1 ELSE Back(r.head, n - d)
        /\ piece.text \in Seq(Int) /\ Len(piece.text) = k
        /\ \A i \in 1 .. k : Bare(piece.text)[i] = r.buffer[Back(r.head, n - (i - 1))]
    BY <2>7 DEF PieceOf
  <2>10. \A i \in 1 .. k : Bare(piece.text)[i] = (last - n) + i - 1
    <3> SUFFICES ASSUME NEW i \in 1 .. k PROVE Bare(piece.text)[i] = (last - n) + i - 1
      OBVIOUS
    <3>1. n - (i - 1) \in 0 .. kept - 1
      BY <2>3, <2>4
    <3>2. r.buffer[Back(r.head, n - (i - 1))] = last - (n - (i - 1))
      BY <3>1 DEF HoldsBack
    <3>3. last - (n - (i - 1)) = (last - n) + i - 1
      BY <2>4
    <3> QED BY <2>9, <3>2, <3>3
  <2>11. /\ Bare(piece.text) \in Seq(Int) /\ ToSet(Bare(piece.text)) = last - n .. last - n + k - 1
         /\ Ordered(Bare(piece.text))
    <3> DEFINE bare == Bare(piece.text)
    <3>1. last - n \in Int /\ bare \in Seq(Int) /\ Len(bare) = k
      BY <2>4, <2>9, BareIs
    <3>2. \A i \in 1 .. Len(bare) : bare[i] = (last - n) + i - 1
      BY <2>10, <3>1
    <3> HIDE DEF bare
    <3>3. ToSet(bare) = (last - n) .. (last - n) + Len(bare) - 1 /\ Ordered(bare)
      BY <3>1, <3>2, RunCovers
    <3> QED BY <3>1, <3>3 DEF bare
  <2>a. last - n - 1 \in S => Breaks(piece.text, {last - n - 1, last - n + d - 1, r.buffer[maxSize - 1]})
    <3>1. last - n \in Int
      BY <2>4
    <3> QED BY <2>7, <2>10, <3>1, Zenon DEF PieceOf
  <2>b. d = n + 1 \/ d = size
    BY <2>7, Zenon DEF PieceOf
  <2>c. last - n - 1 \in S => Breaks(piece.text, B)
    <3> SUFFICES ASSUME last - n - 1 \in S PROVE Breaks(piece.text, B)
      OBVIOUS
    <3>1. last - n + d - 1 \in B
      <4>1. CASE d = n + 1
        <5>1. last - n + d - 1 = last
          BY <2>4, <4>1
        <5> QED BY <5>1
      <4>2. CASE d # n + 1
        <5>1. d = size /\ size # -1
          BY <2>b, <4>2
        <5>2. (last - n - 1) + size = last - n + d - 1 /\ (last - n - 1) + size <= last
          BY <2>4, <4>2, <5>1
        <5> QED BY <5>1, <5>2
      <4> QED BY <4>1, <4>2
    <3> QED BY <2>a, <3>1, Zenon DEF Breaks
  <2>12. Covers(rest, last - n + d, last)
    <3>1. CASE d = n + 1
      <4>1. rest = << >> /\ last - n + d = last + 1
        BY <2>4, <2>9, <3>1 DEF rest
      <4>2. last + 1 .. last = {}
        OBVIOUS
      <4> QED BY <4>1, <4>2, EmptyCovers
    <3>2. CASE d # n + 1
      <4>1. n - d \in 0 .. kept - 1 /\ n - d < n /\ n - d \in Positions
        BY <2>3, <2>4, <3>2, Sizes DEF Positions
      <4>2. n - d \notin Fails
        BY <2>2, <2>4, <4>1
      <4>3. Covers(f[Back(r.head, n - d)], last - (n - d), last)
        BY <4>1, <4>2, Zenon DEF Fails
      <4>4. Back(r.head, n - d) # -1
        <5>1. Back(r.head, n - d) \in Positions
          BY <4>1, BackType
        <5> QED BY <5>1, Sizes DEF Positions
      <4>5. rest = f[Back(r.head, n - d)]
        BY <2>9, <3>2, <4>4 DEF rest
      <4>6. last - (n - d) = last - n + d
        BY <2>4
      <4> QED BY <4>3, <4>5, <4>6
    <3> QED BY <3>1, <3>2
  <2>d. last - n - 1 \in S => Breaks(rest, B)
    <3>1. CASE d = n + 1
      <4>1. rest = << >>
        BY <2>9, <3>1 DEF rest
      <4> QED BY <4>1 DEF Breaks
    <3>2. CASE d # n + 1
      <4> SUFFICES ASSUME last - n - 1 \in S PROVE Breaks(rest, B)
        OBVIOUS
      <4>1. n - d \in 0 .. kept - 1 /\ n - d < n /\ n - d \in Positions
        BY <2>3, <2>4, <3>2, Sizes DEF Positions
      <4>2. n - d \notin Fails
        BY <2>2, <2>4, <4>1
      <4>3. last - (n - d) - 1 \in S
        <5>1. d = size /\ size # -1
          BY <2>b, <3>2
        <5>2. (last - n - 1) + size = last - (n - d) - 1 /\ (last - n - 1) + size <= last
          BY <2>4, <4>1, <5>1
        <5> QED BY <5>1, <5>2
      <4>4. Breaks(f[Back(r.head, n - d)], B)
        BY <4>1, <4>2, <4>3, Zenon DEF Fails
      <4>5. Back(r.head, n - d) # -1
        <5>1. Back(r.head, n - d) \in Positions
          BY <4>1, BackType
        <5> QED BY <5>1, Sizes DEF Positions
      <4>6. rest = f[Back(r.head, n - d)]
        BY <2>9, <3>2, <4>5 DEF rest
      <4> QED BY <4>4, <4>6
    <3> QED BY <3>1, <3>2
  <2>e. piece.text \in Seq(Int) /\ rest \in Seq(Int)
    BY <2>9, <2>12 DEF Covers
  <2>f. last - n - 1 \in S => Breaks(piece.text \o rest, B)
    BY <2>c, <2>d, <2>e, BareJoined
  <2>13. Covers(piece.text \o rest, last - n, last)
    <3> DEFINE u == Bare(piece.text)
               v == Bare(rest)
    <3>0. piece.text \o rest \in Seq(Int) /\ Bare(piece.text \o rest) = u \o v
      BY <2>e, BareJoined
    <3>1. /\ u \in Seq(Int) /\ ToSet(u) = last - n .. last - n + k - 1 /\ Ordered(u)
          /\ v \in Seq(Int) /\ ToSet(v) = last - n + d .. last /\ Ordered(v)
      BY <2>11, <2>12, <2>e, BareIs DEF Covers
    <3> HIDE DEF u, v
    <3>2. \A i \in DOMAIN u : \A b \in ToSet(v) : b < u[i] => b \in ToSet(u)
      <4> SUFFICES ASSUME NEW i \in DOMAIN u, NEW b \in ToSet(v), b < u[i]
                   PROVE  b \in ToSet(u)
        OBVIOUS
      <4>1. u[i] \in ToSet(u)
        BY DEF ToSet
      <4>2. u[i] \in last - n .. last - n + k - 1 /\ b \in last - n + d .. last
        BY <3>1, <4>1, Zenon
      <4>3. b \in last - n .. last - n + k - 1
        <5>1. /\ n \in Nat /\ b < u[i] /\ last \in Nat
              /\ d \in 1 .. n + 1 /\ k \in d .. n + 1
          BY <2>4
        <5> QED BY ONLY <4>2, <5>1
      <4> QED BY <3>1, <4>3, Zenon
    <3>3. /\ u \o v \in Seq(Int)
          /\ ToSet(u \o v) = ToSet(u) \cup ToSet(v)
          /\ Ordered(u \o v)
      BY <3>1, <3>2, JoinOrdered
    <3>4. (last - n .. last - n + k - 1) \cup (last - n + d .. last) = last - n .. last
      BY <2>4
    <3> QED BY <3>0, <3>1, <3>3, <3>4 DEF Covers
  <2> QED BY <2>3, <2>8, <2>f, <2>13
<1>3. Covers(f[Back(r.head, e)], last - e, last) /\ Breaks(f[Back(r.head, e)], B)
  BY <1>2
<1>4. Back(r.head, e) \in Positions
  <2>1. e \in Positions
    BY Sizes DEF Positions
  <2> QED BY <2>1, BackType
<1> QED BY <1>1, <1>3, <1>4

-----------------------------------------------------------------------------
(* The streams' text is part of the invariant too: it is appended to, so that what a stream has got  *)
(* only says something together with what was cut from the output.                                  *)

ShownInv ==
  /\ cut \subseteq 1 .. written - maxSize
  /\ from \in [Streams -> Nat]
  /\ before \in [Streams -> Nat]
  /\ text \in [Streams -> Seq(Int)]
  /\ atEnd \subseteq Int /\ (written # 0 => ring.buffer[maxSize - 1] \in atEnd)
  /\ written + 1 \notin Continues
  /\ \A s \in ring.streams : /\ from[s] \in 1 .. written + 1
                             /\ ToSet(Bare(text[s])) = (from[s] .. written) \ cut
                             /\ Ordered(Bare(text[s]))
                             /\ Breaks(text[s], Borders(s))

LEMMA BreaksMore == \A t, A, B : Breaks(t, A) /\ A \subseteq B => Breaks(t, B)
BY Zenon DEF Breaks

\* A text does not break at a border after which no character goes on.
LEMMA BreaksLess ==
  ASSUME NEW t \in Seq(Int), NEW B \in SUBSET Int, NEW A \in SUBSET B, Breaks(t, B),
         \A c \in B \ A : c + 1 \notin Continues
  PROVE  Breaks(t, A)
<1> SUFFICES ASSUME NEW i \in DOMAIN t, t[i] < 0 PROVE \E c \in A : CutAt(-t[i], c)
  BY DEF Breaks
<1>1. t[i] \in Int
  OBVIOUS
<1>2. PICK c \in B : CutAt(-t[i], c)
  BY DEF Breaks
<1>3. c + 1 \in Continues
  BY <1>1, <1>2, CutContinues
<1> QED BY <1>2, <1>3

LEMMA InitShown == RingInit => ShownInv
<1> SUFFICES ASSUME RingInit PROVE ShownInv
  OBVIOUS
<1>1. /\ ring.streams = {} /\ cut = {} /\ from = [s \in Streams |-> 1] /\ text = [s \in Streams |-> << >>]
      /\ atEnd = {} /\ before = [s \in Streams |-> 0] /\ written = 0
  BY DEF RingInit
<1>2. 1 \notin Continues
  BY RingAssumption
<1> QED BY <1>1, <1>2 DEF ShownInv

LEMMA EnqShown ==
  ASSUME RingInv, ShownInv, NEW n \in Chunks, Enq(n)
  PROVE  ShownInv'
<1>1. /\ n \in Nat /\ written \in 0 .. MaxBytes /\ written + n \in 0 .. MaxBytes
      /\ written' = written + n
      /\ cut' = cut \cup (written + 1 .. written + n - maxSize) /\ from' = from
      /\ \/ n = 0 /\ ring' = ring /\ text' = text
         \/ n \in 1 .. MaxBytes /\ \E r \in Rings, start \in Positions :
              /\ r.head \in Positions /\ HoldsBack(r, Kept(written + n), written + n)
              /\ r.streams = ring.streams /\ r.readerId = ring.readerId
              /\ start = Back(r.head, Kept(n) - 1)
              /\ OnData(r, start)
  BY EnqIs
<1>a. cut' = cut \cup (written + 1 .. written + n - maxSize)
  BY <1>1, Zenon
<1>b. n \in Nat /\ written \in Nat
  BY <1>1
<1>2. cut' \subseteq 1 .. written' - maxSize
  <2>1. cut \subseteq 1 .. written - maxSize
    BY DEF ShownInv
  <2> SUFFICES ASSUME NEW b \in cut' PROVE b \in 1 .. written' - maxSize
    OBVIOUS
  <2>2. CASE b \in cut
    BY <1>1, <2>1, <2>2, Sizes
  <2>3. CASE b \in written + 1 .. written + n - maxSize
    BY <1>1, <2>3, Sizes
  <2> QED BY <1>1, <2>2, <2>3
<1>c. /\ atEnd' = atEnd \union {ring'.buffer[maxSize - 1]} /\ before' = before
      /\ written + n + 1 \notin Continues
  BY DEF Enq
<1>3. CASE n = 0 /\ ring' = ring /\ text' = text
  <2>1. written' = written /\ cut' = cut
    BY <1>1, <1>3, Sizes
  <2>2. ring.buffer[maxSize - 1] \in Int
    BY Sizes DEF RingInv, TypeInv, Rings, Positions
  <2>3. atEnd' \subseteq Int /\ ring'.buffer[maxSize - 1] \in atEnd'
    BY <1>3, <1>c, <2>2 DEF ShownInv
  <2>4. \A s : Borders(s) \subseteq Borders(s)'
    BY <1>1, <1>c, <2>1, Zenon DEF Borders
  <2>5. \A s \in ring.streams : Breaks(text[s], Borders(s)')
    BY <2>4, BreaksMore DEF ShownInv
  <2> QED BY <1>1, <1>3, <1>c, <2>1, <2>3, <2>5 DEF ShownInv
<1>4. ASSUME n \in 1 .. MaxBytes, NEW r \in Rings, NEW start \in Positions,
             r.head \in Positions, HoldsBack(r, Kept(written + n), written + n),
             r.streams = ring.streams, start = Back(r.head, Kept(n) - 1), OnData(r, start)
      PROVE  ShownInv'
  <2> DEFINE got == ReadAll(r, start, -1)
             kept == Kept(n)
             all == Kept(written + n)
             last == written + n
  <2>1. /\ kept \in 1 .. maxSize /\ all \in 1 .. maxSize /\ kept - 1 \in 0 .. all - 1 /\ last \in Nat
        /\ kept = IF n < maxSize THEN n ELSE maxSize
    BY <1>1, <1>4, Sizes DEF Kept
  <2> HIDE DEF kept, all
  <2>3. ring' = r
    BY <1>4, OnDataKeeps
  <2> DEFINE ends == atEnd' \cup cut'
             B == ends \cup {written, last}
  <2>a. B \in SUBSET Int /\ r.buffer[maxSize - 1] \in B /\ r.buffer[maxSize - 1] \in Int /\ last \in B /\ ends \in SUBSET B
    <3>1. r.buffer[maxSize - 1] \in Int
      BY Sizes DEF Rings, Positions
    <3>2. atEnd' \subseteq Int /\ r.buffer[maxSize - 1] \in atEnd'
      BY <1>c, <2>3, <3>1 DEF ShownInv
    <3>3. cut' \subseteq Int
      BY <1>2
    <3> QED BY <1>b, <2>1, <3>1, <3>2, <3>3
  <2>b. last - (kept - 1) - 1 \in B
    <3>1. CASE n <= maxSize
      <4>1. last - (kept - 1) - 1 = written
        BY <1>b, <2>1, <3>1, Sizes
      <4> QED BY <4>1
    <3>2. CASE n > maxSize
      <4>1. last - (kept - 1) - 1 \in written + 1 .. written + n - maxSize
        BY <1>b, <2>1, <3>2, Sizes
      <4> HIDE DEF last
      <4> QED BY <1>a, <4>1
    <3> QED BY <1>b, <3>1, <3>2, Sizes
  <2>c. \A c \in B \ ends : c + 1 \notin Continues
    BY <1>c DEF ShownInv
  <2> HIDE DEF B, ends
  <2>d. Covers(got, last - (kept - 1), last) /\ Breaks(got, B)
    <3>1. HoldsBack(r, all, last) /\ start = Back(r.head, kept - 1) /\ -1 \in Nat \cup {-1} /\ -1 # 0
      BY <1>4 DEF kept, all
    <3>2. /\ Covers(ReadAll(r, Back(r.head, kept - 1), -1), last - (kept - 1), last)
          /\ Breaks(ReadAll(r, Back(r.head, kept - 1), -1), B)
      <4> DEFINE e == kept - 1
      <4>1. last - e - 1 \in {last - e - 1} /\ {last - e - 1} \in SUBSET B /\ e \in 0 .. all - 1
        BY <2>1, <2>b
      <4> HIDE DEF e, last
      <4>2. Covers(ReadAll(r, Back(r.head, e), -1), last - e, last) /\ Breaks(ReadAll(r, Back(r.head, e), -1), B)
        BY <1>4, <2>1, <2>a, <3>1, <4>1, ReadCovers
      <4> QED BY <4>2 DEF e
    <3> QED BY <3>1, <3>2
  <2>2. Covers(got, last - (kept - 1), last)
    BY <2>d
  <2>e. Breaks(got, ends)
    <3>1. got \in Seq(Int)
      BY <2>2 DEF Covers
    <3> HIDE DEF got
    <3> QED BY <2>a, <2>c, <2>d, <3>1, BreaksLess
  <2>f. \A s : Borders(s) \subseteq Borders(s)' /\ ends \subseteq Borders(s)'
    BY <1>1, <1>c, Zenon DEF Borders, ends
  <2>4. text' = [s \in Streams |-> IF s \in r.streams THEN text[s] \o got ELSE text[s]]
    <3>1. r.readers = [s \in Streams |-> -1] /\ r.streams \subseteq Streams
      BY DEF Rings
    <3> DEFINE readers == [s \in Streams |-> IF s \in r.streams /\ r.readers[s] = -1 THEN start ELSE r.readers[s]]
    <3>2. text' = [s \in Streams |-> IF s \in r.streams THEN text[s] \o ReadAll(r, readers[s], -1) ELSE text[s]]
      BY <1>4, Zenon DEF OnData
    <3>3. \A s \in r.streams : readers[s] = start
      BY <3>1
    <3> HIDE DEF readers
    <3> QED BY <3>2, <3>3
  <2> HIDE DEF got
  <2>5. ASSUME NEW s \in Streams, s \in ring.streams
        PROVE  /\ text'[s] \in Seq(Int)
               /\ from[s] \in 1 .. last + 1
               /\ ToSet(Bare(text'[s])) = (from[s] .. last) \ cut'
               /\ Ordered(Bare(text'[s]))
               /\ Breaks(text'[s], Borders(s)')
    <3> DEFINE u == Bare(text[s])
               v == Bare(got)
    <3>a. text[s] \in Seq(Int) /\ got \in Seq(Int) /\ Breaks(text[s], Borders(s))
      BY <2>2, <2>5 DEF ShownInv, Covers
    <3>b. /\ text[s] \o got \in Seq(Int) /\ Bare(text[s] \o got) = u \o v
          /\ \A A : Breaks(text[s], A) /\ Breaks(got, A) => Breaks(text[s] \o got, A)
      BY <3>a, BareJoined
    <3>c. Breaks(text[s] \o got, Borders(s)')
      <4>1. Breaks(text[s], Borders(s)') /\ Breaks(got, Borders(s)')
        BY <2>e, <2>f, <3>a, BreaksMore, Zenon
      <4> QED BY <3>b, <4>1, Zenon
    <3>1. /\ from[s] \in 1 .. written + 1 /\ u \in Seq(Int)
          /\ ToSet(u) = (from[s] .. written) \ cut
          /\ Ordered(u)
          /\ cut \subseteq 1 .. written - maxSize
      BY <2>5, <3>a, BareIs DEF ShownInv
    <3>2. v \in Seq(Int) /\ ToSet(v) = last - (kept - 1) .. last /\ Ordered(v)
      BY <2>2, <3>a, BareIs DEF Covers
    <3> HIDE DEF u, v
    <3>3. \A i \in DOMAIN u : \A b \in ToSet(v) : b < u[i] => b \in ToSet(u)
      <4> SUFFICES ASSUME NEW i \in DOMAIN u, NEW b \in ToSet(v), b < u[i]
                   PROVE  FALSE
        OBVIOUS
      <4>1. u[i] \in ToSet(u)
        BY DEF ToSet
      <4>2. u[i] \in from[s] .. written /\ b \in last - (kept - 1) .. last
        BY <3>1, <3>2, <4>1
      <4>3. kept <= n
        BY <1>1, <2>1, Sizes
      <4> QED BY <1>1, <2>1, <4>2, <4>3
    <3>4. /\ u \o v \in Seq(Int)
          /\ ToSet(u \o v) = ToSet(u) \cup ToSet(v)
          /\ Ordered(u \o v)
      BY <3>1, <3>2, <3>3, JoinOrdered
    <3>5. text'[s] = text[s] \o got
      <4>1. s \in r.streams /\ s \in Streams
        BY <1>4, <2>5
      <4> QED BY ONLY <2>4, <4>1
    <3>6. ((from[s] .. written) \ cut) \cup (last - (kept - 1) .. last) = (from[s] .. last) \ cut'
      <4>1. \A b : b \in cut' <=> b \in cut \/ b \in written + 1 .. written + n - maxSize
        BY ONLY <1>a
      <4>2. ASSUME NEW b \in Int
            PROVE  b \in ((from[s] .. written) \ cut) \cup (last - (kept - 1) .. last)
                   <=> b \in (from[s] .. last) \ cut'
        <5>1. b \in cut => b >= 1 /\ b <= written - maxSize
          BY <3>1
        <5>2. from[s] \in 1 .. written + 1
          BY <3>1
        <5>3. last = written + n /\ maxSize \in Nat
          BY Sizes
        <5> HIDE DEF last
        <5>4. (b \in from[s] .. written \/ b \in last - (kept - 1) .. last)
              <=> b \in from[s] .. last /\ b \notin written + 1 .. written + n - maxSize
          BY <1>b, <2>1, <5>2, <5>3
        <5>5. b \in cut => b \notin last - (kept - 1) .. last
          BY <1>b, <2>1, <5>1, <5>3
        <5> QED BY <4>1, <5>4, <5>5
      <4>3. \A b : b \in ((from[s] .. written) \ cut) \cup (last - (kept - 1) .. last) => b \in Int
        BY <1>b, <2>1, <3>1
      <4>4. \A b : b \in (from[s] .. last) \ cut' => b \in Int
        BY <1>b, <3>1
      <4> QED BY <4>2, <4>3, <4>4, Zenon
    <3>7. from[s] \in 1 .. last + 1
      BY <1>1, <3>1
    <3> QED BY <3>1, <3>2, <3>4, <3>5, <3>6, <3>7, <3>b, <3>c
  <2>6. text' \in [Streams -> Seq(Int)]
    <3>1. text \in [Streams -> Seq(Int)]
      BY DEF ShownInv
    <3>2. got \in Seq(Int)
      BY <2>2 DEF Covers
    <3>3. \A s \in Streams : (IF s \in r.streams THEN text[s] \o got ELSE text[s]) \in Seq(Int)
      BY <3>1, <3>2
    <3> QED BY <2>4, <3>3
  <2>7. from' \in [Streams -> Nat] /\ before' \in [Streams -> Nat]
    BY <1>1, <1>c DEF ShownInv
  <2>8. ring'.streams = ring.streams /\ ring.streams \subseteq Streams
    BY <1>4, <2>3 DEF RingInv, TypeInv, Rings
  <2>9. written' = last
    BY <1>1
  <2> HIDE DEF last
  <2>10. \A s \in ring.streams : /\ from'[s] \in 1 .. written' + 1
                                 /\ ToSet(Bare(text'[s])) = (from'[s] .. written') \ cut'
                                 /\ Ordered(Bare(text'[s]))
                                 /\ Breaks(text'[s], Borders(s)')
    BY <1>1, <2>5, <2>8, <2>9
  <2>11. atEnd' \subseteq Int /\ ring'.buffer[maxSize - 1] \in atEnd' /\ written' + 1 \notin Continues
    BY <1>1, <1>c, <2>3, <2>a DEF ShownInv
  <2> QED BY <1>2, <2>6, <2>7, <2>8, <2>10, <2>11 DEF ShownInv
<1> QED BY <1>1, <1>3, <1>4

LEMMA GetStreamShown ==
  ASSUME RingInv, ShownInv, GetStream
  PROVE  ShownInv'
<1> DEFINE s == ring.readerId
           got == ReadAll(ring, ring.tail, HighWaterMark)
           first == IF written < maxSize THEN 1 ELSE written - maxSize + 1
<1>1. /\ s < MaxStreams
      /\ ring' = [ring EXCEPT !.readers[s] = -1, !.streams = @ \union {s}, !.readerId = s + 1]
      /\ text' = [text EXCEPT ![s] = got] /\ from' = [from EXCEPT ![s] = first]
      /\ written' = written /\ cut' = cut /\ atEnd' = atEnd /\ before' = [before EXCEPT ![s] = written]
  BY DEF GetStream
<1>2. s \in Streams /\ ring \in Rings /\ written \in Nat
  BY <1>1, Sizes DEF RingInv, TypeInv, Rings, Streams
<1>3. ring'.streams = ring.streams \union {s} /\ ring'.buffer = ring.buffer
  BY <1>1, <1>2 DEF Rings
<1>4. first \in 1 .. written + 1 /\ first = written - Kept(written) + 1
  BY <1>2, Sizes DEF Kept
<1> DEFINE starts == {first - 1 + k * HighWaterMark : k \in Nat} \intersect (first - 1 .. written)
           borders == atEnd \union cut \union starts
           B == borders \union {written}
<1>a. /\ B \in SUBSET Int /\ borders \in SUBSET B /\ starts \in SUBSET B /\ written \in B
      /\ first - 1 \in starts
      /\ \A c \in B \ borders : c + 1 \notin Continues
  <2>1. atEnd \subseteq Int /\ cut \subseteq Int /\ written + 1 \notin Continues
    BY DEF ShownInv
  <2>2. starts \subseteq Int /\ written \in Int
    BY <1>2, <1>4
  <2>3. first - 1 \in starts
    <3>1. 0 \in Nat /\ first - 1 + 0 * HighWaterMark = first - 1 /\ first - 1 \in first - 1 .. written
      BY <1>2, <1>4, RingAssumption
    <3> HIDE DEF first
    <3> QED BY <3>1
  <2> HIDE DEF starts
  <2> QED BY <2>1, <2>2, <2>3
<1>b. \A c \in starts : c + HighWaterMark <= written => c + HighWaterMark \in starts
  <2> SUFFICES ASSUME NEW c \in starts, c + HighWaterMark <= written PROVE c + HighWaterMark \in starts
    OBVIOUS
  <2>1. PICK k \in Nat : c = first - 1 + k * HighWaterMark
    OBVIOUS
  <2>2. /\ HighWaterMark \in Nat /\ k * HighWaterMark \in Nat /\ k + 1 \in Nat
        /\ (k + 1) * HighWaterMark = k * HighWaterMark + HighWaterMark
    BY RingAssumption
  <2>3. first \in Int /\ c \in first - 1 .. written
    BY <1>4
  <2> HIDE DEF first
  <2>4. c + HighWaterMark = first - 1 + (k + 1) * HighWaterMark /\ c + HighWaterMark \in first - 1 .. written
    BY <1>2, <2>1, <2>2, <2>3
  <2> QED BY <2>2, <2>4
<1> HIDE DEF B, borders, starts
<1>5. Covers(got, first, written) /\ Breaks(got, borders)
  <2>1. CASE written = 0
    <3>1. got = << >>
      BY <2>1, Zenon DEF RingInv, BytesInv, ReadAll
    <3>2. first .. written = {}
      BY <1>4, <2>1, Sizes
    <3>3. first \in Int
      BY <1>4
    <3> HIDE DEF got, first
    <3> QED BY <1>2, <3>1, <3>2, <3>3, EmptyCovers DEF Breaks
  <2>2. CASE written # 0
    <3>1. ring.head \in Positions /\ HoldsBack(ring, Kept(written), written)
      BY <2>2 DEF RingInv, BytesInv
    <3>2. Kept(written) \in 1 .. maxSize /\ Kept(written) - 1 \in 0 .. Kept(written) - 1
      BY <1>2, <2>2, Sizes DEF Kept
    <3>3. HighWaterMark \in Nat \cup {-1} /\ HighWaterMark # 0
      BY RingAssumption
    <3>4. ring.tail = Back(ring.head, Kept(written) - 1)
      BY <3>1 DEF HoldsBack
    <3> DEFINE e == Kept(written) - 1
    <3>5. e \in 0 .. Kept(written) - 1
      BY <3>2
    <3>7. written - e = first
      BY <1>2, <1>4, <3>2
    <3>8. written - e - 1 \in starts
      BY <1>a, <3>7
    <3>9. ring.buffer[maxSize - 1] \in B
      BY <2>2 DEF ShownInv, B, borders
    <3> HIDE DEF e, first
    <3>6. LET all == ReadAll(ring, Back(ring.head, e), HighWaterMark)
          IN Covers(all, written - e, written) /\ Breaks(all, B)
      BY <1>2, <1>a, <1>b, <3>1, <3>2, <3>3, <3>5, <3>8, <3>9, ReadCovers
    <3>a. Covers(got, first, written) /\ Breaks(got, B)
      BY <3>4, <3>6, <3>7 DEF e
    <3>b. got \in Seq(Int)
      BY <3>a DEF Covers
    <3> HIDE DEF got
    <3> QED BY <1>a, <3>a, <3>b, BreaksLess
  <2> QED BY <2>1, <2>2
<1> HIDE DEF s, got, first
<1>6. (first .. written) \ cut = first .. written
  <2>1. cut \subseteq 1 .. written - maxSize
    BY DEF ShownInv
  <2>2. \A b \in cut : b \notin first .. written
    BY <1>2, <1>4, <2>1, Sizes DEF Kept
  <2> QED BY <2>2
<1>7. /\ text \in [Streams -> Seq(Int)] /\ from \in [Streams -> Nat] /\ before \in [Streams -> Nat]
      /\ cut \subseteq 1 .. written - maxSize
  BY DEF ShownInv
<1>8. got \in Seq(Int) /\ first \in Nat
  BY <1>4, <1>5 DEF Covers
<1>9. /\ text' \in [Streams -> Seq(Int)] /\ from' \in [Streams -> Nat] /\ before' \in [Streams -> Nat]
      /\ cut' \subseteq 1 .. written' - maxSize
  BY <1>1, <1>2, <1>7, <1>8
<1>c. ASSUME NEW t \in Streams, t = s PROVE borders \subseteq Borders(t)'
  <2>1. from'[t] = first /\ before'[t] = written
    BY <1>1, <1>2, <1>7, <1>c
  <2>2. starts \subseteq {first - 1 + k * HighWaterMark : k \in 0 .. MaxBytes}
    <3> SUFFICES ASSUME NEW c \in starts PROVE c \in {first - 1 + k * HighWaterMark : k \in 0 .. MaxBytes}
      OBVIOUS
    <3>1. PICK k \in Nat : c = first - 1 + k * HighWaterMark
      BY DEF starts
    <3>2. c \in first - 1 .. written /\ written <= MaxBytes /\ MaxBytes \in Nat
      BY Sizes DEF starts, RingInv, TypeInv
    <3>3. k * HighWaterMark \in Nat /\ k <= k * HighWaterMark
      BY RingAssumption
    <3>4. k \in 0 .. MaxBytes
      BY <1>2, <1>4, <3>1, <3>2, <3>3
    <3> QED BY <3>1, <3>4
  <2>3. starts \subseteq first - 1 .. written
    BY DEF starts
  <2>4. Borders(t)' = atEnd \union cut
          \union ({first - 1 + k * HighWaterMark : k \in 0 .. MaxBytes} \intersect (first - 1 .. written))
    BY <1>1, <2>1 DEF Borders
  <2> QED BY <2>2, <2>3, <2>4, Zenon DEF borders
<1>10. ASSUME NEW t \in ring'.streams
       PROVE  /\ from'[t] \in 1 .. written' + 1
              /\ ToSet(Bare(text'[t])) = (from'[t] .. written') \ cut'
              /\ Ordered(Bare(text'[t]))
              /\ Breaks(text'[t], Borders(t)')
  <2>1. CASE t = s
    <3>1. text'[t] = got /\ from'[t] = first
      BY <1>1, <1>2, <1>7, <2>1
    <3>2. Breaks(got, Borders(t)')
      BY <1>2, <1>5, <1>c, <2>1, BreaksMore
    <3> QED BY <1>1, <1>4, <1>5, <1>6, <3>1, <3>2 DEF Covers
  <2>2. CASE t # s
    <3>1. t \in ring.streams /\ t \in Streams
      BY <1>2, <1>3, <2>2 DEF Rings
    <3>2. text'[t] = text[t] /\ from'[t] = from[t] /\ before'[t] = before[t]
      BY <1>1, <1>7, <2>2, <3>1
    <3>3. Borders(t)' = Borders(t)
      BY <1>1, <3>2 DEF Borders
    <3> QED BY <1>1, <3>1, <3>2, <3>3 DEF ShownInv
  <2> QED BY <2>1, <2>2
<1>11. atEnd' \subseteq Int /\ (written' # 0 => ring'.buffer[maxSize - 1] \in atEnd') /\ written' + 1 \notin Continues
  BY <1>1, <1>3 DEF ShownInv
<1> QED BY <1>9, <1>10, <1>11 DEF ShownInv

LEMMA DisposeShown ==
  ASSUME RingInv, ShownInv, NEW s \in Streams, DisposeStream(s)
  PROVE  ShownInv'
<1>1. /\ ring' = [ring EXCEPT !.readers[s] = -1, !.streams = @ \ {s}]
      /\ text' = [text EXCEPT ![s] = << >>]
      /\ written' = written /\ cut' = cut /\ from' = from /\ ring \in Rings
      /\ atEnd' = atEnd /\ before' = before
  BY DEF DisposeStream, RingInv, TypeInv
<1>2. ring'.streams = ring.streams \ {s} /\ ring.streams \subseteq Streams /\ ring'.buffer = ring.buffer
  BY <1>1 DEF Rings
<1>3. text \in [Streams -> Seq(Int)] /\ text' \in [Streams -> Seq(Int)]
  BY <1>1 DEF ShownInv
<1>4. \A t \in ring'.streams : t \in ring.streams /\ text'[t] = text[t]
  BY <1>1, <1>2, <1>3
<1>5. \A t : Borders(t)' = Borders(t)
  BY <1>1 DEF Borders
<1> QED BY <1>1, <1>2, <1>3, <1>4, <1>5 DEF ShownInv

LEMMA NextShown == RingInv /\ ShownInv /\ [RingNext]_ringVars => ShownInv'
<1> SUFFICES ASSUME RingInv, ShownInv, [RingNext]_ringVars PROVE ShownInv'
  OBVIOUS
<1>1. CASE UNCHANGED ringVars
  <2>1. \A s : Borders(s)' = Borders(s)
    BY <1>1 DEF ringVars, Borders
  <2> QED BY <1>1, <2>1 DEF ringVars, ShownInv
<1> QED
  BY <1>1, EnqShown, GetStreamShown, DisposeShown DEF RingNext

LEMMA ShownInductive == RingSpec => []ShownInv
<1>1. RingSpec => []RingInv
  BY Inductive
<1> QED BY <1>1, InitShown, NextShown, PTL DEF RingSpec

\* Two bytes that are in a text in order: the first place of the smaller one is before that of the other.
LEMMA FirstPlace ==
  ASSUME NEW t \in Seq(Int), NEW b \in ToSet(t)
  PROVE  \E i \in DOMAIN t : t[i] = b /\ \A j \in 1 .. i - 1 : t[j] # b
<1> DEFINE Places == {i \in DOMAIN t : t[i] = b}
<1>1. DOMAIN t = 1 .. Len(t) /\ Len(t) \in Nat
  OBVIOUS
<1>2. Places \in SUBSET Nat /\ Places # {}
  BY <1>1 DEF ToSet
<1>3. PICK i \in Places : \A k \in Places : i <= k
  <2> HIDE DEF Places
  <2> QED BY <1>2, Least
<1>4. \A j \in 1 .. i - 1 : t[j] # b
  <2> SUFFICES ASSUME NEW j \in 1 .. i - 1, t[j] = b PROVE FALSE
    OBVIOUS
  <2>1. j \in DOMAIN t
    BY <1>1, <1>3
  <2>2. i <= j
    BY <1>3, <2>1
  <2>3. i \in Nat
    BY <1>1
  <2> QED BY <2>2, <2>3
<1> QED BY <1>4

LEMMA NothingMissed == RingInv /\ ShownInv => StreamsMissNothing
<1> SUFFICES ASSUME RingInv, ShownInv, NEW s \in ring.streams
             PROVE  LET shows(b, i) == text[s][i] \in {b, -b}
                        first(b) == CHOOSE i \in DOMAIN text[s] : shows(b, i) /\ \A j \in 1 .. i - 1 : ~shows(b, j)
                        shown == (from[s] .. written) \ cut
                    IN /\ \A i \in DOMAIN text[s] : \E b \in shown : shows(b, i)
                       /\ \A b \in shown : \E i \in DOMAIN text[s] : shows(b, i)
                       /\ \A b, c \in shown : b < c => first(b) < first(c)
                       /\ \A i \in DOMAIN text[s] : text[s][i] < 0 => \E c \in Borders(s) : CutAt(-text[s][i], c)
  BY DEF StreamsMissNothing
<1> DEFINE t == text[s]
           u == Bare(t)
           shows(b, i) == t[i] \in {b, -b}
           first(b) == CHOOSE i \in DOMAIN t : shows(b, i) /\ \A j \in 1 .. i - 1 : ~shows(b, j)
           shown == (from[s] .. written) \ cut
<1>0. s \in Streams
  BY DEF RingInv, TypeInv, Rings
<1>1. t \in Seq(Int) /\ ToSet(u) = shown /\ Ordered(u) /\ Breaks(t, Borders(s))
  BY <1>0 DEF ShownInv
<1>4. shown \subseteq Nat \ {0}
  <2>1. from[s] \in 1 .. written + 1 /\ written \in Nat
    BY <1>0, Sizes DEF ShownInv, RingInv, TypeInv
  <2> QED BY <2>1
<1> HIDE DEF t, shown
<1>5. /\ u \in Seq(Int) /\ DOMAIN u = 1 .. Len(t) /\ DOMAIN t = 1 .. Len(t) /\ Len(t) \in Nat
      /\ \A i \in 1 .. Len(t) : u[i] = IF t[i] < 0 THEN -t[i] ELSE t[i]
  BY <1>1, BareIs
<1>6. \A i \in DOMAIN t : \A b \in shown : shows(b, i) <=> u[i] = b
  <2> SUFFICES ASSUME NEW i \in DOMAIN t, NEW b \in shown PROVE shows(b, i) <=> u[i] = b
    OBVIOUS
  <2>1. b \in Nat \ {0} /\ t[i] \in Int /\ u[i] = IF t[i] < 0 THEN -t[i] ELSE t[i]
    BY <1>1, <1>4, <1>5
  <2> HIDE DEF u
  <2> QED BY <2>1
<1> HIDE DEF u, shows
<1>7. \A i \in DOMAIN t : \E b \in shown : shows(b, i)
  <2> SUFFICES ASSUME NEW i \in DOMAIN t PROVE \E b \in shown : shows(b, i)
    OBVIOUS
  <2>1. u[i] \in ToSet(u)
    BY <1>5 DEF ToSet
  <2> QED BY <1>1, <1>6, <2>1
<1>8. \A b \in shown : \E i \in DOMAIN t : shows(b, i)
  <2> SUFFICES ASSUME NEW b \in shown PROVE \E i \in DOMAIN t : shows(b, i)
    OBVIOUS
  <2>1. PICK i \in DOMAIN u : u[i] = b
    BY <1>1 DEF ToSet
  <2> QED BY <1>5, <1>6, <2>1
<1>2. \A b \in shown : first(b) \in DOMAIN t /\ u[first(b)] = b /\ \A j \in 1 .. first(b) - 1 : u[j] # b
  <2> SUFFICES ASSUME NEW b \in shown
               PROVE  first(b) \in DOMAIN t /\ u[first(b)] = b /\ \A j \in 1 .. first(b) - 1 : u[j] # b
    OBVIOUS
  <2>1. PICK i \in DOMAIN u : u[i] = b /\ \A j \in 1 .. i - 1 : u[j] # b
    BY <1>1, <1>5, FirstPlace
  <2>2. \A i1 \in DOMAIN t : \A j \in 1 .. i1 - 1 : j \in DOMAIN t
    BY <1>5
  <2>3. i \in DOMAIN t /\ shows(b, i) /\ \A j \in 1 .. i - 1 : ~shows(b, j)
    BY <1>5, <1>6, <2>1, <2>2
  <2>4. first(b) \in DOMAIN t /\ shows(b, first(b)) /\ \A j \in 1 .. first(b) - 1 : ~shows(b, j)
    BY <2>3
  <2> HIDE DEF first
  <2> QED BY <1>6, <2>2, <2>4
<1> HIDE DEF first
<1>3. ASSUME NEW b \in shown, NEW c \in shown, b < c
      PROVE  first(b) < first(c)
  <2>2. first(b) \in Nat /\ first(c) \in Nat /\ first(b) \in 1 .. Len(t) /\ first(c) \in 1 .. Len(t)
    BY <1>2, <1>5
  <2>3. u[first(c)] = c /\ b \in ToSet(u) /\ first(c) \in DOMAIN u
    BY <1>1, <1>2, <1>5
  <2>4. PICK j \in 1 .. first(c) - 1 : u[j] = b
    BY <1>1, <1>3, <2>3 DEF Ordered
  <2>5. j \notin 1 .. first(b) - 1
    BY <1>2, <2>4
  <2> QED BY <2>2, <2>4, <2>5
<1>9. \A i \in DOMAIN t : t[i] < 0 => \E c \in Borders(s) : CutAt(-t[i], c)
  BY <1>1 DEF Breaks
<1> QED BY <1>3, <1>7, <1>8, <1>9, Zenon DEF t, shown, first, shows

-----------------------------------------------------------------------------

\* The ends of the ring stay in it and no stream is left behind between two callbacks
\* (multi-ring-buffer.ts: enq, getStream and closeStream).
THEOREM RingTypeCorrect == RingSpec => []RingTypeOK
BY Inductive, Typed, PTL

\* Whatever the sizes of the chunks and wherever they wrap, the ring holds the last bytes of the
\* output in their order (multi-ring-buffer.ts: enq, inc, incTail).
THEOREM LastBytesHeld == RingSpec => []RingHoldsLast
BY Inductive, Holds, PTL

\* A terminal that is attached, again or for the first time, gets the output that was kept and all
\* that came after, in order, whatever the sizes, and only the characters that go over the end of the
\* ring, over what was dropped of a chunk, or over what a stream asks for at once are replaced
\* (multi-ring-buffer.ts: deq and onData of a stream, deq and enq of the ring).
THEOREM StreamsAreComplete == RingSpec => []StreamsMissNothing
<1>1. RingSpec => []RingInv /\ []ShownInv
  BY Inductive, ShownInductive
<1> QED BY <1>1, NothingMissed, PTL

----------------------------------------------------------------------------
(* Sequences by what is in them.                                           *)

LEMMA Members ==
    ASSUME NEW S, NEW s \in Seq(S)
    PROVE  /\ ToSet(s) \subseteq S /\ DOMAIN s = 1 .. Len(s) /\ Len(s) \in Nat
           /\ \A i \in DOMAIN s : s[i] \in ToSet(s)
           /\ \A m \in ToSet(s) : \E i \in DOMAIN s : s[i] = m
BY DEF ToSet

LEMMA Empty == ASSUME NEW S PROVE << >> \in Seq(S) /\ ToSet(<< >>) = {} /\ DOMAIN << >> = {}
BY DEF ToSet

LEMMA Joined ==
    ASSUME NEW S, NEW s \in Seq(S), NEW t \in Seq(S)
    PROVE  /\ s \o t \in Seq(S) /\ DOMAIN (s \o t) = 1 .. Len(s) + Len(t)
           /\ \A i \in 1 .. Len(s) : (s \o t)[i] = s[i]
           /\ \A i \in 1 .. Len(t) : (s \o t)[Len(s) + i] = t[i]
           /\ ToSet(s \o t) = ToSet(s) \union ToSet(t)
<1>1. Len(s) \in Nat /\ Len(t) \in Nat /\ DOMAIN s = 1 .. Len(s) /\ DOMAIN t = 1 .. Len(t)
    OBVIOUS
<1>2. s \o t \in Seq(S) /\ Len(s \o t) = Len(s) + Len(t) /\ DOMAIN (s \o t) = 1 .. Len(s) + Len(t)
    OBVIOUS
<1>3. \A i \in 1 .. Len(s) + Len(t) : (s \o t)[i] = IF i <= Len(s) THEN s[i] ELSE t[i - Len(s)]
    OBVIOUS
<1>4. \A i \in 1 .. Len(s) : (s \o t)[i] = s[i]
    BY <1>1, <1>3
<1>5. \A i \in 1 .. Len(t) : Len(s) + i \in 1 .. Len(s) + Len(t) /\ (s \o t)[Len(s) + i] = t[i]
    BY <1>1, <1>3
<1>6. ToSet(s \o t) \subseteq ToSet(s) \union ToSet(t)
    <2>1. SUFFICES ASSUME NEW i \in 1 .. Len(s) + Len(t) PROVE (s \o t)[i] \in ToSet(s) \union ToSet(t)
        BY <1>2 DEF ToSet
    <2>2. CASE i <= Len(s)
        BY <1>1, <1>3, <2>2 DEF ToSet
    <2>3. CASE ~(i <= Len(s))
        <3>1. i - Len(s) \in 1 .. Len(t)
            BY <1>1, <2>3
        <3> QED BY <1>1, <1>3, <2>3, <3>1 DEF ToSet
    <2> QED BY <2>2, <2>3
<1>7. ToSet(s) \subseteq ToSet(s \o t)
    BY <1>1, <1>2, <1>4 DEF ToSet
<1>8. ToSet(t) \subseteq ToSet(s \o t)
    BY <1>1, <1>2, <1>5 DEF ToSet
<1> QED BY <1>2, <1>4, <1>5, <1>6, <1>7, <1>8

LEMMA One == ASSUME NEW S, NEW m \in S PROVE <<m>> \in Seq(S) /\ ToSet(<<m>>) = {m} /\ Len(<<m>>) = 1 /\ <<m>>[1] = m
<1>1. <<m>> \in Seq(S) /\ DOMAIN <<m>> = {1} /\ <<m>>[1] = m
    OBVIOUS
<1> QED BY <1>1 DEF ToSet

LEMMA Appended ==
    ASSUME NEW S, NEW s \in Seq(S), NEW m \in S
    PROVE  /\ Append(s, m) \in Seq(S) /\ DOMAIN Append(s, m) = 1 .. Len(s) + 1
           /\ \A i \in 1 .. Len(s) : Append(s, m)[i] = s[i]
           /\ Append(s, m)[Len(s) + 1] = m
           /\ ToSet(Append(s, m)) = ToSet(s) \union {m}
<1>1. Append(s, m) = s \o <<m>>
    OBVIOUS
<1>2. <<m>> \in Seq(S) /\ Len(<<m>>) = 1 /\ <<m>>[1] = m /\ ToSet(<<m>>) = {m}
    BY One
<1>3. /\ s \o <<m>> \in Seq(S) /\ DOMAIN (s \o <<m>>) = 1 .. Len(s) + Len(<<m>>)
      /\ \A i \in 1 .. Len(s) : (s \o <<m>>)[i] = s[i]
      /\ \A i \in 1 .. Len(<<m>>) : (s \o <<m>>)[Len(s) + i] = <<m>>[i]
      /\ ToSet(s \o <<m>>) = ToSet(s) \union ToSet(<<m>>)
    BY <1>2, Joined
<1>4. (s \o <<m>>)[Len(s) + 1] = m
    BY <1>2, <1>3
<1> QED BY <1>1, <1>2, <1>3, <1>4

LEMMA Taken ==
    ASSUME NEW S, NEW s \in Seq(S), s # << >>
    PROVE  /\ Head(s) \in S /\ Tail(s) \in Seq(S) /\ Head(s) = s[1] /\ 1 \in DOMAIN s
           /\ DOMAIN Tail(s) = 1 .. Len(s) - 1 /\ Len(s) \in Nat \ {0}
           /\ \A i \in 1 .. Len(s) - 1 : Tail(s)[i] = s[i + 1]
           /\ ToSet(s) = {Head(s)} \union ToSet(Tail(s))
<1>1. DOMAIN s = 1 .. Len(s) /\ Len(s) \in Nat \ {0} /\ Head(s) = s[1] /\ Head(s) \in S
    OBVIOUS
<1>2. /\ Tail(s) \in Seq(S) /\ DOMAIN Tail(s) = 1 .. Len(s) - 1
      /\ \A i \in 1 .. Len(s) - 1 : Tail(s)[i] = s[i + 1]
    BY <1>1
<1>3. ToSet(Tail(s)) \subseteq ToSet(s)
    <2>1. SUFFICES ASSUME NEW i \in 1 .. Len(s) - 1 PROVE Tail(s)[i] \in ToSet(s)
        BY <1>2 DEF ToSet
    <2>2. i + 1 \in DOMAIN s
        BY <1>1
    <2> QED BY <1>2, <2>2 DEF ToSet
<1>4. Head(s) \in ToSet(s)
    BY <1>1 DEF ToSet
<1>5. ASSUME NEW m \in ToSet(s), m # Head(s) PROVE m \in ToSet(Tail(s))
    <2>1. PICK i \in 1 .. Len(s) : m = s[i]
        BY <1>1 DEF ToSet
    <2>2. i - 1 \in 1 .. Len(s) - 1 /\ Tail(s)[i - 1] = m
        BY <1>1, <1>2, <1>5, <2>1
    <2> QED BY <1>2, <2>2 DEF ToSet
<1> QED BY <1>1, <1>2, <1>3, <1>4, <1>5

\* An order of a finite set has its members, each once.
LEMMA Orders ==
    ASSUME NEW S, IsFiniteSet(S), NEW order \in SetToSeqs(S)
    PROVE  /\ order \in Seq(S) /\ ToSet(order) = S
           /\ \A i, j \in DOMAIN order : order[i] = order[j] => i = j
<1> DEFINE D == 1 .. Cardinality(S)
<1>1. Cardinality(S) \in Nat
    BY FS_CardinalityType
<1>2. order \in [D -> S] /\ \A i, j \in D : i # j => order[i] # order[j]
    BY DEF SetToSeqs
<1>3. order \in Injection(D, S)
    BY <1>2, Fun_IsInj
<1>4. IsFiniteSet(D) /\ Cardinality(D) = Cardinality(S)
    BY <1>1, FS_Interval
<1>5. order \in Surjection(D, S)
    BY <1>3, <1>4, FS_Injection
<1>6. \A m \in S : \E i \in D : order[i] = m
    <2> HIDE DEF D
    <2> QED BY <1>5, Fun_SurjectionProperties, Zenon
<1>7. PICK n : n = Cardinality(S)
    OBVIOUS
<1>8. order \in Seq(S)
    <2>1. order \in [1 .. n -> S] /\ n \in Nat
        BY <1>1, <1>2, <1>7
    <2>2. order = [i \in 1 .. n |-> order[i]] /\ \A i \in 1 .. n : order[i] \in S
        BY <2>1
    <2> QED BY ONLY <2>1, <2>2
<1> QED BY <1>2, <1>6, <1>8 DEF ToSet

----------------------------------------------------------------------------
(* The inductive invariant.                                                *)

First == CHOOSE w \in Widgets : TRUE

WidgetType ==
    [status : {"none", "open", "disposed"}, id : Int, call : {"none", "create", "attach"},
     sent : BOOLEAN, reopen : BOOLEAN, channel : {"none", "opening", "open"},
     title : {"shell", "terminated"}]
Messages ==
    [kind : {"shell", "ready", "create", "attach", "created", "attached", "close", "channel",
             "channelReady", "exit"},
     widget : Widgets \union {First}, id : Int]

Shapes ==
    /\ widgets \in [Widgets -> WidgetType]
    /\ up \in [Sockets -> Seq(Messages)] /\ down \in [Sockets -> Seq(Messages)]
    /\ closes \in Seq(Messages) /\ \A m \in ToSet(closes) : m.kind = "close"
    /\ socket \in [number : Nat, open : BOOLEAN, connected : BOOLEAN]
    /\ socket.open => socket.number \in Sockets /\ socket.number \in served
    /\ socket.connected => socket.open /\ closes = << >>
    /\ \A s \in Sockets :
        /\ s > socket.number => up[s] = << >> /\ s \notin served
        /\ s # socket.number \/ ~socket.open => down[s] = << >>
    /\ nextId \in Nat /\ processes \subseteq 0 .. nextId - 1

\* Widget w has the id of a terminal, or is about to get it.
Names(w, id) ==
    \/ widgets[w].id = id
    \/ \E s \in Sockets : \E m \in ToSet(up[s]) : m.kind = "attach" /\ m.widget = w /\ m.id = id
    \/ \E s \in Sockets : \E m \in ToSet(down[s]) :
          m.kind \in {"created", "attached"} /\ m.widget = w /\ m.id = id

\* The id of a terminal has been given by the process manager, to one widget.
Owned ==
    \A w \in Widgets, id \in Int : Names(w, id) /\ id # None =>
        id \in 0 .. nextId - 1 /\ \A v \in Widgets : Names(v, id) => v = w

\* A request and its answer are one talk, with one widget; so is the connection of the shell proxy.
Greets(m) == m.kind \in {"shell", "ready"}
Asks(m) == m.kind \in {"create", "attach"}
Answers(m) == m.kind \in {"created", "attached"}
Talks(m) == Greets(m) \/ Asks(m) \/ Answers(m)
SameTalk(m, o) == Talks(m) /\ Talks(o) /\ m.widget = o.widget /\ (Greets(m) <=> Greets(o))

\* What a message says of its widget, as long as it is under way on the socket of the page.
Means(m) ==
    LET widget == widgets[m.widget]
    IN /\ Greets(m) => ~socket.connected /\ m.widget = First
       /\ Asks(m) \/ Answers(m) => m.widget \in Widgets /\ widget.sent
       /\ m.kind \in {"create", "created"} => widget.call = "create"
       /\ m.kind \in {"attach", "attached"} => widget.call = "attach"
       /\ m.kind = "attach" => m.id = widget.id
       /\ m.kind = "attached" => IF m.id = None THEN widget.id \notin processes ELSE m.id = widget.id

Once(messages) ==
    \A i, j \in DOMAIN messages : SameTalk(messages[i], messages[j]) => i = j

\* One talk at a time with each widget.
Conversations ==
    socket.open =>
        /\ \A m \in ToSet(up[socket.number]) \union ToSet(down[socket.number]) : Means(m)
        /\ Once(up[socket.number]) /\ Once(down[socket.number])
        /\ \A m \in ToSet(up[socket.number]), o \in ToSet(down[socket.number]) : ~SameTalk(m, o)

\* A start that has been sent waits for something that is under way; a widget creates a terminal
\* only when it has none that runs; and one with a terminal starts again when it can.
Starts ==
    \A w \in Widgets :
        /\ widgets[w].sent => socket.connected /\ widgets[w].call # "none"
        /\ widgets[w].status = "none" => widgets[w].call = "none" /\ ~widgets[w].reopen
        /\ widgets[w].call = "create" => widgets[w].id \notin processes
        /\ widgets[w].status = "open" /\ widgets[w].id # None /\ ~socket.connected
              => widgets[w].reopen \/ widgets[w].call # "none"
        /\ widgets[w].call # "none" /\ socket.connected =>
              /\ widgets[w].sent
              /\ \E m \in ToSet(up[socket.number]) \union ToSet(down[socket.number]) :
                    (Asks(m) \/ Answers(m)) /\ m.widget = w

Told(p, messages, i) == \E j \in DOMAIN messages : j > i /\ messages[j].kind = "exit" /\ messages[j].id = p

\* The end of a process that a widget has, or is about to have, is told after it gets it.
ExitsTold ==
    socket.connected /\ client = socket.number =>
        /\ \A w \in Widgets :
              widgets[w].status = "open" /\ widgets[w].id # None /\ widgets[w].id \notin processes
                  => \/ widgets[w].title = "terminated" \/ widgets[w].call # "none"
                     \/ Told(widgets[w].id, down[socket.number], 0)
        /\ \A i \in DOMAIN down[socket.number] :
              LET m == down[socket.number][i]
              IN Answers(m) /\ m.id # None /\ m.id \notin processes => Told(m.id, down[socket.number], i)

IInv == Shapes /\ Owned /\ Conversations /\ Starts /\ ExitsTold /\ OrphansExplained

----------------------------------------------------------------------------
(* Talks in a queue.                                                       *)

LEMMA OnceTaken ==
    ASSUME NEW s \in Seq(Messages), s # << >>, Once(s)
    PROVE  Once(Tail(s)) /\ \A m \in ToSet(Tail(s)) : ~SameTalk(Head(s), m)
<1>1. /\ Head(s) = s[1] /\ 1 \in DOMAIN s /\ DOMAIN Tail(s) = 1 .. Len(s) - 1 /\ Len(s) \in Nat \ {0}
      /\ Tail(s) \in Seq(Messages) /\ DOMAIN s = 1 .. Len(s)
      /\ \A i \in 1 .. Len(s) - 1 : Tail(s)[i] = s[i + 1]
    BY Taken, Members
<1>2. \A i \in 1 .. Len(s) - 1 : i + 1 \in DOMAIN s /\ i + 1 # 1
    BY <1>1
<1>3. Once(Tail(s))
    <2>1. SUFFICES ASSUME NEW i \in 1 .. Len(s) - 1, NEW j \in 1 .. Len(s) - 1, SameTalk(Tail(s)[i], Tail(s)[j])
                   PROVE  i = j
        BY <1>1 DEF Once
    <2>2. i + 1 = j + 1
        BY <1>1, <1>2, <2>1 DEF Once
    <2> QED BY <2>2
<1>4. ASSUME NEW m \in ToSet(Tail(s)) PROVE ~SameTalk(Head(s), m)
    <2>1. PICK i \in 1 .. Len(s) - 1 : m = Tail(s)[i]
        BY <1>1, <1>4 DEF ToSet
    <2>2. i + 1 \in DOMAIN s /\ i + 1 # 1 /\ m = s[i + 1]
        BY <1>1, <1>2, <2>1
    <2> QED BY <1>1, <2>2 DEF Once
<1> QED BY <1>3, <1>4

LEMMA OnceJoined ==
    ASSUME NEW s \in Seq(Messages), NEW t \in Seq(Messages), Once(s), Once(t),
           \A m \in ToSet(s), o \in ToSet(t) : ~SameTalk(m, o)
    PROVE  Once(s \o t)
<1>1. /\ DOMAIN (s \o t) = 1 .. Len(s) + Len(t) /\ Len(s) \in Nat /\ Len(t) \in Nat
      /\ \A i \in 1 .. Len(s) : (s \o t)[i] = s[i] /\ s[i] \in ToSet(s)
      /\ \A i \in 1 .. Len(t) : (s \o t)[Len(s) + i] = t[i] /\ t[i] \in ToSet(t)
      /\ DOMAIN s = 1 .. Len(s) /\ DOMAIN t = 1 .. Len(t)
    BY Joined, Members
<1>2. SUFFICES ASSUME NEW i \in 1 .. Len(s) + Len(t), NEW j \in 1 .. Len(s) + Len(t), i < j
               PROVE  ~SameTalk((s \o t)[i], (s \o t)[j]) /\ ~SameTalk((s \o t)[j], (s \o t)[i])
    BY <1>1 DEF Once
<1>3. \A m, o : SameTalk(m, o) => SameTalk(o, m)
    BY DEF SameTalk
<1>4. CASE j <= Len(s)
    <2>1. i \in 1 .. Len(s) /\ j \in 1 .. Len(s) /\ i # j
        BY <1>1, <1>2, <1>4
    <2> QED BY <1>1, <2>1 DEF Once
<1>5. CASE i > Len(s)
    <2>1. PICK k \in 1 .. Len(t) : i = Len(s) + k
        <3>1. i - Len(s) \in 1 .. Len(t) /\ i = Len(s) + (i - Len(s))
            BY <1>1, <1>5
        <3> QED BY <3>1
    <2>2. PICK l \in 1 .. Len(t) : j = Len(s) + l
        <3>1. j - Len(s) \in 1 .. Len(t) /\ j = Len(s) + (j - Len(s))
            BY <1>1, <1>2, <1>5
        <3> QED BY <3>1
    <2>3. k # l
        BY <1>2, <2>1, <2>2
    <2> QED BY <1>1, <2>1, <2>2, <2>3 DEF Once
<1>6. CASE i <= Len(s) /\ j > Len(s)
    <2>1. PICK l \in 1 .. Len(t) : j = Len(s) + l
        <3>1. j - Len(s) \in 1 .. Len(t) /\ j = Len(s) + (j - Len(s))
            BY <1>1, <1>2, <1>6
        <3> QED BY <3>1
    <2>2. i \in 1 .. Len(s)
        BY <1>1, <1>6
    <2> QED BY <1>1, <1>3, <2>1, <2>2
<1> QED BY <1>1, <1>2, <1>4, <1>5, <1>6

LEMMA OnceAppended ==
    ASSUME NEW s \in Seq(Messages), NEW o \in Messages, Once(s), \A m \in ToSet(s) : ~SameTalk(m, o)
    PROVE  Once(Append(s, o))
<1>1. Append(s, o) = s \o <<o>>
    OBVIOUS
<1>2. <<o>> \in Seq(Messages) /\ ToSet(<<o>>) = {o}
    BY One
<1>3. Once(<<o>>)
    BY DEF Once
<1> QED BY <1>1, <1>2, <1>3, OnceJoined

LEMMA OnceQuiet ==
    ASSUME NEW s \in Seq(Messages), \A m \in ToSet(s) : ~Talks(m)
    PROVE  Once(s) /\ \A m \in ToSet(s) : \A o : ~SameTalk(m, o) /\ ~SameTalk(o, m)
<1>1. \A i \in DOMAIN s : ~Talks(s[i])
    BY Members
<1> QED BY <1>1 DEF Once, SameTalk

LEMMA ToldAppended ==
    ASSUME NEW s \in Seq(Messages), NEW m \in Messages, NEW p, NEW i \in Nat
    PROVE  /\ Told(p, s, i) => Told(p, Append(s, m), i)
           /\ m.kind = "exit" /\ m.id = p /\ i <= Len(s) => Told(p, Append(s, m), i)
<1>1. /\ DOMAIN Append(s, m) = 1 .. Len(s) + 1 /\ DOMAIN s = 1 .. Len(s) /\ Len(s) \in Nat
      /\ \A j \in 1 .. Len(s) : Append(s, m)[j] = s[j]
      /\ Append(s, m)[Len(s) + 1] = m
    BY Appended, Members
<1>2. Told(p, s, i) => Told(p, Append(s, m), i)
    BY <1>1 DEF Told
<1>3. ASSUME m.kind = "exit", m.id = p, i <= Len(s) PROVE Told(p, Append(s, m), i)
    <2>1. Len(s) + 1 \in DOMAIN Append(s, m) /\ Len(s) + 1 > i
        BY <1>1, <1>3
    <2> QED BY <1>1, <1>3, <2>1 DEF Told
<1> QED BY <1>2, <1>3

LEMMA ToldTaken ==
    ASSUME NEW s \in Seq(Messages), s # << >>, NEW p, NEW i \in Nat
    PROVE  /\ Told(p, s, i + 1) => Told(p, Tail(s), i)
           /\ Told(p, s, 0) => (Head(s).kind = "exit" /\ Head(s).id = p) \/ Told(p, Tail(s), 0)
<1>1. /\ Head(s) = s[1] /\ DOMAIN Tail(s) = 1 .. Len(s) - 1 /\ Len(s) \in Nat \ {0}
      /\ DOMAIN s = 1 .. Len(s)
      /\ \A j \in 1 .. Len(s) - 1 : Tail(s)[j] = s[j + 1]
    BY Taken, Members
<1>2. ASSUME NEW k \in Nat, NEW j \in 1 .. Len(s), j > k + 1, s[j].kind = "exit", s[j].id = p
      PROVE  Told(p, Tail(s), k)
    <2>1. j - 1 \in 1 .. Len(s) - 1 /\ j - 1 > k /\ Tail(s)[j - 1] = s[j]
        BY <1>1, <1>2
    <2> QED BY <1>1, <1>2, <2>1 DEF Told
<1>3. Told(p, s, i + 1) => Told(p, Tail(s), i)
    BY <1>1, <1>2 DEF Told
<1>4. ASSUME Told(p, s, 0), ~(Head(s).kind = "exit" /\ Head(s).id = p) PROVE Told(p, Tail(s), 0)
    <2>1. PICK j \in 1 .. Len(s) : s[j].kind = "exit" /\ s[j].id = p
        BY <1>1, <1>4 DEF Told
    <2>2. j # 1
        BY <1>1, <1>4, <2>1
    <2>3. j > 0 + 1 /\ 0 \in Nat
        BY <1>1, <2>1, <2>2
    <2> QED BY <1>2, <2>1, <2>3
<1> QED BY <1>3, <1>4

\* The requests of some widgets, in any order: one of every start that has not been sent.
LEMMA Requested ==
    ASSUME NEW ws \in [Widgets -> WidgetType], NEW order \in SetToSeqs(Requests(ws))
    PROVE  /\ order \in Seq(Messages) /\ Once(order)
           /\ \A m \in ToSet(order) :
                /\ m \in Messages /\ Asks(m) /\ m.widget \in Widgets /\ ~ws[m.widget].sent
                /\ m.kind = ws[m.widget].call /\ m.id = ws[m.widget].id
           /\ \A w \in Widgets : ws[w].call # "none" /\ ~ws[w].sent =>
                \E m \in ToSet(order) : Asks(m) /\ m.widget = w
<1> DEFINE R == Requests(ws)
           W == {v \in Widgets : ws[v].call # "none" /\ ~ws[v].sent}
           f(w) == Message(ws[w].call, w, ws[w].id)
<1>1. IsFiniteSet(R)
    <2>1. IsFiniteSet(W)
        BY TerminalsAssumption, FS_Subset
    <2>2. PICK g : g = [w \in W |-> f(w)]
        OBVIOUS
    <2>3. R = {f(w) : w \in W}
        BY DEF Requests
    <2>4. g \in [W -> R] /\ \A m \in R : \E w \in W : g[w] = m
        BY <2>2, <2>3
    <2> HIDE DEF W, f, R
    <2>5. g \in Surjection(W, R)
        BY <2>4, Fun_IsSurj
    <2> QED BY <2>1, <2>5, FS_Surjection
<1>2. \A m \in R : /\ m \in Messages /\ Asks(m) /\ m.widget \in Widgets /\ ~ws[m.widget].sent
                   /\ m.kind = ws[m.widget].call /\ m.id = ws[m.widget].id
    <2>1. SUFFICES ASSUME NEW w \in W
                   PROVE  LET m == f(w)
                          IN /\ m \in Messages /\ Asks(m) /\ m.widget \in Widgets /\ ~ws[m.widget].sent
                             /\ m.kind = ws[m.widget].call /\ m.id = ws[m.widget].id
        BY DEF Requests
    <2>2. ws[w] \in WidgetType /\ ws[w].call \in {"create", "attach"} /\ ws[w].id \in Int /\ ~ws[w].sent
        BY DEF WidgetType
    <2> QED BY <2>2 DEF Messages, Message, Asks
<1>3. \A m, o \in R : m.widget = o.widget => m = o
    BY DEF Requests, Message
<1>4. /\ order \in Seq(R) /\ ToSet(order) = R
      /\ \A i, j \in DOMAIN order : order[i] = order[j] => i = j
    <2> HIDE DEF R
    <2>1. order \in SetToSeqs(R)
        BY DEF R
    <2> QED BY <1>1, <2>1, Orders
<1>5. order \in Seq(Messages)
    <2>1. R \subseteq Messages
        BY <1>2
    <2> HIDE DEF R
    <2> QED BY <1>4, <2>1
<1>6. Once(order)
    <2>1. SUFFICES ASSUME NEW i \in DOMAIN order, NEW j \in DOMAIN order, SameTalk(order[i], order[j])
                   PROVE  i = j
        BY DEF Once
    <2>2. order[i] \in R /\ order[j] \in R
        BY <1>4, <1>5, Members
    <2>3. order[i] = order[j]
        BY <1>3, <2>1, <2>2 DEF SameTalk
    <2> QED BY <1>4, <2>3
<1>7. \A w \in W : f(w) \in R /\ Asks(f(w)) /\ f(w).widget = w
    <2>1. SUFFICES ASSUME NEW w \in W PROVE f(w) \in R /\ Asks(f(w)) /\ f(w).widget = w
        OBVIOUS
    <2>2. ws[w] \in WidgetType /\ ws[w].call \in {"create", "attach"}
        BY DEF WidgetType
    <2>3. f(w) \in R
        BY DEF Requests
    <2> QED BY <2>2, <2>3 DEF Message, Asks
<1>8. \A w \in Widgets : ws[w].call # "none" /\ ~ws[w].sent => \E m \in ToSet(order) : Asks(m) /\ m.widget = w
    <2>1. SUFFICES ASSUME NEW w \in W PROVE \E m \in R : Asks(m) /\ m.widget = w
        BY <1>4
    <2> HIDE DEF R, W, f
    <2> QED BY <1>7, <2>1
<1> QED BY <1>2, <1>4, <1>5, <1>6, <1>8

\* What is sent at once joins the talks under way, when only one part of it talks.
LEMMA OnceSent ==
    ASSUME NEW s \in Seq(Messages), NEW a \in Seq(Messages), NEW b \in Seq(Messages), Once(s),
           Once(a), Once(b), (\A m \in ToSet(a) : ~Talks(m)) \/ (\A m \in ToSet(b) : ~Talks(m)),
           \A m \in ToSet(s), o \in ToSet(a) \union ToSet(b) : ~SameTalk(m, o)
    PROVE  /\ s \o a \o b \in Seq(Messages) /\ Once(s \o a \o b)
           /\ ToSet(s \o a \o b) = ToSet(s) \union ToSet(a) \union ToSet(b)
<1>1. s \o a \in Seq(Messages) /\ ToSet(s \o a) = ToSet(s) \union ToSet(a)
    BY Joined
<1>2. PICK c \in Seq(Messages) : c = s \o a
    BY <1>1
<1>3. c \o b \in Seq(Messages) /\ ToSet(c \o b) = ToSet(c) \union ToSet(b)
    BY Joined
<1>4. Once(c)
    BY <1>2, OnceJoined
<1>5. \A m \in ToSet(a), o \in ToSet(b) : ~SameTalk(m, o)
    BY DEF SameTalk
<1>6. \A m \in ToSet(c), o \in ToSet(b) : ~SameTalk(m, o)
    BY <1>1, <1>2, <1>5
<1>7. Once(c \o b)
    BY <1>4, <1>6, OnceJoined
<1> QED BY <1>1, <1>2, <1>3, <1>7

\* What the backend sends arrives, or is lost.
LEMMA Answered ==
    ASSUME Shapes, NEW s, NEW m \in Messages, Answer(s, m)
    PROVE  /\ down' \in [Sockets -> Seq(Messages)]
           /\ \A t \in Sockets : t # socket.number \/ ~socket.open => down'[t] = down[t]
           /\ socket.open /\ s = socket.number => down'[socket.number] = Append(down[socket.number], m)
           /\ ~(socket.open /\ s = socket.number) => down' = down
           /\ abandoned \subseteq abandoned'
           /\ ~(socket.open /\ s = socket.number) /\ m.kind = "created" /\ m.id # None => m.id \in abandoned'
<1>1. CASE s = socket.number /\ socket.open
    <2>1. s \in Sockets /\ down[s] \in Seq(Messages) /\ down \in [Sockets -> Seq(Messages)]
        BY <1>1 DEF Shapes
    <2>2. Append(down[s], m) \in Seq(Messages)
        BY <2>1, Appended
    <2>3. down' = [down EXCEPT ![s] = Append(down[s], m)] /\ abandoned' = abandoned
        BY <1>1 DEF Answer
    <2> QED BY <1>1, <2>1, <2>2, <2>3
<1>2. CASE ~(s = socket.number /\ socket.open)
    <2>1. down' = down /\ abandoned' = abandoned \union Unnamed(<<m>>)
        BY <1>2 DEF Answer
    <2>2. m.kind = "created" /\ m.id # None => m.id \in Unnamed(<<m>>)
        <3>1. 1 \in DOMAIN <<m>> /\ <<m>>[1] = m
            OBVIOUS
        <3> QED BY <3>1 DEF Unnamed
    <2> QED BY <1>2, <2>1, <2>2 DEF Shapes
<1> QED BY <1>1, <1>2

\* A message that the backend takes.
LEMMA ServedOne ==
    ASSUME Shapes, NEW s \in Sockets, s \in served, up[s] # << >>, up' = [up EXCEPT ![s] = Tail(@)]
    PROVE  /\ up' \in [Sockets -> Seq(Messages)] /\ Head(up[s]) \in Messages /\ Head(up[s]) \in ToSet(up[s])
           /\ \A t \in Sockets : t # s => up'[t] = up[t]
           /\ up'[s] = Tail(up[s]) /\ ToSet(up[s]) = {Head(up[s])} \union ToSet(up'[s])
           /\ \A t \in Sockets : ToSet(up'[t]) \subseteq ToSet(up[t])
           /\ s <= socket.number
<1>1. up \in [Sockets -> Seq(Messages)] /\ up[s] \in Seq(Messages)
    BY DEF Shapes
<1>2. /\ Head(up[s]) \in Messages /\ Tail(up[s]) \in Seq(Messages)
      /\ ToSet(up[s]) = {Head(up[s])} \union ToSet(Tail(up[s]))
    BY <1>1, Taken
<1>3. s \in Int /\ socket.number \in Int /\ s <= socket.number
    BY DEF Shapes, Sockets
<1> QED BY <1>1, <1>2, <1>3
----------------------------------------------------------------------------
(* The backend serves a message.                                           *)

\* What serving message on socket s does, whatever it asks for: answer is what it sends, if it does.
Reply(s, message, answer) ==
    /\ answer \in Messages /\ ~Asks(answer)
    /\ Talks(message) <=> Talks(answer)
    /\ Talks(message) => SameTalk(message, answer)
    /\ Answers(answer) <=> Asks(message)
    /\ answer.kind = "created" /\ answer.id # None =>
        answer.id = nextId /\ nextId' = nextId + 1 /\ nextId \in processes'
    /\ answer.kind = "attached" =>
        message.kind = "attach" /\ IF message.id \in processes THEN answer.id = message.id ELSE answer.id = None
    /\ message.kind = "create" <=> answer.kind = "created"
    /\ down' \in [Sockets -> Seq(Messages)]
    /\ \A t \in Sockets : t # socket.number \/ ~socket.open => down'[t] = down[t]
    /\ IF socket.open /\ s = socket.number
       THEN \/ down'[socket.number] = Append(down[socket.number], answer)
            \/ ~Talks(message) /\ down'[socket.number] = down[socket.number]
       ELSE down' = down
    /\ nextId' \in {nextId, nextId + 1} /\ processes \subseteq processes'
    /\ nextId' = nextId => processes' = processes
    /\ nextId' = nextId + 1 => processes' = processes \union {nextId}
    /\ nextId' = nextId + 1 =>
        \/ nextId \in failed' \union abandoned'
        \/ socket.open /\ s = socket.number /\ answer.kind = "created" /\ answer.id = nextId
    /\ killed \subseteq killed' /\ failed \subseteq failed' /\ abandoned \subseteq abandoned'
    /\ message.kind = "close" => processes' = processes /\ (message.id \in killed' \/ message.id \notin processes)
    /\ client' = client \/ (client' = s /\ message.kind = "shell")

LEMMA Replied ==
    ASSUME IInv, NEW s \in Sockets, Serve(s)
    PROVE  \E answer : Reply(s, Head(up[s]), answer)
<1>1. PICK message : message = Head(up[s])
    OBVIOUS
<1>2. Shapes /\ message \in Messages
    BY <1>1, ServedOne DEF IInv, Serve
<1>3. /\ message.kind \in {"shell", "ready", "create", "attach", "created", "attached", "close", "channel",
                           "channelReady", "exit"}
      /\ message.widget \in Widgets \union {First} /\ message.id \in Int
      /\ nextId \in Nat /\ processes \subseteq 0 .. nextId - 1 /\ None \in Int
      /\ down \in [Sockets -> Seq(Messages)]
    <2>1. message.widget \in Widgets \union {First} /\ message.id \in Int
        BY <1>2 DEF Messages
    <2>2. message.kind \in {"shell", "ready", "create", "attach", "created", "attached", "close", "channel",
                           "channelReady", "exit"}
        BY <1>2 DEF Messages
    <2>3. nextId \in Nat /\ processes \subseteq 0 .. nextId - 1 /\ None \in Int
        BY <1>2 DEF Shapes, None
    <2> QED BY <1>2, <2>1, <2>2, <2>3 DEF Shapes
<1>4. \A kind \in {"created", "attached", "channelReady"} : \A id \in Int :
        LET answer == Message(kind, message.widget, id)
        IN answer \in Messages /\ answer.kind = kind /\ answer.widget = message.widget /\ answer.id = id
    <2>1. SUFFICES ASSUME NEW kind \in {"created", "attached", "channelReady"}, NEW id \in Int
                   PROVE  LET answer == Message(kind, message.widget, id)
                          IN answer \in Messages /\ answer.kind = kind /\ answer.widget = message.widget /\ answer.id = id
        OBVIOUS
    <2> QED BY <1>3 DEF Message, Messages
<1>5. CASE message.kind = "shell" /\ ServeShell(s, message)
    <2>1. PICK answer : answer = [message EXCEPT !.kind = "ready"]
        OBVIOUS
    <2>2. answer \in Messages /\ answer.kind = "ready" /\ answer.widget = message.widget
        BY <1>2, <1>5, <2>1 DEF Messages
    <2>3. Answer(s, answer)
        BY <1>5, <2>1 DEF ServeShell
    <2>4. Reply(s, message, answer)
        BY <1>2, <1>3, <1>5, <2>2, <2>3, Answered DEF Reply, ServeShell, Greets, Asks, Answers, Talks, SameTalk
    <2> QED BY <1>1, <2>4
<1>6. CASE message.kind = "create" /\ ServeCreate(s, message)
    <2>1. ASSUME NEW id \in Int, Answer(s, Message("created", message.widget, id)),
                 id # None => id = nextId /\ nextId' = nextId + 1,
                 nextId' \in {nextId, nextId + 1}, nextId' = nextId => processes' = processes,
                 nextId' = nextId + 1 => processes' = processes \union {nextId},
                 nextId' = nextId + 1 => id = nextId \/ nextId \in failed',
                 failed \subseteq failed', killed' = killed, client' = client
          PROVE  \E answer : Reply(s, message, answer)
        <3>1. PICK answer : answer = Message("created", message.widget, id)
            OBVIOUS
        <3>2. answer \in Messages /\ answer.kind = "created" /\ answer.widget = message.widget /\ answer.id = id
            BY <1>4, <3>1
        <3>3. nextId # None
            BY <1>3 DEF None
        <3>4. /\ down' \in [Sockets -> Seq(Messages)]
              /\ \A t \in Sockets : t # socket.number \/ ~socket.open => down'[t] = down[t]
              /\ socket.open /\ s = socket.number => down'[socket.number] = Append(down[socket.number], answer)
              /\ ~(socket.open /\ s = socket.number) => down' = down
              /\ abandoned \subseteq abandoned'
              /\ ~(socket.open /\ s = socket.number) /\ id # None => id \in abandoned'
            BY <1>2, <2>1, <3>1, <3>2, Answered
        <3>5. ~Asks(answer) /\ (Talks(message) <=> Talks(answer)) /\ SameTalk(message, answer)
              /\ (Answers(answer) <=> Asks(message))
            BY <1>6, <3>2 DEF Greets, Asks, Answers, Talks, SameTalk
        <3>6. processes \subseteq processes'
            BY <2>1
        <3>7. answer.id # None => answer.id = nextId /\ nextId' = nextId + 1 /\ nextId \in processes'
            BY <2>1, <3>2
        <3>8. nextId' = nextId + 1 =>
                  \/ nextId \in failed' \union abandoned'
                  \/ socket.open /\ s = socket.number /\ answer.kind = "created" /\ answer.id = nextId
            <4>1. CASE nextId \in failed'
                BY <4>1
            <4>2. CASE id = nextId /\ ~(socket.open /\ s = socket.number)
                BY <3>2, <3>3, <3>4, <4>2
            <4>3. CASE id = nextId /\ (socket.open /\ s = socket.number)
                BY <3>2, <4>3
            <4> QED BY <2>1, <4>1, <4>2, <4>3
        <3> QED BY <1>6, <2>1, <3>2, <3>4, <3>5, <3>6, <3>7, <3>8 DEF Reply
    <2>2. CASE /\ failed' = failed /\ Answer(s, Message("created", message.widget, nextId))
               /\ processes' = processes \union {nextId} /\ nextId' = nextId + 1 /\ killed' = killed /\ client' = client
        BY <1>1, <1>3, <2>1, <2>2
    <2>3. CASE /\ failed' = failed \union {nextId} /\ Answer(s, Message("created", message.widget, None))
               /\ processes' = processes \union {nextId} /\ nextId' = nextId + 1 /\ killed' = killed /\ client' = client
        BY <1>1, <1>3, <2>1, <2>3
    <2>4. CASE /\ Answer(s, Message("created", message.widget, None)) /\ processes' = processes /\ nextId' = nextId
               /\ failed' = failed /\ killed' = killed /\ client' = client
        BY <1>1, <1>3, <2>1, <2>4
    <2> QED BY <1>6, <2>2, <2>3, <2>4 DEF ServeCreate
<1>7. CASE message.kind = "attach" /\ ServeAttach(s, message)
    <2>1. PICK id \in Int : id = IF message.id \in processes THEN message.id ELSE None
        BY <1>3
    <2>2. PICK answer : answer = Message("attached", message.widget, id)
        OBVIOUS
    <2>3. answer \in Messages /\ answer.kind = "attached" /\ answer.widget = message.widget /\ answer.id = id
        BY <1>4, <2>2
    <2>4. Answer(s, answer)
        BY <1>7, <2>1, <2>2 DEF ServeAttach
    <2>5. Reply(s, message, answer)
        BY <1>2, <1>3, <1>7, <2>1, <2>3, <2>4, Answered
           DEF Reply, ServeAttach, Greets, Asks, Answers, Talks, SameTalk
    <2> QED BY <1>1, <2>5
<1>8. PICK other : other = Message("channelReady", message.widget, message.id)
    OBVIOUS
<1>9. other \in Messages /\ other.kind = "channelReady"
    BY <1>3, <1>4, <1>8
<1>10. CASE message.kind = "close" /\ ServeClose(message)
    <2>1. Reply(s, message, other)
        BY <1>3, <1>9, <1>10 DEF Reply, ServeClose, Greets, Asks, Answers, Talks, SameTalk
    <2> QED BY <1>1, <2>1
<1>11. CASE message.kind = "channel" /\ ServeChannel(s, message)
    <2>1. CASE message.id \in processes
        <3>1. Answer(s, other)
            BY <1>8, <1>11, <2>1 DEF ServeChannel
        <3>2. Reply(s, message, other)
            BY <1>2, <1>3, <1>9, <1>11, <3>1, Answered
               DEF Reply, ServeChannel, Greets, Asks, Answers, Talks, SameTalk
        <3> QED BY <1>1, <3>2
    <2>2. CASE message.id \notin processes
        <3>1. Reply(s, message, other)
            BY <1>3, <1>9, <1>11, <2>2 DEF Reply, ServeChannel, Greets, Asks, Answers, Talks, SameTalk
        <3> QED BY <1>1, <3>1
    <2> QED BY <2>1, <2>2
<1> QED BY <1>1, <1>5, <1>6, <1>7, <1>10, <1>11 DEF Serve

LEMMA ServeKeeps ==
    ASSUME IInv, NEW s \in Sockets, Serve(s)
    PROVE  IInv'
<1>1. PICK message, answer : message = Head(up[s]) /\ Reply(s, message, answer)
    BY Replied
<1>2. /\ Shapes /\ Owned /\ Conversations /\ Starts /\ ExitsTold /\ OrphansExplained
      /\ widgets' = widgets /\ closes' = closes /\ socket' = socket /\ served' = served
    BY DEF IInv, Serve
<1>3. /\ up' \in [Sockets -> Seq(Messages)] /\ message \in Messages /\ message \in ToSet(up[s])
      /\ \A t \in Sockets : t # s => up'[t] = up[t]
      /\ up'[s] = Tail(up[s]) /\ ToSet(up[s]) = {message} \union ToSet(up'[s])
      /\ \A t \in Sockets : ToSet(up'[t]) \subseteq ToSet(up[t])
      /\ s <= socket.number /\ up[s] # << >>
    BY <1>1, <1>2, ServedOne DEF Serve
<1>4. /\ socket \in [number : Nat, open : BOOLEAN, connected : BOOLEAN] /\ nextId \in Nat
      /\ up \in [Sockets -> Seq(Messages)] /\ down \in [Sockets -> Seq(Messages)] /\ processes \subseteq 0 .. nextId - 1
      /\ widgets \in [Widgets -> WidgetType]
    BY <1>2 DEF Shapes
<1>14. (socket.open => socket.number \in Sockets) /\ (socket.connected => socket.open)
    BY <1>2 DEF Shapes
<1>5. /\ answer \in Messages /\ down' \in [Sockets -> Seq(Messages)]
      /\ nextId' \in {nextId, nextId + 1} /\ processes \subseteq processes'
      /\ nextId' = nextId => processes' = processes
      /\ nextId' = nextId + 1 => processes' = processes \union {nextId}
    BY <1>1 DEF Reply
<1>6. \A t \in Sockets : /\ ToSet(down[t]) \subseteq ToSet(down'[t])
                         /\ ToSet(down'[t]) \subseteq ToSet(down[t]) \union {answer}
    <2>1. SUFFICES ASSUME NEW t \in Sockets
                   PROVE  /\ ToSet(down[t]) \subseteq ToSet(down'[t])
                          /\ ToSet(down'[t]) \subseteq ToSet(down[t]) \union {answer}
        OBVIOUS
    <2>2. down'[t] = down[t] \/ down'[t] = Append(down[t], answer)
        BY <1>1 DEF Reply
    <2>3. CASE down'[t] = down[t]
        BY <2>3
    <2>4. CASE down'[t] = Append(down[t], answer)
        <3>1. ToSet(Append(down[t], answer)) = ToSet(down[t]) \union {answer}
            BY <1>4, <1>5, Appended
        <3> QED BY <2>4, <3>1
    <2> QED BY <2>2, <2>3, <2>4
<1>7. \A w \in Widgets : widgets[w].id \in Int /\ widgets[w].id # nextId
    <2>1. SUFFICES ASSUME NEW w \in Widgets PROVE widgets[w].id \in Int /\ widgets[w].id # nextId
        OBVIOUS
    <2>2. widgets[w].id \in Int
        <3>1. widgets[w] \in WidgetType
            BY <1>4
        <3> QED BY <3>1 DEF WidgetType
    <2>3. Names(w, widgets[w].id)
        BY DEF Names
    <2> QED BY <1>2, <1>4, <2>2, <2>3 DEF Owned, None
<1>8. Shapes'
    <2>1. nextId' \in Nat /\ processes' \subseteq 0 .. nextId' - 1
        <3>1. CASE nextId' = nextId
            BY <1>4, <1>5, <3>1
        <3>2. CASE nextId' = nextId + 1
            BY <1>4, <1>5, <3>2
        <3> QED BY <1>5, <3>1, <3>2
    <2>2. \A t \in Sockets : (t > socket.number => up'[t] = << >>) /\ (t # socket.number \/ ~socket.open => down'[t] = << >>)
        <3>1. SUFFICES ASSUME NEW t \in Sockets
                       PROVE (t > socket.number => up'[t] = << >>) /\ (t # socket.number \/ ~socket.open => down'[t] = << >>)
            OBVIOUS
        <3>2. (t > socket.number => up[t] = << >>) /\ (t # socket.number \/ ~socket.open => down[t] = << >>)
            BY <1>2 DEF Shapes
        <3>3. t # socket.number \/ ~socket.open => down'[t] = down[t]
            BY <1>1 DEF Reply
        <3>4. t > socket.number => t # s
            BY <1>3, <1>4 DEF Sockets
        <3> QED BY <1>3, <3>2, <3>3, <3>4
    <2> QED BY <1>2, <1>3, <1>5, <2>1, <2>2 DEF Shapes
<1>9. Owned'
    <2>1. ASSUME NEW w \in Widgets, NEW id \in Int, Names(w, id)', id # None
          PROVE  Names(w, id) \/ (id = nextId /\ nextId' = nextId + 1 /\ w = answer.widget)
        <3>1. CASE widgets'[w].id = id
            BY <1>2, <3>1 DEF Names
        <3>2. CASE \E t \in Sockets : \E m \in ToSet(up'[t]) : m.kind = "attach" /\ m.widget = w /\ m.id = id
            BY <1>3, <3>2 DEF Names
        <3>3. CASE \E t \in Sockets : \E m \in ToSet(down'[t]) : m.kind \in {"created", "attached"} /\ m.widget = w /\ m.id = id
            <4>1. PICK t \in Sockets : \E m \in ToSet(down'[t]) : m.kind \in {"created", "attached"} /\ m.widget = w /\ m.id = id
                BY <3>3
            <4>2. PICK m \in ToSet(down'[t]) : m.kind \in {"created", "attached"} /\ m.widget = w /\ m.id = id
                BY <4>1
            <4>3. CASE m \in ToSet(down[t])
                BY <4>2, <4>3 DEF Names
            <4>4. CASE m = answer /\ m.kind = "created"
                BY <1>1, <2>1, <4>2, <4>4 DEF Reply
            <4>5. CASE m = answer /\ m.kind = "attached"
                <5>1. message.kind = "attach" /\ message.id = id
                    BY <1>1, <2>1, <4>2, <4>5 DEF Reply
                <5>2. message.widget = w
                    BY <1>1, <4>2, <4>5, <5>1 DEF Reply, Talks, Asks, SameTalk
                <5> QED BY <1>3, <5>1, <5>2 DEF Names
            <4> QED BY <1>6, <4>2, <4>3, <4>4, <4>5
        <3> QED BY <2>1, <3>1, <3>2, <3>3 DEF Names
    <2>2. \A w \in Widgets : ~Names(w, nextId)
        BY <1>2, <1>4 DEF Owned, None
    <2>3. SUFFICES ASSUME NEW w \in Widgets, NEW id \in Int, Names(w, id)', id # None
                   PROVE  id \in 0 .. nextId' - 1 /\ \A v \in Widgets : Names(v, id)' => v = w
        BY DEF Owned
    <2>4. CASE id = nextId
        <3>1. nextId' = nextId + 1 /\ w = answer.widget
            BY <2>1, <2>2, <2>3, <2>4
        <3>2. \A v \in Widgets : Names(v, id)' => v = answer.widget
            BY <2>1, <2>2, <2>3, <2>4
        <3> QED BY <1>4, <2>4, <3>1, <3>2
    <2>5. CASE id # nextId
        <3>1. Names(w, id)
            BY <2>1, <2>3, <2>5
        <3>2. \A v \in Widgets : Names(v, id)' => Names(v, id)
            BY <2>1, <2>3, <2>5
        <3>3. id \in 0 .. nextId - 1 /\ \A v \in Widgets : Names(v, id) => v = w
            BY <1>2, <2>3, <3>1 DEF Owned
        <3>4. id \in 0 .. nextId' - 1
            <4>1. nextId' = nextId \/ nextId' = nextId + 1
                BY <1>5
            <4>2. id \in 0 .. nextId - 1 /\ nextId \in Nat
                BY <1>4, <3>3
            <4> QED BY <4>1, <4>2
        <3> QED BY <3>2, <3>3, <3>4
    <2> QED BY <2>4, <2>5
<1>10. Conversations'
    <2> SUFFICES ASSUME socket.open PROVE Conversations'
        BY <1>2 DEF Conversations
    <2> DEFINE n == socket.number
    <2>1. /\ \A m \in ToSet(up[n]) \union ToSet(down[n]) : Means(m)
          /\ Once(up[n]) /\ Once(down[n])
          /\ \A m \in ToSet(up[n]), o \in ToSet(down[n]) : ~SameTalk(m, o)
        BY <1>2 DEF Conversations
    <2>0. n \in Sockets
        BY <1>14
    <2>2. ASSUME NEW m, Means(m) PROVE Means(m)'
        <3>1. ASSUME m.kind = "attached", m.id = None PROVE widgets[m.widget].id \notin processes'
            <4>1. m.widget \in Widgets /\ widgets[m.widget].id \notin processes
                BY <2>2, <3>1 DEF Means, Answers
            <4> QED BY <1>5, <1>7, <4>1
        <3> QED BY <1>2, <2>2, <3>1 DEF Means
    <2>3. CASE s # n
        <3>1. up'[n] = up[n] /\ down'[n] = down[n]
            BY <1>1, <1>3, <2>0, <2>1, <2>3 DEF Reply
        <3> QED BY <1>2, <2>1, <2>2, <3>1 DEF Conversations
    <2>4. CASE s = n
        <3>1. Once(up'[n]) /\ \A m \in ToSet(up'[n]) : ~SameTalk(message, m)
            BY <1>1, <1>3, <1>4, <2>0, <2>1, <2>4, OnceTaken
        <3>2. ToSet(up'[n]) \subseteq ToSet(up[n]) /\ message \in ToSet(up[n])
            BY <1>3, <2>0, <2>1, <2>4
        <3>3. \A m \in ToSet(up'[n]), o \in ToSet(down[n]) : ~SameTalk(m, o) /\ Means(m)' /\ Means(o)'
            BY <2>1, <2>2, <3>2
        <3>4. CASE down'[n] = down[n]
            <4>1. \A m \in ToSet(up'[n]) : Means(m)'
                BY <2>1, <2>2, <3>2
            <4>2. \A m \in ToSet(down'[n]) : Means(m)'
                BY <2>1, <2>2, <3>4
            <4> QED BY <1>2, <2>1, <3>1, <3>3, <3>4, <4>1, <4>2 DEF Conversations
        <3>5. CASE down'[n] = Append(down[n], answer)
            <4>1. \A m : SameTalk(m, answer) => SameTalk(m, message) /\ SameTalk(message, m)
                BY <1>1 DEF Reply, SameTalk
            <4>2. ToSet(down'[n]) = ToSet(down[n]) \union {answer} /\ down[n] \in Seq(Messages)
                BY <1>4, <1>5, <2>0, <2>1, <3>5, Appended
            <4>3. Once(down'[n])
                <5>1. \A m \in ToSet(down[n]) : ~SameTalk(m, answer)
                    BY <2>1, <3>2, <4>1
                <5> QED BY <1>5, <2>1, <3>5, <4>2, <5>1, OnceAppended
            <4>4. \A m \in ToSet(up'[n]), o \in ToSet(down'[n]) : ~SameTalk(m, o)
                BY <3>1, <3>3, <4>1, <4>2, <2>1, <3>2
            <4>5. Means(answer)'
                <5>1. Means(message)
                    BY <2>1, <3>2
                <5>2. Greets(answer) => Greets(message) /\ answer.widget = message.widget
                    BY <1>1 DEF Reply, SameTalk, Talks
                <5>3. Answers(answer) => Asks(message) /\ answer.widget = message.widget
                    BY <1>1 DEF Reply, SameTalk, Talks
                <5>4. ASSUME answer.kind = "created" PROVE message.kind = "create"
                    BY <1>1, <5>4 DEF Reply
                <5>5. ASSUME answer.kind = "attached"
                      PROVE  /\ message.kind = "attach" /\ message.id = widgets[message.widget].id
                             /\ answer.widget = message.widget /\ message.widget \in Widgets
                             /\ answer.id # None => answer.id = message.id
                             /\ answer.id = None => message.id \notin processes \/ message.id = None
                    BY <1>1, <5>1, <5>3, <5>5 DEF Reply, Means, Answers, Asks
                <5>6. ASSUME answer.kind = "attached", answer.id = None PROVE widgets[answer.widget].id \notin processes'
                    <6>1. widgets[answer.widget].id \notin processes
                        BY <1>4, <5>5, <5>6 DEF None
                    <6> QED BY <1>5, <1>7, <5>5, <5>6, <6>1
                <5>7. ~Asks(answer)
                    BY <1>1 DEF Reply
                <5> QED BY <1>2, <5>1, <5>2, <5>3, <5>4, <5>5, <5>6, <5>7 DEF Means, Asks, Answers
            <4>6. \A m \in ToSet(up'[n]) : Means(m)'
                BY <2>1, <2>2, <3>2
            <4>7. \A m \in ToSet(down'[n]) : Means(m)'
                BY <2>1, <2>2, <4>2, <4>5
            <4> QED BY <1>2, <3>1, <4>3, <4>4, <4>6, <4>7 DEF Conversations
        <3> QED BY <1>1, <2>4, <3>4, <3>5 DEF Reply
    <2> QED BY <2>3, <2>4
<1>11. Starts'
    <2>1. ASSUME NEW w \in Widgets, widgets[w].call # "none", socket.connected,
                 NEW m \in ToSet(up[socket.number]) \union ToSet(down[socket.number]), Asks(m) \/ Answers(m), m.widget = w
          PROVE  \E o \in ToSet(up'[socket.number]) \union ToSet(down'[socket.number]) : (Asks(o) \/ Answers(o)) /\ o.widget = w
        <3>1. socket.number \in Sockets /\ socket.open
            BY <1>14, <2>1
        <3>2. CASE m \in ToSet(up'[socket.number]) \union ToSet(down'[socket.number])
            BY <2>1, <3>2
        <3>3. CASE m \notin ToSet(up'[socket.number]) \union ToSet(down'[socket.number])
            <4>1. s = socket.number /\ m = message
                BY <1>3, <1>6, <2>1, <3>1, <3>3
            <4>2. Talks(message)
                BY <2>1, <4>1, <3>1, <1>6, <3>3 DEF Talks
            <4>3. Asks(message)
                <5>1. ASSUME Answers(message) PROVE FALSE
                    <6>1. message.kind \notin {"shell", "create", "attach", "close", "channel"}
                        BY <5>1 DEF Answers
                    <6> QED BY <1>1, <6>1 DEF Serve
                <5> QED BY <2>1, <4>1, <5>1
            <4>4. down'[socket.number] = Append(down[socket.number], answer)
                BY <1>1, <3>1, <4>1, <4>2 DEF Reply
            <4>5. answer \in ToSet(down'[socket.number])
                BY <1>4, <1>5, <3>1, <4>4, Appended
            <4>6. Answers(answer) /\ answer.widget = w
                BY <1>1, <2>1, <4>1, <4>2, <4>3 DEF Reply, SameTalk
            <4> QED BY <4>5, <4>6
        <3> QED BY <3>2, <3>3
    <2>2. \A w \in Widgets : widgets[w].call = "create" => widgets[w].id \notin processes'
        BY <1>2, <1>5, <1>7 DEF Starts
    <2> QED BY <1>2, <2>1, <2>2 DEF Starts
<1>12. ExitsTold'
    <2> DEFINE n == socket.number
    <2>1. SUFFICES ASSUME socket.connected, client' = n PROVE ExitsTold'
        BY <1>2 DEF ExitsTold
    <2>2. n \in Sockets /\ socket.open /\ down[n] \in Seq(Messages)
        <3>1. n \in Sockets /\ socket.open
            BY <1>14, <2>1
        <3> QED BY <1>4, <3>1
    <2>3. client = n
        <3>1. SUFFICES ASSUME client' = s, message.kind = "shell" PROVE FALSE
            BY <1>1, <2>1 DEF Reply
        <3>2. Means(message)
            BY <1>2, <1>3, <2>1, <2>2, <3>1 DEF Conversations
        <3> QED BY <2>1, <3>1, <3>2 DEF Means, Greets
    <2>4. /\ \A w \in Widgets :
                widgets[w].status = "open" /\ widgets[w].id # None /\ widgets[w].id \notin processes
                    => \/ widgets[w].title = "terminated" \/ widgets[w].call # "none"
                       \/ Told(widgets[w].id, down[n], 0)
          /\ \A i \in DOMAIN down[n] :
                Answers(down[n][i]) /\ down[n][i].id # None /\ down[n][i].id \notin processes => Told(down[n][i].id, down[n], i)
        BY <1>2, <2>1, <2>3 DEF ExitsTold
    <2>5. CASE down'[n] = down[n]
        BY <1>2, <1>5, <2>4, <2>5 DEF ExitsTold
    <2>6. CASE down'[n] = Append(down[n], answer)
        <3>1. \A p, i : i \in Nat /\ Told(p, down[n], i) => Told(p, down'[n], i)
            BY <1>5, <2>2, <2>6, ToldAppended
        <3>2. /\ DOMAIN down[n] = 1 .. Len(down[n]) /\ Len(down[n]) \in Nat
              /\ DOMAIN down'[n] = 1 .. Len(down[n]) + 1
              /\ \A i \in 1 .. Len(down[n]) : down'[n][i] = down[n][i]
              /\ down'[n][Len(down[n]) + 1] = answer
            BY <1>5, <2>2, <2>6, Appended, Members
        <3>3. Answers(answer) /\ answer.id # None => answer.id \in processes'
            BY <1>1 DEF Reply, Answers
        <3>4. \A i \in DOMAIN down'[n] :
                Answers(down'[n][i]) /\ down'[n][i].id # None /\ down'[n][i].id \notin processes' => Told(down'[n][i].id, down'[n], i)
            <4>1. SUFFICES ASSUME NEW i \in DOMAIN down'[n], Answers(down'[n][i]), down'[n][i].id # None, down'[n][i].id \notin processes'
                           PROVE  Told(down'[n][i].id, down'[n], i)
                OBVIOUS
            <4>2. i # Len(down[n]) + 1
                BY <3>2, <3>3, <4>1
            <4>3. i \in 1 .. Len(down[n]) /\ i \in Nat
                BY <3>2, <4>2
            <4> QED BY <1>5, <2>4, <3>1, <3>2, <4>1, <4>3
        <3>5. \A w \in Widgets :
                widgets[w].status = "open" /\ widgets[w].id # None /\ widgets[w].id \notin processes'
                    => \/ widgets[w].title = "terminated" \/ widgets[w].call # "none"
                       \/ Told(widgets[w].id, down'[n], 0)
            BY <1>5, <2>4, <3>1
        <3> QED BY <1>2, <3>4, <3>5 DEF ExitsTold
    <2> QED BY <1>1, <2>2, <2>5, <2>6 DEF Reply
<1>13. OrphansExplained'
    <2>1. SUFFICES ASSUME NEW p \in processes', p \notin killed' \union failed' \union abandoned'
                   PROVE  Known(p)'
        BY DEF OrphansExplained
    <2>2. killed \subseteq killed' /\ failed \subseteq failed' /\ abandoned \subseteq abandoned'
        BY <1>1 DEF Reply
    <2>3. CASE p \in processes
        <3>1. Known(p)
            BY <1>2, <2>1, <2>2, <2>3 DEF OrphansExplained
        <3>2. CASE \E w \in Widgets : widgets[w].status = "open" /\ widgets[w].id = p
            BY <1>2, <3>2 DEF Known
        <3>3. CASE \E t \in Sockets : \E m \in ToSet(down[t]) : m.kind = "created" /\ m.id = p
            BY <1>6, <3>3 DEF Known
        <3>4. CASE \E t \in Sockets : \E m \in ToSet(up[t]) : m.kind = "close" /\ m.id = p
            <4>1. PICK t \in Sockets : \E m \in ToSet(up[t]) : m.kind = "close" /\ m.id = p
                BY <3>4
            <4>2. PICK m \in ToSet(up[t]) : m.kind = "close" /\ m.id = p
                BY <4>1
            <4>3. ~(t = s /\ m = message)
                BY <1>1, <2>1, <2>3, <4>2 DEF Reply
            <4>4. m \in ToSet(up'[t])
                BY <1>3, <4>2, <4>3
            <4> QED BY <4>2, <4>4 DEF Known
        <3>5. CASE \E m \in ToSet(closes) : m.id = p
            BY <1>2, <3>5 DEF Known
        <3> QED BY <3>1, <3>2, <3>3, <3>4, <3>5 DEF Known
    <2>4. CASE p \notin processes
        <3>1. nextId' = nextId + 1 /\ p = nextId
            BY <1>4, <1>5, <2>1, <2>4
        <3>2. socket.open /\ s = socket.number /\ answer.kind = "created" /\ answer.id = p
            BY <1>1, <2>1, <3>1 DEF Reply
        <3>3. Talks(message)
            BY <1>1, <3>2 DEF Reply, Talks, Answers
        <3>4. down'[s] = Append(down[s], answer)
            BY <1>1, <3>2, <3>3 DEF Reply
        <3>5. answer \in ToSet(down'[s])
            BY <1>4, <1>5, <3>4, Appended
        <3> QED BY <3>2, <3>5 DEF Known
    <2> QED BY <2>3, <2>4
<1> QED BY <1>8, <1>9, <1>10, <1>11, <1>12, <1>13 DEF IInv

----------------------------------------------------------------------------
(* A process exits, and the backend notices that a socket has closed.      *)

LEMMA ExitKeeps ==
    ASSUME IInv, NEW p \in Ids, Exit(p)
    PROVE  IInv'
<1>1. /\ Shapes /\ Owned /\ Conversations /\ Starts /\ ExitsTold /\ OrphansExplained
      /\ widgets' = widgets /\ closes' = closes /\ socket' = socket /\ served' = served /\ up' = up
      /\ nextId' = nextId /\ client' = client /\ failed' = failed
      /\ processes' = processes \ {p} /\ killed' = killed \ {p}
    BY DEF IInv, Exit
<1>2. PICK m : m = Message("exit", CHOOSE w \in Widgets : TRUE, p)
    OBVIOUS
<1>3. m \in Messages /\ m.kind = "exit" /\ m.id = p
    BY <1>2 DEF Message, Messages, First, Ids
<1>4. up \in [Sockets -> Seq(Messages)] /\ down \in [Sockets -> Seq(Messages)]
    BY <1>1 DEF Shapes
<1>5. (socket.open => socket.number \in Sockets) /\ (socket.connected => socket.open /\ socket.number \in served)
    BY <1>1 DEF Shapes
<1>6. /\ down' \in [Sockets -> Seq(Messages)]
      /\ \A t \in Sockets : t # socket.number \/ ~socket.open => down'[t] = down[t]
      /\ socket.open => down'[socket.number] = down[socket.number] \/ down'[socket.number] = Append(down[socket.number], m)
      /\ socket.connected /\ client = socket.number => down'[socket.number] = Append(down[socket.number], m)
      /\ abandoned \subseteq abandoned'
    <2>1. CASE client \in served
        <3>1. Answer(client, m)
            BY <1>2, <2>1 DEF Exit
        <3> QED BY <1>1, <1>3, <1>5, <3>1, Answered
    <2>2. CASE client \notin served
        <3>1. down' = down /\ abandoned' = abandoned
            BY <2>2 DEF Exit
        <3> QED BY <1>4, <1>5, <2>2, <3>1
    <2> QED BY <2>1, <2>2
<1>7. \A t \in Sockets : /\ ToSet(down[t]) \subseteq ToSet(down'[t])
                         /\ ToSet(down'[t]) \subseteq ToSet(down[t]) \union {m}
    <2>1. SUFFICES ASSUME NEW t \in Sockets
                   PROVE  /\ ToSet(down[t]) \subseteq ToSet(down'[t])
                          /\ ToSet(down'[t]) \subseteq ToSet(down[t]) \union {m}
        OBVIOUS
    <2>2. down'[t] = down[t] \/ down'[t] = Append(down[t], m)
        BY <1>6
    <2>3. ToSet(Append(down[t], m)) = ToSet(down[t]) \union {m}
        BY <1>3, <1>4, Appended
    <2> QED BY <2>2, <2>3
<1>8. Shapes'
    <2>1. nextId' \in Nat /\ processes' \subseteq 0 .. nextId' - 1
        BY <1>1 DEF Shapes
    <2>2. \A t \in Sockets : t # socket.number \/ ~socket.open => down'[t] = << >>
        BY <1>1, <1>6 DEF Shapes
    <2> QED BY <1>1, <1>6, <2>1, <2>2 DEF Shapes
<1>9. Owned'
    <2>1. \A w \in Widgets : \A id \in Int : Names(w, id)' => Names(w, id)
        BY <1>1, <1>3, <1>7 DEF Names
    <2> QED BY <1>1, <2>1 DEF Owned
<1>10. Conversations'
    <2> SUFFICES ASSUME socket.open PROVE Conversations'
        BY <1>1 DEF Conversations
    <2> DEFINE n == socket.number
    <2>1. /\ \A o \in ToSet(up[n]) \union ToSet(down[n]) : Means(o)
          /\ Once(up[n]) /\ Once(down[n])
          /\ \A q \in ToSet(up[n]), o \in ToSet(down[n]) : ~SameTalk(q, o)
        BY <1>1 DEF Conversations
    <2>2. n \in Sockets
        BY <1>5
    <2>3. \A o : Means(o) => Means(o)'
        BY <1>1 DEF Means
    <2>4. ~Talks(m)
        BY <1>3 DEF Talks, Greets, Asks, Answers
    <2>5. Means(m)'
        BY <1>3 DEF Means, Greets, Asks, Answers
    <2>6. ToSet(down'[n]) \subseteq ToSet(down[n]) \union {m}
        BY <1>7, <2>2
    <2>7. \A q : ~SameTalk(q, m)
        BY <2>4 DEF SameTalk
    <2>8. Once(down'[n])
        <3>1. Once(Append(down[n], m))
            BY <1>3, <1>4, <2>1, <2>2, <2>7, OnceAppended
        <3> QED BY <1>6, <2>1, <3>1
    <2> QED BY <1>1, <2>1, <2>3, <2>5, <2>6, <2>7, <2>8 DEF Conversations
<1>11. Starts'
    <2>1. socket.connected => ToSet(down[socket.number]) \subseteq ToSet(down'[socket.number])
        BY <1>5, <1>7
    <2> QED BY <1>1, <2>1 DEF Starts
<1>12. ExitsTold'
    <2> DEFINE n == socket.number
    <2>1. SUFFICES ASSUME socket.connected, client = n PROVE ExitsTold'
        BY <1>1 DEF ExitsTold
    <2>2. n \in Sockets /\ down'[n] = Append(down[n], m)
        BY <1>5, <1>6, <2>1
    <2>3. down[n] \in Seq(Messages)
        BY <1>4, <2>2
    <2>4. \A q, i : i \in Nat /\ Told(q, down[n], i) => Told(q, down'[n], i)
        BY <1>3, <2>2, <2>3, ToldAppended
    <2>5. \A i : i \in Nat /\ i <= Len(down[n]) => Told(p, down'[n], i)
        BY <1>3, <2>2, <2>3, ToldAppended
    <2>6. /\ DOMAIN down[n] = 1 .. Len(down[n]) /\ Len(down[n]) \in Nat
          /\ DOMAIN down'[n] = 1 .. Len(down[n]) + 1
          /\ \A i \in 1 .. Len(down[n]) : down'[n][i] = down[n][i]
          /\ down'[n][Len(down[n]) + 1] = m
        BY <1>3, <2>2, <2>3, Appended, Members
    <2>7. ~Answers(m)
        BY <1>3 DEF Answers
    <2>8. \A i \in DOMAIN down'[n] :
            Answers(down'[n][i]) /\ down'[n][i].id # None /\ down'[n][i].id \notin processes' => Told(down'[n][i].id, down'[n], i)
        <3>1. SUFFICES ASSUME NEW i \in DOMAIN down'[n], Answers(down'[n][i]), down'[n][i].id # None, down'[n][i].id \notin processes'
                       PROVE  Told(down'[n][i].id, down'[n], i)
            OBVIOUS
        <3>2. i # Len(down[n]) + 1
            BY <2>6, <2>7, <3>1
        <3>3. i \in DOMAIN down[n] /\ i \in Nat /\ i <= Len(down[n]) /\ down'[n][i] = down[n][i]
            BY <2>6, <3>2
        <3>4. CASE down[n][i].id = p
            BY <2>5, <3>3, <3>4
        <3>5. CASE down[n][i].id # p
            <4>1. Told(down[n][i].id, down[n], i)
                BY <1>1, <2>1, <3>1, <3>3, <3>5 DEF ExitsTold
            <4> QED BY <2>4, <3>3, <4>1
        <3> QED BY <3>4, <3>5
    <2>9. \A w \in Widgets :
            widgets[w].status = "open" /\ widgets[w].id # None /\ widgets[w].id \notin processes'
                => \/ widgets[w].title = "terminated" \/ widgets[w].call # "none"
                   \/ Told(widgets[w].id, down'[n], 0)
        <3>1. SUFFICES ASSUME NEW w \in Widgets, widgets[w].status = "open", widgets[w].id # None,
                              widgets[w].id \notin processes'
                       PROVE  widgets[w].title = "terminated" \/ widgets[w].call # "none" \/ Told(widgets[w].id, down'[n], 0)
            OBVIOUS
        <3>2. 0 \in Nat /\ 0 <= Len(down[n])
            BY <2>6
        <3>3. CASE widgets[w].id = p
            BY <2>5, <3>2, <3>3
        <3>4. CASE widgets[w].id # p
            <4>1. widgets[w].title = "terminated" \/ widgets[w].call # "none" \/ Told(widgets[w].id, down[n], 0)
                BY <1>1, <2>1, <3>1, <3>4 DEF ExitsTold
            <4> QED BY <2>4, <3>2, <4>1
        <3> QED BY <3>3, <3>4
    <2> QED BY <1>1, <2>8, <2>9 DEF ExitsTold
<1>13. OrphansExplained'
    <2>1. SUFFICES ASSUME NEW q \in processes, q # p, q \notin killed \union failed \union abandoned
                   PROVE  Known(q)'
        BY <1>1, <1>6 DEF OrphansExplained
    <2>2. Known(q)
        BY <1>1, <2>1 DEF OrphansExplained
    <2> QED BY <1>1, <1>7, <2>2 DEF Known
<1> QED BY <1>8, <1>9, <1>10, <1>11, <1>12, <1>13 DEF IInv

LEMMA ServerCloseKeeps ==
    ASSUME IInv, NEW s \in Sockets, ServerClose(s)
    PROVE  IInv'
<1>1. /\ Shapes /\ Owned /\ Conversations /\ Starts /\ ExitsTold /\ OrphansExplained
      /\ widgets' = widgets /\ closes' = closes /\ socket' = socket /\ down' = down
      /\ nextId' = nextId /\ client' = client /\ failed' = failed /\ processes' = processes /\ killed' = killed
      /\ served' = served \ {s} /\ up' = [up EXCEPT ![s] = << >>]
      /\ ~(socket.open /\ socket.number = s)
    BY DEF IInv, ServerClose
<1>2. up \in [Sockets -> Seq(Messages)] /\ << >> \in Seq(Messages) /\ ToSet(<< >>) = {}
    BY <1>1, Empty DEF Shapes
<1>3. /\ up' \in [Sockets -> Seq(Messages)] /\ up'[s] = << >> /\ \A t \in Sockets : t # s => up'[t] = up[t]
      /\ \A t \in Sockets : ToSet(up'[t]) \subseteq ToSet(up[t])
    BY <1>1, <1>2
<1>4. (socket.open => socket.number \in Sockets) /\ (socket.connected => socket.open)
    BY <1>1 DEF Shapes
<1>5. socket.open => up'[socket.number] = up[socket.number]
    BY <1>1, <1>3, <1>4
<1>6. Shapes'
    <2>1. \A t \in Sockets : t > socket.number => up'[t] = << >>
        BY <1>1, <1>3 DEF Shapes
    <2> QED BY <1>1, <1>3, <2>1 DEF Shapes
<1>7. Owned'
    <2>1. \A w \in Widgets : \A id \in Int : Names(w, id)' => Names(w, id)
        BY <1>1, <1>3 DEF Names
    <2> QED BY <1>1, <2>1 DEF Owned
<1>8. Conversations'
    <2>1. \A m : Means(m) => Means(m)'
        BY <1>1 DEF Means
    <2> QED BY <1>1, <1>5, <2>1 DEF Conversations
<1>9. Starts'
    BY <1>1, <1>4, <1>5 DEF Starts
<1>10. ExitsTold'
    BY <1>1 DEF ExitsTold
<1>11. OrphansExplained'
    <2>1. abandoned \subseteq abandoned'
        BY DEF ServerClose
    <2>2. SUFFICES ASSUME NEW q \in processes, q \notin killed \union failed \union abandoned'
                   PROVE  Known(q)'
        BY <1>1 DEF OrphansExplained
    <2>3. \A m \in ToSet(up[s]) : m.kind = "close" => m.id \in abandoned'
        <3>1. SUFFICES ASSUME NEW m \in ToSet(up[s]), m.kind = "close" PROVE m.id \in abandoned'
            OBVIOUS
        <3>2. PICK i \in DOMAIN up[s] : up[s][i] = m
            BY <1>2, Members
        <3> QED BY <3>1, <3>2 DEF ServerClose
    <2>4. Known(q)
        BY <1>1, <2>1, <2>2 DEF OrphansExplained
    <2>5. CASE \E t \in Sockets : \E m \in ToSet(up[t]) : m.kind = "close" /\ m.id = q
        <3>1. PICK t \in Sockets : \E m \in ToSet(up[t]) : m.kind = "close" /\ m.id = q
            BY <2>5
        <3>2. up'[t] = up[t]
            BY <1>3, <2>2, <2>3, <3>1
        <3> QED BY <3>1, <3>2 DEF Known
    <2> QED BY <1>1, <2>4, <2>5 DEF Known
<1> QED BY <1>6, <1>7, <1>8, <1>9, <1>10, <1>11 DEF IInv

----------------------------------------------------------------------------
(* Connections come and go, and the page is loaded again.                  *)

LEMMA ConnectKeeps ==
    ASSUME IInv, Connect
    PROVE  IInv'
<1>1. /\ Shapes /\ Owned /\ Conversations /\ Starts /\ ExitsTold /\ OrphansExplained
      /\ widgets' = widgets /\ closes' = closes /\ down' = down /\ abandoned' = abandoned
      /\ nextId' = nextId /\ client' = client /\ failed' = failed /\ processes' = processes /\ killed' = killed
      /\ ~socket.open /\ socket.number < MaxSockets
    BY DEF IInv, Connect
<1>2. socket.number \in Nat /\ up \in [Sockets -> Seq(Messages)] /\ down \in [Sockets -> Seq(Messages)]
    BY <1>1 DEF Shapes
<1>3. PICK n : n = socket.number + 1
    OBVIOUS
<1>4. n \in Sockets /\ n > socket.number /\ n \in Nat /\ n # socket.number
    BY <1>1, <1>2, <1>3, TerminalsAssumption DEF Sockets
<1>5. socket' = [number |-> n, open |-> TRUE, connected |-> FALSE]
    BY <1>3 DEF Connect
<1>6. socket'.number = n /\ socket'.open /\ ~socket'.connected /\ ~socket.connected
    BY <1>1, <1>5 DEF Shapes
<1>7. PICK m : m = Message("shell", CHOOSE w \in Widgets : TRUE, None)
    OBVIOUS
<1>8. m \in Messages /\ m.kind = "shell" /\ m.widget = First
    BY <1>7 DEF Message, Messages, First, None
<1>9. PICK opens \in {<<m>>, << >>} : up' = [up EXCEPT ![n] = opens] /\ served' = served \union {n}
    <2>1. CASE handler
        <3>1. up' = [up EXCEPT ![n] = <<m>>] /\ served' = served \union {n}
            BY <1>6, <1>7, <2>1 DEF Connect
        <3> QED BY <3>1
    <2>2. CASE ~handler
        <3>1. up' = [up EXCEPT ![n] = << >>] /\ served' = served \union {n}
            BY <1>6, <1>7, <2>2 DEF Connect
        <3> QED BY <3>1
    <2> QED BY <2>1, <2>2
<1>10. /\ opens \in Seq(Messages) /\ ToSet(opens) \subseteq {m} /\ opens \in {<<m>>, << >>}
       /\ up[n] = << >> /\ down[n] = << >> /\ ToSet(<< >>) = {} /\ DOMAIN << >> = {}
    <2>1. opens \in {<<m>>, << >>}
        OBVIOUS
    <2>2. opens \in Seq(Messages) /\ ToSet(opens) \subseteq {m}
        <3>1. <<m>> \in Seq(Messages) /\ ToSet(<<m>>) = {m}
            BY <1>8, One
        <3>2. << >> \in Seq(Messages) /\ ToSet(<< >>) = {}
            BY Empty
        <3> QED BY <2>1, <3>1, <3>2
    <2>3. up[n] = << >> /\ down[n] = << >>
        BY <1>1, <1>4 DEF Shapes
    <2>4. ToSet(<< >>) = {} /\ DOMAIN << >> = {}
        BY Empty
    <2> QED BY <2>1, <2>2, <2>3, <2>4
<1>11. /\ up' \in [Sockets -> Seq(Messages)] /\ up'[n] = opens
       /\ \A t \in Sockets : t # n => up'[t] = up[t]
       /\ \A t \in Sockets : ToSet(up[t]) \subseteq ToSet(up'[t]) /\ ToSet(up'[t]) \subseteq ToSet(up[t]) \union {m}
    BY <1>2, <1>4, <1>9, <1>10
<1>12. Shapes'
    <2>1. \A t \in Sockets : (t > n => up'[t] = << >> /\ t \notin served') /\ down'[t] = << >>
        <3>1. SUFFICES ASSUME NEW t \in Sockets
                       PROVE (t > n => up'[t] = << >> /\ t \notin served') /\ down'[t] = << >>
            OBVIOUS
        <3>2. down[t] = << >> /\ (t > socket.number => up[t] = << >> /\ t \notin served)
            BY <1>1 DEF Shapes
        <3>3. t > n => t > socket.number /\ t # n
            BY <1>2, <1>3, <3>1 DEF Sockets
        <3> QED BY <1>1, <1>9, <1>11, <3>2, <3>3
    <2>2. socket' \in [number : Nat, open : BOOLEAN, connected : BOOLEAN]
        BY <1>4, <1>5
    <2>3. nextId' \in Nat /\ processes' \subseteq 0 .. nextId' - 1
        BY <1>1 DEF Shapes
    <2>4. closes' \in Seq(Messages) /\ (\A o \in ToSet(closes') : o.kind = "close") /\ widgets' \in [Widgets -> WidgetType]
          /\ down' \in [Sockets -> Seq(Messages)]
        BY <1>1 DEF Shapes
    <2>5. n \in served'
        BY <1>9
    <2> QED BY <1>4, <1>6, <1>11, <2>1, <2>2, <2>3, <2>4, <2>5 DEF Shapes
<1>13. Owned'
    <2>1. \A w \in Widgets : \A id \in Int : Names(w, id)' => Names(w, id)
        BY <1>1, <1>8, <1>11 DEF Names
    <2> QED BY <1>1, <2>1 DEF Owned
<1>14. Conversations'
    <2>1. Means(m)'
        BY <1>6, <1>8 DEF Means, Greets, Asks, Answers
    <2>2. Once(opens) /\ Once(<< >>)
        BY <1>10 DEF Once
    <2> QED BY <1>1, <1>6, <1>10, <1>11, <2>1, <2>2 DEF Conversations
<1>15. Starts'
    BY <1>1, <1>6 DEF Starts
<1>16. ExitsTold'
    BY <1>6 DEF ExitsTold
<1>17. OrphansExplained'
    BY <1>1, <1>11 DEF OrphansExplained, Known
<1> QED BY <1>12, <1>13, <1>14, <1>15, <1>16, <1>17 DEF IInv

\* The ids that are lost with what the backend has sent.
LEMMA UnnamedAll ==
    ASSUME NEW s \in Seq(Messages), NEW m \in ToSet(s), m.kind = "created", m.id # None
    PROVE  m.id \in Unnamed(s)
<1>1. PICK i \in DOMAIN s : s[i] = m
    BY Members
<1> QED BY <1>1 DEF Unnamed

LEMMA CloseKeeps ==
    ASSUME IInv, Close
    PROVE  IInv'
<1>1. /\ Shapes /\ Owned /\ Starts /\ OrphansExplained
      /\ closes' = closes /\ up' = up /\ served' = served
      /\ nextId' = nextId /\ client' = client /\ failed' = failed /\ processes' = processes /\ killed' = killed
      /\ socket.open /\ socket' = [socket EXCEPT !.open = FALSE, !.connected = FALSE]
      /\ down' = [down EXCEPT ![socket.number] = << >>]
      /\ abandoned' = abandoned \union Unnamed(down[socket.number])
    BY DEF IInv, Close
<1>2. /\ down \in [Sockets -> Seq(Messages)] /\ << >> \in Seq(Messages) /\ ToSet(<< >>) = {}
      /\ widgets \in [Widgets -> WidgetType] /\ socket \in [number : Nat, open : BOOLEAN, connected : BOOLEAN]
    BY <1>1, Empty DEF Shapes
<1>3. socket.number \in Sockets
    BY <1>1 DEF Shapes
<1>4. /\ socket' \in [number : Nat, open : BOOLEAN, connected : BOOLEAN]
      /\ socket'.number = socket.number /\ ~socket'.open /\ ~socket'.connected
    BY <1>1, <1>2
<1>5. /\ down' \in [Sockets -> Seq(Messages)] /\ down'[socket.number] = << >>
      /\ \A t \in Sockets : t # socket.number => down'[t] = down[t]
      /\ \A t \in Sockets : ToSet(down'[t]) \subseteq ToSet(down[t])
    BY <1>1, <1>2, <1>3
<1>6. widgets' \in [Widgets -> WidgetType]
    <2>1. SUFFICES ASSUME NEW w \in Widgets PROVE widgets'[w] \in WidgetType
        BY DEF Close
    <2>2. widgets[w] \in WidgetType
        BY <1>2
    <2>3. (widgets[w].reopen \/ (socket.connected /\ widgets[w].status = "open")) \in BOOLEAN
        BY Zenon
    <2>4. widgets'[w] = [widgets[w] EXCEPT
                        !.call = IF widgets[w].sent THEN "none" ELSE @,
                        !.sent = FALSE,
                        !.reopen = @ \/ (socket.connected /\ widgets[w].status = "open"),
                        !.channel = "none"]
        BY DEF Close
    <2> QED BY <2>2, <2>3, <2>4 DEF WidgetType
<1>7. \A w \in Widgets :
        /\ widgets'[w].id = widgets[w].id /\ widgets'[w].status = widgets[w].status
        /\ widgets'[w].call = IF widgets[w].sent THEN "none" ELSE widgets[w].call
    <2>1. SUFFICES ASSUME NEW w \in Widgets
                   PROVE  /\ widgets'[w].id = widgets[w].id /\ widgets'[w].status = widgets[w].status
                          /\ widgets'[w].call = IF widgets[w].sent THEN "none" ELSE widgets[w].call
        OBVIOUS
    <2>2. widgets[w] \in WidgetType
        BY <1>2
    <2>3. widgets'[w] = [widgets[w] EXCEPT
                        !.call = IF widgets[w].sent THEN "none" ELSE @,
                        !.sent = FALSE,
                        !.reopen = @ \/ (socket.connected /\ widgets[w].status = "open"),
                        !.channel = "none"]
        BY DEF Close
    <2> QED BY <2>2, <2>3 DEF WidgetType
<1>8. \A w \in Widgets :
        /\ ~widgets'[w].sent
        /\ widgets'[w].reopen <=> widgets[w].reopen \/ (socket.connected /\ widgets[w].status = "open")
    <2>1. SUFFICES ASSUME NEW w \in Widgets
                   PROVE  /\ ~widgets'[w].sent
                          /\ widgets'[w].reopen <=> widgets[w].reopen \/ (socket.connected /\ widgets[w].status = "open")
        OBVIOUS
    <2>2. PICK b : b = (widgets[w].reopen \/ (socket.connected /\ widgets[w].status = "open"))
        OBVIOUS
    <2>3. widgets[w] \in WidgetType
        BY <1>2
    <2>4. widgets'[w] = [widgets[w] EXCEPT
                        !.call = IF widgets[w].sent THEN "none" ELSE @,
                        !.sent = FALSE, !.reopen = b, !.channel = "none"]
        BY <2>2 DEF Close
    <2>5. widgets'[w].sent = FALSE /\ widgets'[w].reopen = b
        BY <2>3, <2>4 DEF WidgetType
    <2> QED BY <2>2, <2>5
<1>9. Shapes'
    <2>1. \A t \in Sockets : /\ t > socket.number => up'[t] = << >> /\ t \notin served'
                             /\ down'[t] = << >>
        BY <1>1, <1>5 DEF Shapes
    <2>2. nextId' \in Nat /\ processes' \subseteq 0 .. nextId' - 1
        BY <1>1 DEF Shapes
    <2>3. closes' \in Seq(Messages) /\ (\A o \in ToSet(closes') : o.kind = "close") /\ up' \in [Sockets -> Seq(Messages)]
        BY <1>1 DEF Shapes
    <2> QED BY <1>4, <1>5, <1>6, <2>1, <2>2, <2>3 DEF Shapes
<1>10. Owned'
    <2>1. \A w \in Widgets : \A id \in Int : Names(w, id)' => Names(w, id)
        BY <1>1, <1>5, <1>7 DEF Names
    <2> QED BY <1>1, <2>1 DEF Owned
<1>11. Conversations' /\ ExitsTold'
    BY <1>4 DEF Conversations, ExitsTold
<1>12. Starts'
    <2>1. SUFFICES ASSUME NEW w \in Widgets
                   PROVE  /\ widgets[w].status = "none" => widgets'[w].call = "none" /\ ~widgets'[w].reopen
                          /\ widgets'[w].call = "create" => widgets[w].id \notin processes
                          /\ widgets[w].status = "open" /\ widgets[w].id # None => widgets'[w].reopen \/ widgets'[w].call # "none"
        BY <1>1, <1>4, <1>7, <1>8 DEF Starts
    <2>2. /\ widgets[w].status = "none" => widgets[w].call = "none" /\ ~widgets[w].reopen
          /\ widgets[w].call = "create" => widgets[w].id \notin processes
          /\ widgets[w].status = "open" /\ widgets[w].id # None /\ ~socket.connected
                => widgets[w].reopen \/ widgets[w].call # "none"
          /\ widgets[w].sent => socket.connected
        BY <1>1 DEF Starts
    <2> QED BY <1>7, <1>8, <2>2
<1>13. OrphansExplained'
    <2>1. SUFFICES ASSUME NEW q \in processes, q \notin killed \union failed \union abandoned'
                   PROVE  Known(q)'
        BY <1>1 DEF OrphansExplained
    <2>2. Known(q)
        BY <1>1, <2>1 DEF OrphansExplained
    <2>3. q # None
        BY <1>1, <2>1 DEF None, Shapes
    <2>4. CASE \E t \in Sockets : \E m \in ToSet(down[t]) : m.kind = "created" /\ m.id = q
        <3>1. PICK t \in Sockets : \E m \in ToSet(down[t]) : m.kind = "created" /\ m.id = q
            BY <2>4
        <3>2. PICK m \in ToSet(down[t]) : m.kind = "created" /\ m.id = q
            BY <3>1
        <3>3. down[t] \in Seq(Messages)
            BY <1>2
        <3>4. m.id \in Unnamed(down[t])
            BY <2>3, <3>2, <3>3, UnnamedAll
        <3>5. down'[t] = down[t]
            BY <1>1, <1>5, <2>1, <3>2, <3>4
        <3> QED BY <3>1, <3>5 DEF Known
    <2> QED BY <1>1, <1>7, <2>2, <2>4 DEF Known
<1> QED BY <1>9, <1>10, <1>11, <1>12, <1>13 DEF IInv

LEMMA ReloadKeeps ==
    ASSUME IInv, Reload
    PROVE  IInv'
<1>1. /\ Shapes /\ Owned /\ Starts /\ OrphansExplained
      /\ closes' = << >> /\ up' = up /\ served' = served
      /\ nextId' = nextId /\ client' = client /\ failed' = failed /\ processes' = processes /\ killed' = killed
      /\ socket' = [socket EXCEPT !.open = FALSE, !.connected = FALSE]
      /\ down' = IF socket.open THEN [down EXCEPT ![socket.number] = << >>] ELSE down
      /\ abandoned' = abandoned \union {closes[i].id : i \in DOMAIN closes}
                              \union (IF socket.open THEN Unnamed(down[socket.number]) ELSE {})
    BY DEF IInv, Reload
<1>2. /\ down \in [Sockets -> Seq(Messages)] /\ << >> \in Seq(Messages) /\ ToSet(<< >>) = {}
      /\ widgets \in [Widgets -> WidgetType] /\ socket \in [number : Nat, open : BOOLEAN, connected : BOOLEAN]
      /\ closes \in Seq(Messages)
    BY <1>1, Empty DEF Shapes
<1>3. socket.open => socket.number \in Sockets
    BY <1>1 DEF Shapes
<1>4. /\ socket' \in [number : Nat, open : BOOLEAN, connected : BOOLEAN]
      /\ socket'.number = socket.number /\ ~socket'.open /\ ~socket'.connected
    BY <1>1, <1>2
<1>5. /\ down' \in [Sockets -> Seq(Messages)] /\ (socket.open => down'[socket.number] = << >>)
      /\ \A t \in Sockets : t # socket.number \/ ~socket.open => down'[t] = down[t]
      /\ \A t \in Sockets : ToSet(down'[t]) \subseteq ToSet(down[t])
    <2>1. CASE socket.open
        BY <1>1, <1>2, <1>3, <2>1
    <2>2. CASE ~socket.open
        BY <1>1, <1>2, <2>2
    <2> QED BY <2>1, <2>2
<1>6. /\ widgets' \in [Widgets -> WidgetType]
      /\ \A w \in Widgets :
            /\ widgets'[w].id \in {None, widgets[w].id} /\ widgets'[w].status = widgets[w].status
            /\ ~widgets'[w].sent
            /\ widgets[w].status = "open" =>
                  widgets'[w].id = widgets[w].id /\ widgets'[w].call = IF widgets[w].id = None THEN "create" ELSE "attach"
            /\ widgets[w].status # "open" => widgets'[w].call = "none" /\ ~widgets'[w].reopen
    <2>1. SUFFICES ASSUME NEW w \in Widgets
                   PROVE  /\ widgets'[w] \in WidgetType
                          /\ widgets'[w].id \in {None, widgets[w].id} /\ widgets'[w].status = widgets[w].status
                          /\ ~widgets'[w].sent
                          /\ widgets[w].status = "open" =>
                                widgets'[w].id = widgets[w].id /\ widgets'[w].call = IF widgets[w].id = None THEN "create" ELSE "attach"
                          /\ widgets[w].status # "open" => widgets'[w].call = "none" /\ ~widgets'[w].reopen
        BY DEF Reload
    <2>2. widgets[w] \in WidgetType
        BY <1>2
    <2>3. CASE widgets[w].status = "open"
        <3>1. widgets'[w] = Started([NewWidget EXCEPT !.status = "open", !.id = widgets[w].id, !.title = widgets[w].title])
            BY <2>3 DEF Reload
        <3> QED BY <2>2, <2>3, <3>1 DEF WidgetType, NewWidget, Started, None
    <2>4. CASE widgets[w].status # "open"
        <3>1. widgets'[w] = [NewWidget EXCEPT !.status = widgets[w].status]
            BY <2>4 DEF Reload
        <3>2. widgets'[w] = [status |-> widgets[w].status, id |-> None, call |-> "none", sent |-> FALSE,
                             reopen |-> FALSE, channel |-> "none", title |-> "shell"]
            BY <3>1 DEF NewWidget
        <3>3. widgets[w].status \in {"none", "open", "disposed"}
            BY <2>2 DEF WidgetType
        <3>4. widgets'[w] \in WidgetType
            BY <3>2, <3>3 DEF WidgetType, None
        <3>5. /\ widgets'[w].id = None /\ widgets'[w].status = widgets[w].status /\ widgets'[w].sent = FALSE
              /\ widgets'[w].call = "none" /\ widgets'[w].reopen = FALSE
            BY <3>2
        <3> QED BY <2>4, <3>4, <3>5
    <2> QED BY <2>3, <2>4
<1>7. Shapes'
    <2>1. \A t \in Sockets : /\ t > socket.number => up'[t] = << >> /\ t \notin served'
                             /\ down'[t] = << >>
        BY <1>1, <1>5 DEF Shapes
    <2>2. nextId' \in Nat /\ processes' \subseteq 0 .. nextId' - 1
        BY <1>1 DEF Shapes
    <2>3. closes' \in Seq(Messages) /\ ToSet(closes') = {} /\ up' \in [Sockets -> Seq(Messages)]
        BY <1>1, <1>2 DEF Shapes
    <2> QED BY <1>4, <1>5, <1>6, <2>1, <2>2, <2>3 DEF Shapes
<1>8. Owned'
    <2>1. ASSUME NEW w \in Widgets, NEW id \in Int, Names(w, id)', id # None PROVE Names(w, id)
        <3>1. widgets'[w].id = id => widgets[w].id = id
            BY <1>6, <2>1
        <3> QED BY <1>1, <1>5, <2>1, <3>1 DEF Names
    <2> QED BY <1>1, <2>1 DEF Owned
<1>9. Conversations' /\ ExitsTold'
    BY <1>4 DEF Conversations, ExitsTold
<1>10. Starts'
    <2>1. SUFFICES ASSUME NEW w \in Widgets
                   PROVE  /\ widgets'[w].status = "none" => widgets'[w].call = "none" /\ ~widgets'[w].reopen
                          /\ widgets'[w].call = "create" => widgets'[w].id \notin processes
                          /\ widgets'[w].status = "open" /\ widgets'[w].id # None => widgets'[w].call # "none"
        BY <1>1, <1>4, <1>6 DEF Starts
    <2>2. None \notin processes
        BY <1>1 DEF None, Shapes
    <2> QED BY <1>6, <2>2
<1>11. OrphansExplained'
    <2>1. SUFFICES ASSUME NEW q \in processes, q \notin killed \union failed \union abandoned'
                   PROVE  Known(q)'
        BY <1>1 DEF OrphansExplained
    <2>2. Known(q)
        BY <1>1, <2>1 DEF OrphansExplained
    <2>3. q # None
        BY <1>1, <2>1 DEF None, Shapes
    <2>4. CASE \E t \in Sockets : \E m \in ToSet(down[t]) : m.kind = "created" /\ m.id = q
        <3>1. PICK t \in Sockets : \E m \in ToSet(down[t]) : m.kind = "created" /\ m.id = q
            BY <2>4
        <3>2. PICK m \in ToSet(down[t]) : m.kind = "created" /\ m.id = q
            BY <3>1
        <3>3. down[t] \in Seq(Messages)
            BY <1>2
        <3>4. m.id \in Unnamed(down[t])
            BY <2>3, <3>2, <3>3, UnnamedAll
        <3>5. down'[t] = down[t]
            BY <1>1, <1>5, <2>1, <3>2, <3>4
        <3> QED BY <3>1, <3>5 DEF Known
    <2>5. CASE \E w \in Widgets : widgets[w].status = "open" /\ widgets[w].id = q
        BY <1>6, <2>5 DEF Known
    <2>6. CASE \E m \in ToSet(closes) : m.id = q
        <3>1. PICK m \in ToSet(closes) : m.id = q
            BY <2>6
        <3>2. PICK i \in DOMAIN closes : closes[i] = m
            BY <1>2, Members
        <3>3. q \in {closes[j].id : j \in DOMAIN closes}
            BY <3>1, <3>2
        <3> QED BY <1>1, <2>1, <3>3
    <2>7. CASE \E t \in Sockets : \E m \in ToSet(up[t]) : m.kind = "close" /\ m.id = q
        BY <1>1, <2>7 DEF Known
    <2> QED BY <2>2, <2>4, <2>5, <2>6, <2>7 DEF Known
<1> QED BY <1>7, <1>8, <1>9, <1>10, <1>11 DEF IInv

----------------------------------------------------------------------------
(* The page sends requests.                                                *)

\* The starts that are sent join the talks under way: their widgets had none.
StartsJoin(ws, order, a, b) ==
    /\ Shapes /\ Starts /\ Conversations
    /\ socket.open /\ socket'.open /\ socket'.connected /\ socket'.number = socket.number
    /\ processes' = processes
    /\ ws \in [Widgets -> WidgetType] /\ order \in SetToSeqs(Requests(ws))
    /\ a \in Seq(Messages) /\ b \in Seq(Messages)
    /\ \/ a = order /\ \A m \in ToSet(b) : m.kind = "close"
       \/ b = order /\ \A m \in ToSet(a) : m.kind = "close"
    /\ up' = [up EXCEPT ![socket.number] = @ \o a \o b]
    /\ ToSet(down'[socket.number]) \subseteq ToSet(down[socket.number]) /\ Once(down'[socket.number])
    /\ \A m \in ToSet(up[socket.number]) \union ToSet(down'[socket.number]) : ~Greets(m)
    /\ \A w \in Widgets : /\ widgets'[w].call = ws[w].call /\ widgets'[w].id = ws[w].id
                          /\ widgets'[w].sent <=> ws[w].call # "none"
                          /\ ws[w].sent <=> widgets[w].sent
                          /\ widgets[w].sent => ws[w].call = widgets[w].call /\ ws[w].id = widgets[w].id

LEMMA StartsSent ==
    ASSUME NEW ws, NEW order, NEW a, NEW b, StartsJoin(ws, order, a, b)
    PROVE  /\ Conversations' /\ up' \in [Sockets -> Seq(Messages)]
           /\ ToSet(up'[socket.number]) = ToSet(up[socket.number]) \union ToSet(a) \union ToSet(b)
           /\ \A t \in Sockets : t # socket.number => up'[t] = up[t]
           /\ \A m \in ToSet(a) \union ToSet(b) :
                m.kind = "attach" => m.widget \in Widgets /\ m.id = ws[m.widget].id
           /\ \A w \in Widgets : ws[w].call # "none" /\ ~ws[w].sent =>
                \E m \in ToSet(up'[socket.number]) : Asks(m) /\ m.widget = w
<1> USE DEF StartsJoin
<1> DEFINE n == socket.number
<1>1. n \in Sockets /\ up \in [Sockets -> Seq(Messages)]
    BY DEF Shapes
<1>2. /\ order \in Seq(Messages) /\ Once(order)
      /\ \A m \in ToSet(order) :
           /\ m \in Messages /\ Asks(m) /\ m.widget \in Widgets /\ ~ws[m.widget].sent
           /\ m.kind = ws[m.widget].call /\ m.id = ws[m.widget].id
      /\ \A w \in Widgets : ws[w].call # "none" /\ ~ws[w].sent =>
           \E m \in ToSet(order) : Asks(m) /\ m.widget = w
    BY Requested
<1>3. \A m : m.kind = "close" => ~Talks(m)
    BY DEF Talks, Greets, Asks, Answers
<1>4. /\ Once(a) /\ Once(b) /\ ((\A m \in ToSet(a) : ~Talks(m)) \/ (\A m \in ToSet(b) : ~Talks(m)))
      /\ \A m \in ToSet(a) \union ToSet(b) : m \in ToSet(order) \/ m.kind = "close"
      /\ ToSet(order) \subseteq ToSet(a) \union ToSet(b)
    BY <1>2, <1>3, OnceQuiet
<1>5. /\ \A m \in ToSet(up[n]) \union ToSet(down[n]) : Means(m)
      /\ Once(up[n])
      /\ \A m \in ToSet(up[n]), o \in ToSet(down[n]) : ~SameTalk(m, o)
    BY DEF Conversations
<1>6. \A m \in ToSet(up[n]) \union ToSet(down'[n]), o \in ToSet(a) \union ToSet(b) :
        ~SameTalk(m, o) /\ ~SameTalk(o, m)
    <2>1. SUFFICES ASSUME NEW m \in ToSet(up[n]) \union ToSet(down'[n]), NEW o \in ToSet(order),
                          m.widget = o.widget, Talks(m)
                   PROVE  FALSE
        BY <1>3, <1>4 DEF SameTalk
    <2>2. Asks(m) \/ Answers(m)
        BY <2>1 DEF Talks
    <2>3. Means(m)
        BY <1>5
    <2>4. widgets[m.widget].sent /\ m.widget \in Widgets
        BY <2>2, <2>3 DEF Means
    <2> QED BY <1>2, <2>1, <2>4
<1>7. up[n] \in Seq(Messages)
    BY <1>1
<1>8. /\ up[n] \o a \o b \in Seq(Messages) /\ Once(up[n] \o a \o b)
      /\ ToSet(up[n] \o a \o b) = ToSet(up[n]) \union ToSet(a) \union ToSet(b)
    BY <1>4, <1>5, <1>6, <1>7, OnceSent
<1>9. PICK u : u = up[n] \o a \o b
    OBVIOUS
<1>10. up' = [up EXCEPT ![n] = u] /\ u \in Seq(Messages)
    BY <1>8, <1>9
<1>11. /\ up' \in [Sockets -> Seq(Messages)] /\ up'[n] = u
       /\ \A t \in Sockets : t # n => up'[t] = up[t]
    BY <1>1, <1>10
<1>12. ToSet(up'[n]) = ToSet(up[n]) \union ToSet(a) \union ToSet(b) /\ Once(up'[n])
    BY <1>8, <1>9, <1>11
<1>13. \A m \in ToSet(up[n]) \union ToSet(down'[n]) : Means(m)'
    <2>1. SUFFICES ASSUME NEW m \in ToSet(up[n]) \union ToSet(down'[n]) PROVE Means(m)'
        OBVIOUS
    <2>2. Means(m) /\ ~Greets(m)
        BY <1>5
    <2>3. CASE Asks(m) \/ Answers(m)
        <3>1. m.widget \in Widgets /\ widgets[m.widget].sent
            BY <2>2, <2>3 DEF Means
        <3>2. /\ widgets'[m.widget].call = widgets[m.widget].call /\ widgets'[m.widget].id = widgets[m.widget].id
              /\ widgets[m.widget].call # "none"
            BY <3>1 DEF Starts
        <3>3. widgets'[m.widget].sent
            BY <3>1, <3>2
        <3> QED BY <2>2, <3>1, <3>2, <3>3 DEF Means
    <2>4. CASE ~(Asks(m) \/ Answers(m))
        BY <2>2, <2>4 DEF Means, Asks, Answers
    <2> QED BY <2>3, <2>4
<1>14. \A m \in ToSet(a) \union ToSet(b) : Means(m)'
    <2>1. SUFFICES ASSUME NEW m \in ToSet(a) \union ToSet(b) PROVE Means(m)'
        OBVIOUS
    <2>2. CASE m.kind = "close"
        BY <2>2 DEF Means, Greets, Asks, Answers
    <2>3. CASE m \in ToSet(order)
        <3>1. Asks(m) /\ m.widget \in Widgets /\ m.kind = ws[m.widget].call /\ m.id = ws[m.widget].id
            BY <1>2, <2>3
        <3>2. m.kind \in {"create", "attach"}
            BY <3>1 DEF Asks
        <3>3. widgets'[m.widget].call = m.kind /\ widgets'[m.widget].id = m.id
            BY <3>1
        <3>4. widgets'[m.widget].sent
            BY <3>1, <3>2
        <3> QED BY <3>1, <3>2, <3>3, <3>4 DEF Means, Greets, Answers
    <2> QED BY <1>4, <2>2, <2>3
<1>15. Conversations'
    BY <1>5, <1>6, <1>12, <1>13, <1>14 DEF Conversations
<1>16. \A m \in ToSet(a) \union ToSet(b) : m.kind = "attach" => m.widget \in Widgets /\ m.id = ws[m.widget].id
    BY <1>2, <1>4
<1>17. \A w \in Widgets : ws[w].call # "none" /\ ~ws[w].sent => \E m \in ToSet(up'[n]) : Asks(m) /\ m.widget = w
    BY <1>2, <1>4, <1>12
<1> QED BY <1>11, <1>12, <1>15, <1>16, <1>17

\* A step of the page that gives its widgets the state ws and makes some calls.
SendInputs(ws, calls) ==
    /\ ws \in [Widgets -> WidgetType] /\ calls \in Seq(Messages)
    /\ \A m \in ToSet(calls) : m.kind = "close"
    /\ Send(ws, calls)
    /\ UNCHANGED <<processes, killed, failed, nextId, client, socket, served, down, reloads, abandoned>>
    /\ \A w \in Widgets : /\ ws[w].sent <=> widgets[w].sent
                          /\ widgets[w].sent => ws[w].call = widgets[w].call /\ ws[w].id = widgets[w].id
                          /\ ws[w].id \in {None, widgets[w].id}
    /\ \A w \in Widgets : \/ ws[w] = widgets[w]
                          \/ /\ ws[w].status # "none"
                             /\ ws[w].call = "create" => ws[w].id \notin processes
                             /\ ws[w].status = "open" => ws[w].call # "none"
    /\ \A p \in processes : (\E w \in Widgets : widgets[w].status = "open" /\ widgets[w].id = p) =>
          \/ \E w \in Widgets : ws[w].status = "open" /\ ws[w].id = p
          \/ \E m \in ToSet(calls) : m.kind = "close" /\ m.id = p

LEMMA SendKeeps ==
    ASSUME IInv, NEW ws, NEW calls, SendInputs(ws, calls)
    PROVE  IInv'
<1> USE DEF SendInputs
<1> DEFINE n == socket.number
<1>1. /\ Shapes /\ Owned /\ Conversations /\ Starts /\ ExitsTold /\ OrphansExplained
      /\ processes' = processes /\ killed' = killed /\ failed' = failed /\ nextId' = nextId /\ client' = client
      /\ socket' = socket /\ served' = served /\ down' = down /\ abandoned' = abandoned
    BY DEF IInv
<1>2. /\ up \in [Sockets -> Seq(Messages)] /\ closes \in Seq(Messages) /\ \A m \in ToSet(closes) : m.kind = "close"
    BY <1>1 DEF Shapes
<1>3. socket.connected => socket.open /\ n \in Sockets /\ closes = << >>
    BY <1>1 DEF Shapes
<1>4. None \notin processes
    BY <1>1 DEF Shapes, None
<1>5. PICK order, more :
        /\ socket.connected =>
            /\ order \in SetToSeqs(Requests(ws)) /\ up' = [up EXCEPT ![n] = @ \o order \o calls]
            /\ widgets' = [w \in Widgets |-> [ws[w] EXCEPT !.sent = ws[w].call # "none"]]
            /\ closes' = closes
            /\ more = ToSet(order) \union ToSet(calls)
        /\ ~socket.connected => widgets' = ws /\ closes' = closes \o calls /\ up' = up /\ more = {}
    <2>1. CASE socket.connected
        <3>1. PICK order \in SetToSeqs(Requests(ws)) : up' = [up EXCEPT ![n] = @ \o order \o calls]
            BY <2>1 DEF Send
        <3>2. /\ widgets' = [w \in Widgets |-> [ws[w] EXCEPT !.sent = ws[w].call # "none"]]
              /\ closes' = closes
            BY <2>1 DEF Send
        <3> QED BY <2>1, <3>1, <3>2
    <2>2. CASE ~socket.connected
        BY <2>2 DEF Send
    <2> QED BY <2>1, <2>2
<1>6. \A w \in Widgets :
        /\ widgets'[w] \in WidgetType
        /\ widgets'[w].call = ws[w].call /\ widgets'[w].id = ws[w].id /\ widgets'[w].status = ws[w].status
        /\ widgets'[w].title = ws[w].title /\ widgets'[w].reopen = ws[w].reopen
        /\ widgets'[w].sent = IF socket.connected THEN ws[w].call # "none" ELSE ws[w].sent
    <2>1. SUFFICES ASSUME NEW w \in Widgets
                   PROVE  /\ widgets'[w] \in WidgetType
                          /\ widgets'[w].call = ws[w].call /\ widgets'[w].id = ws[w].id /\ widgets'[w].status = ws[w].status
                          /\ widgets'[w].title = ws[w].title /\ widgets'[w].reopen = ws[w].reopen
                          /\ widgets'[w].sent = IF socket.connected THEN ws[w].call # "none" ELSE ws[w].sent
        OBVIOUS
    <2>2. ws[w] \in WidgetType
        OBVIOUS
    <2>3. CASE socket.connected
        <3>1. PICK b \in BOOLEAN : b = (ws[w].call # "none")
            OBVIOUS
        <3>2. widgets'[w] = [ws[w] EXCEPT !.sent = b]
            BY <1>5, <2>3, <3>1
        <3>3. /\ widgets'[w] \in WidgetType
              /\ widgets'[w].call = ws[w].call /\ widgets'[w].id = ws[w].id /\ widgets'[w].status = ws[w].status
              /\ widgets'[w].title = ws[w].title /\ widgets'[w].reopen = ws[w].reopen /\ widgets'[w].sent = b
            BY <2>2, <3>2 DEF WidgetType
        <3> QED BY <2>3, <3>1, <3>3
    <2>4. CASE ~socket.connected
        <3>1. widgets'[w] = ws[w]
            BY <1>5, <2>4
        <3> QED BY <2>2, <2>4, <3>1
    <2> QED BY <2>3, <2>4
<1>7. widgets' \in [Widgets -> WidgetType]
    <2>1. widgets' = [w \in Widgets |-> widgets'[w]]
        BY <1>5
    <2> QED BY <1>6, <2>1
<1>8. /\ Conversations' /\ up' \in [Sockets -> Seq(Messages)]
      /\ socket.connected => ToSet(up'[n]) = ToSet(up[n]) \union more
      /\ \A t \in Sockets : t # n \/ ~socket.connected => up'[t] = up[t]
      /\ \A m \in more : m.kind = "attach" => m.widget \in Widgets /\ m.id = ws[m.widget].id
      /\ socket.connected => \A w \in Widgets : ws[w].call # "none" /\ ~ws[w].sent =>
                \E m \in ToSet(up'[n]) : Asks(m) /\ m.widget = w
    <2>1. CASE socket.connected
        <3>1. /\ \A m \in ToSet(up[n]) \union ToSet(down[n]) : Means(m)
              /\ Once(down[n])
            BY <1>1, <1>3, <2>1 DEF Conversations
        <3>2. \A m \in ToSet(up[n]) \union ToSet(down[n]) : ~Greets(m)
            BY <2>1, <3>1 DEF Means
        <3>3. order \in SetToSeqs(Requests(ws)) /\ up' = [up EXCEPT ![n] = @ \o order \o calls]
              /\ more = ToSet(order) \union ToSet(calls)
            BY <1>5, <2>1
        <3>4. order \in Seq(Messages)
            BY <3>3, Requested
        <3>5. socket.open /\ socket'.open /\ socket'.number = n /\ socket'.connected
            BY <1>1, <1>3, <2>1
        <3>6. \A w \in Widgets : /\ widgets'[w].call = ws[w].call /\ widgets'[w].id = ws[w].id
                                 /\ widgets'[w].sent <=> ws[w].call # "none"
                                 /\ ws[w].sent <=> widgets[w].sent
                                 /\ widgets[w].sent => ws[w].call = widgets[w].call /\ ws[w].id = widgets[w].id
            BY <1>6, <2>1
        <3>9. Shapes /\ Starts /\ Conversations /\ processes' = processes
            BY <1>1
        <3>7. ToSet(down'[n]) \subseteq ToSet(down[n]) /\ Once(down'[n])
              /\ \A m \in ToSet(up[n]) \union ToSet(down'[n]) : ~Greets(m)
            BY <1>1, <3>1, <3>2
        <3>10. StartsJoin(ws, order, order, calls)
            BY <3>3, <3>4, <3>5, <3>6, <3>7, <3>9 DEF StartsJoin
        <3>8. /\ Conversations' /\ up' \in [Sockets -> Seq(Messages)]
              /\ ToSet(up'[n]) = ToSet(up[n]) \union ToSet(order) \union ToSet(calls)
              /\ \A t \in Sockets : t # n => up'[t] = up[t]
              /\ \A m \in ToSet(order) \union ToSet(calls) :
                   m.kind = "attach" => m.widget \in Widgets /\ m.id = ws[m.widget].id
              /\ \A w \in Widgets : ws[w].call # "none" /\ ~ws[w].sent =>
                   \E m \in ToSet(up'[n]) : Asks(m) /\ m.widget = w
            BY <3>10, StartsSent
        <3> QED BY <2>1, <3>3, <3>8
    <2>2. CASE ~socket.connected
        <3>1. up' = up /\ more = {}
            BY <1>5, <2>2
        <3>2. \A m : Means(m) => Means(m)'
            <4>1. SUFFICES ASSUME NEW m, Means(m) PROVE Means(m)'
                OBVIOUS
            <4>2. ~(Asks(m) \/ Answers(m))
                BY <1>1, <2>2, <4>1 DEF Means, Starts
            <4> QED BY <1>1, <4>1, <4>2 DEF Means, Asks, Answers
        <3> QED BY <1>1, <1>2, <2>2, <3>1, <3>2 DEF Conversations
    <2> QED BY <2>1, <2>2
<1>9. \A t \in Sockets : ToSet(up[t]) \subseteq ToSet(up'[t]) /\ ToSet(up'[t]) \subseteq ToSet(up[t]) \union more
    BY <1>8
<1>10. /\ closes' \in Seq(Messages) /\ (\A m \in ToSet(closes') : m.kind = "close") /\ ToSet(closes) \subseteq ToSet(closes')
       /\ socket.connected => closes' = << >>
       /\ ~socket.connected => ToSet(closes') = ToSet(closes) \union ToSet(calls)
    <2>1. CASE socket.connected
        <3>1. closes' = closes
            BY <1>5, <2>1
        <3> QED BY <1>2, <1>3, <2>1, <3>1
    <2>2. CASE ~socket.connected
        <3>1. closes' = closes \o calls
            BY <1>5, <2>2
        <3>2. closes \o calls \in Seq(Messages) /\ ToSet(closes \o calls) = ToSet(closes) \union ToSet(calls)
            BY <1>2, Joined
        <3> QED BY <1>2, <2>2, <3>1, <3>2
    <2> QED BY <2>1, <2>2
<1>11. Shapes'
    <2>1. \A t \in Sockets : t > n => up'[t] = << >>
        <3>1. SUFFICES ASSUME NEW t \in Sockets, t > n PROVE up'[t] = << >>
            OBVIOUS
        <3>2. t # n
            BY <1>1, <3>1 DEF Shapes, Sockets
        <3> QED BY <1>1, <1>8, <3>1, <3>2 DEF Shapes
    <2>2. nextId' \in Nat /\ processes' \subseteq 0 .. nextId' - 1
        BY <1>1 DEF Shapes
    <2>3. \A t \in Sockets : (t > n => t \notin served) /\ (t # n \/ ~socket.open => down[t] = << >>)
        BY <1>1 DEF Shapes
    <2>4. /\ socket \in [number : Nat, open : BOOLEAN, connected : BOOLEAN]
          /\ socket.open => n \in Sockets /\ n \in served
          /\ down \in [Sockets -> Seq(Messages)]
        BY <1>1 DEF Shapes
    <2>5. socket.connected => socket.open /\ closes' = << >>
        BY <1>3, <1>10
    <2> QED BY <1>1, <1>7, <1>8, <1>10, <2>1, <2>2, <2>3, <2>4, <2>5 DEF Shapes
<1>12. Owned'
    <2>1. ASSUME NEW w \in Widgets, NEW id \in Int, Names(w, id)', id # None PROVE Names(w, id)
        <3>1. ws[w].id = id => Names(w, id)
            BY <2>1 DEF Names
        <3>2. CASE widgets'[w].id = id
            BY <1>6, <3>1, <3>2
        <3>3. CASE \E t \in Sockets : \E m \in ToSet(up'[t]) : m.kind = "attach" /\ m.widget = w /\ m.id = id
            <4>1. PICK t \in Sockets : \E m \in ToSet(up'[t]) : m.kind = "attach" /\ m.widget = w /\ m.id = id
                BY <3>3
            <4>2. PICK m \in ToSet(up'[t]) : m.kind = "attach" /\ m.widget = w /\ m.id = id
                BY <4>1
            <4>3. CASE m \in ToSet(up[t])
                BY <4>2, <4>3 DEF Names
            <4>4. CASE m \in more
                BY <1>8, <3>1, <4>2, <4>4
            <4> QED BY <1>9, <4>3, <4>4
        <3>4. CASE \E t \in Sockets : \E m \in ToSet(down'[t]) :
                      m.kind \in {"created", "attached"} /\ m.widget = w /\ m.id = id
            BY <1>1, <3>4 DEF Names
        <3> QED BY <2>1, <3>2, <3>3, <3>4 DEF Names
    <2> QED BY <1>1, <2>1 DEF Owned
<1>13. Starts'
    <2>1. SUFFICES ASSUME NEW w \in Widgets
                   PROVE  /\ widgets'[w].sent => socket.connected /\ ws[w].call # "none"
                          /\ ws[w].status = "none" => ws[w].call = "none" /\ ~ws[w].reopen
                          /\ ws[w].call = "create" => ws[w].id \notin processes
                          /\ ws[w].status = "open" /\ ws[w].id # None /\ ~socket.connected
                                => ws[w].reopen \/ ws[w].call # "none"
                          /\ ws[w].call # "none" /\ socket.connected =>
                                /\ widgets'[w].sent
                                /\ \E m \in ToSet(up'[n]) \union ToSet(down[n]) :
                                      (Asks(m) \/ Answers(m)) /\ m.widget = w
        BY <1>1, <1>6 DEF Starts
    <2>2. /\ widgets[w].sent => socket.connected /\ widgets[w].call # "none"
          /\ widgets[w].status = "none" => widgets[w].call = "none" /\ ~widgets[w].reopen
          /\ widgets[w].call = "create" => widgets[w].id \notin processes
          /\ widgets[w].status = "open" /\ widgets[w].id # None /\ ~socket.connected
                => widgets[w].reopen \/ widgets[w].call # "none"
          /\ widgets[w].call # "none" /\ socket.connected =>
                \E m \in ToSet(up[n]) \union ToSet(down[n]) : (Asks(m) \/ Answers(m)) /\ m.widget = w
        BY <1>1 DEF Starts
    <2>3. widgets'[w].sent => socket.connected /\ ws[w].call # "none"
        BY <1>6, <2>2
    <2>4. ASSUME ws[w].call # "none", socket.connected
          PROVE  \E m \in ToSet(up'[n]) \union ToSet(down[n]) : (Asks(m) \/ Answers(m)) /\ m.widget = w
        <3>1. CASE ws[w].sent
            <4>1. PICK m \in ToSet(up[n]) \union ToSet(down[n]) : (Asks(m) \/ Answers(m)) /\ m.widget = w
                BY <2>2, <2>4, <3>1
            <4>2. m \in ToSet(up'[n]) \union ToSet(down[n])
                BY <1>8, <2>4, <4>1
            <4> QED BY <4>1, <4>2
        <3>2. CASE ~ws[w].sent
            BY <1>8, <2>4, <3>2
        <3> QED BY <3>1, <3>2
    <2>5. ws[w].call # "none" /\ socket.connected => widgets'[w].sent
        BY <1>6
    <2>6. CASE ws[w] = widgets[w]
        BY <2>2, <2>3, <2>4, <2>5, <2>6
    <2>7. CASE ws[w] # widgets[w]
        BY <2>3, <2>4, <2>5, <2>7
    <2> QED BY <2>6, <2>7
<1>14. ExitsTold'
    <2>1. SUFFICES ASSUME socket.connected, client = n, NEW w \in Widgets, ws[w].status = "open", ws[w].id # None,
                          ws[w].id \notin processes
                   PROVE  ws[w].title = "terminated" \/ ws[w].call # "none" \/ Told(ws[w].id, down[n], 0)
        BY <1>1, <1>6 DEF ExitsTold
    <2>2. CASE ws[w] = widgets[w]
        BY <1>1, <2>1, <2>2 DEF ExitsTold
    <2>3. CASE ws[w] # widgets[w]
        BY <2>1, <2>3
    <2> QED BY <2>2, <2>3
<1>15. OrphansExplained'
    <2>1. SUFFICES ASSUME NEW q \in processes, q \notin killed \union failed \union abandoned
                   PROVE  Known(q)'
        BY <1>1 DEF OrphansExplained
    <2>2. Known(q)
        BY <1>1, <2>1 DEF OrphansExplained
    <2>3. CASE \E w \in Widgets : ws[w].status = "open" /\ ws[w].id = q
        BY <1>6, <2>3 DEF Known
    <2>4. CASE \E m \in ToSet(calls) : m.kind = "close" /\ m.id = q
        <3>1. PICK m \in ToSet(calls) : m.kind = "close" /\ m.id = q
            BY <2>4
        <3>2. CASE socket.connected
            <4>1. m \in ToSet(up'[n]) /\ n \in Sockets
                BY <1>3, <1>5, <1>8, <3>1, <3>2
            <4> QED BY <3>1, <4>1 DEF Known
        <3>3. CASE ~socket.connected
            BY <1>10, <3>1, <3>3 DEF Known
        <3> QED BY <3>2, <3>3
    <2>5. CASE \E w \in Widgets : widgets[w].status = "open" /\ widgets[w].id = q
        BY <2>1, <2>3, <2>4, <2>5
    <2> QED BY <1>1, <1>9, <1>10, <2>2, <2>5 DEF Known
<1> QED BY <1>8, <1>11, <1>12, <1>13, <1>14, <1>15 DEF IInv

LEMMA OpenKeeps ==
    ASSUME IInv, NEW w \in Widgets, Open(w)
    PROVE  IInv'
<1>1. /\ widgets \in [Widgets -> WidgetType] /\ processes \subseteq 0 .. nextId - 1 /\ nextId \in Nat
      /\ Starts
    BY DEF IInv, Shapes
<1>2. PICK ws : ws = [widgets EXCEPT ![w] = [Started(@) EXCEPT !.status = "open"]]
    OBVIOUS
<1>3. widgets[w].status = "none" /\ Send(ws, << >>)
    BY <1>2 DEF Open
<1>4. UNCHANGED <<processes, killed, failed, nextId, client, socket, served, down, reloads, abandoned>>
    BY DEF Open
<1>5. widgets[w] \in WidgetType
    BY <1>1
<1>6. ~widgets[w].sent
    BY <1>1, <1>3 DEF Starts
<1>7. /\ ws[w] \in WidgetType /\ ws[w].status = "open" /\ ws[w].id = widgets[w].id /\ ws[w].sent = FALSE
      /\ ws[w].call = IF widgets[w].id = None THEN "create" ELSE "attach"
      /\ ws \in [Widgets -> WidgetType] /\ \A v \in Widgets : v # w => ws[v] = widgets[v]
    <2>1. ws[w] = [Started(widgets[w]) EXCEPT !.status = "open"]
        BY <1>1, <1>2
    <2>2. /\ ws[w] \in WidgetType /\ ws[w].status = "open" /\ ws[w].id = widgets[w].id /\ ws[w].sent = FALSE
          /\ ws[w].call = IF widgets[w].id = None THEN "create" ELSE "attach"
        BY <1>5, <2>1 DEF Started, WidgetType
    <2> QED BY <1>1, <1>2, <2>2
<1>8. << >> \in Seq(Messages) /\ ToSet(<< >>) = {}
    BY Empty
<1>9. None \notin processes
    BY <1>1 DEF None
<1>10. \A v \in Widgets : /\ ws[v].sent <=> widgets[v].sent
                          /\ widgets[v].sent => ws[v].call = widgets[v].call /\ ws[v].id = widgets[v].id
                          /\ ws[v].id \in {None, widgets[v].id}
    BY <1>6, <1>7
<1>11. \A v \in Widgets : \/ ws[v] = widgets[v]
                          \/ /\ ws[v].status # "none"
                             /\ ws[v].call = "create" => ws[v].id \notin processes
                             /\ ws[v].status = "open" => ws[v].call # "none"
    BY <1>7, <1>9
<1>12. \A p \in processes : (\E v \in Widgets : widgets[v].status = "open" /\ widgets[v].id = p) =>
              \/ \E v \in Widgets : ws[v].status = "open" /\ ws[v].id = p
              \/ \E m \in ToSet(<< >>) : m.kind = "close" /\ m.id = p
    BY <1>3, <1>7
<1>13. SendInputs(ws, << >>)
    BY <1>3, <1>4, <1>7, <1>8, <1>10, <1>11, <1>12 DEF SendInputs
<1> QED BY <1>13, SendKeeps

LEMMA DisposeKeeps ==
    ASSUME IInv, NEW w \in Widgets, Dispose(w)
    PROVE  IInv'
<1>1. /\ widgets \in [Widgets -> WidgetType] /\ processes \subseteq 0 .. nextId - 1 /\ nextId \in Nat
      /\ Starts
    BY DEF IInv, Shapes
<1>2. PICK disposed : disposed = [NewWidget EXCEPT !.status = "disposed",
                                         !.id = IF widgets[w].call = "none" THEN None ELSE widgets[w].id,
                                         !.call = widgets[w].call, !.sent = widgets[w].sent]
    OBVIOUS
<1>3. PICK ws : ws = [widgets EXCEPT ![w] = disposed]
    OBVIOUS
<1>4. PICK calls : calls = IF widgets[w].id = None THEN << >> ELSE <<Message("close", w, widgets[w].id)>>
    OBVIOUS
<1>5. Send(ws, calls) /\ widgets[w].status = "open"
    BY <1>2, <1>3, <1>4 DEF Dispose
<1>6. UNCHANGED <<processes, killed, failed, nextId, client, socket, served, down, reloads, abandoned>>
    BY DEF Dispose
<1>7. widgets[w] \in WidgetType
    BY <1>1
<1>8. /\ ws[w] \in WidgetType /\ ws[w].status = "disposed" /\ ws[w].call = widgets[w].call
      /\ ws[w].sent = widgets[w].sent
      /\ ws[w].id = IF widgets[w].call = "none" THEN None ELSE widgets[w].id
      /\ ws \in [Widgets -> WidgetType] /\ \A v \in Widgets : v # w => ws[v] = widgets[v]
    <2>1. PICK id \in Int : id = IF widgets[w].call = "none" THEN None ELSE widgets[w].id
        BY <1>7 DEF WidgetType, None
    <2>2. PICK call \in {"none", "create", "attach"} : call = widgets[w].call
        BY <1>7 DEF WidgetType
    <2>3. PICK sent \in BOOLEAN : sent = widgets[w].sent
        BY <1>7 DEF WidgetType
    <2>4. disposed = [status |-> "disposed", id |-> id, call |-> call, sent |-> sent,
                      reopen |-> FALSE, channel |-> "none", title |-> "shell"]
        BY <1>2, <2>1, <2>2, <2>3 DEF NewWidget
    <2>5. disposed \in WidgetType /\ disposed.status = "disposed" /\ disposed.call = call /\ disposed.sent = sent /\ disposed.id = id
        BY <2>4 DEF WidgetType
    <2> QED BY <1>1, <1>3, <2>1, <2>2, <2>3, <2>5
<1>9. /\ calls \in Seq(Messages) /\ \A m \in ToSet(calls) : m.kind = "close"
      /\ widgets[w].id # None => \E m \in ToSet(calls) : m.kind = "close" /\ m.id = widgets[w].id
    <2>1. CASE widgets[w].id = None
        BY <1>4, <2>1, Empty
    <2>2. CASE widgets[w].id # None
        <3>1. PICK m : m = Message("close", w, widgets[w].id)
            OBVIOUS
        <3>2. m \in Messages /\ m.kind = "close" /\ m.id = widgets[w].id
            BY <1>7, <3>1 DEF Message, Messages, WidgetType
        <3>3. calls = <<m>>
            BY <1>4, <2>2, <3>1
        <3>4. <<m>> \in Seq(Messages) /\ ToSet(<<m>>) = {m}
            BY <3>2, One
        <3> QED BY <3>2, <3>3, <3>4
    <2> QED BY <2>1, <2>2
<1>10. \A v \in Widgets : /\ ws[v].sent <=> widgets[v].sent
                          /\ widgets[v].sent => ws[v].call = widgets[v].call /\ ws[v].id = widgets[v].id
                          /\ ws[v].id \in {None, widgets[v].id}
    <2>1. widgets[w].sent => widgets[w].call # "none"
        BY <1>1 DEF Starts
    <2> QED BY <1>8, <2>1
<1>11. \A v \in Widgets : \/ ws[v] = widgets[v]
                          \/ /\ ws[v].status # "none"
                             /\ ws[v].call = "create" => ws[v].id \notin processes
                             /\ ws[v].status = "open" => ws[v].call # "none"
    <2>1. widgets[w].call = "create" => widgets[w].id \notin processes
        BY <1>1 DEF Starts
    <2> QED BY <1>8, <2>1
<1>12. \A p \in processes : (\E v \in Widgets : widgets[v].status = "open" /\ widgets[v].id = p) =>
              \/ \E v \in Widgets : ws[v].status = "open" /\ ws[v].id = p
              \/ \E m \in ToSet(calls) : m.kind = "close" /\ m.id = p
    <2>1. None \notin processes
        BY <1>1 DEF None
    <2> QED BY <1>8, <1>9, <2>1
<1>13. SendInputs(ws, calls)
    BY <1>5, <1>6, <1>8, <1>9, <1>10, <1>11, <1>12 DEF SendInputs
<1> QED BY <1>13, SendKeeps

----------------------------------------------------------------------------
(* The page handles a message.                                             *)

\* A message that the page takes.
LEMMA ReceivedOne ==
    ASSUME Shapes, socket.open, down[socket.number] # << >>, down' = [down EXCEPT ![socket.number] = Tail(@)]
    PROVE  /\ socket.number \in Sockets /\ down' \in [Sockets -> Seq(Messages)]
           /\ down[socket.number] \in Seq(Messages)
           /\ down'[socket.number] = Tail(down[socket.number])
           /\ Head(down[socket.number]) \in Messages
           /\ ToSet(down[socket.number]) = {Head(down[socket.number])} \union ToSet(down'[socket.number])
           /\ \A t \in Sockets : t # socket.number => down'[t] = down[t]
           /\ \A t \in Sockets : ToSet(down'[t]) \subseteq ToSet(down[t])
<1>1. socket.number \in Sockets /\ down \in [Sockets -> Seq(Messages)] /\ down[socket.number] \in Seq(Messages)
    BY DEF Shapes
<1>2. /\ Head(down[socket.number]) \in Messages /\ Tail(down[socket.number]) \in Seq(Messages)
      /\ ToSet(down[socket.number]) = {Head(down[socket.number])} \union ToSet(Tail(down[socket.number]))
    BY <1>1, Taken
<1> QED BY <1>1, <1>2

\* The ends of processes that are told in time still are when a message has been taken.
LEMMA ToldLater ==
    ASSUME NEW s \in Seq(Messages), s # << >>,
           \A i \in DOMAIN s : Answers(s[i]) /\ s[i].id # None /\ s[i].id \notin processes => Told(s[i].id, s, i)
    PROVE  /\ \A i \in DOMAIN Tail(s) : Answers(Tail(s)[i]) /\ Tail(s)[i].id # None /\ Tail(s)[i].id \notin processes
                => Told(Tail(s)[i].id, Tail(s), i)
           /\ Answers(Head(s)) /\ Head(s).id # None /\ Head(s).id \notin processes => Told(Head(s).id, Tail(s), 0)
<1>1. /\ Head(s) = s[1] /\ 1 \in DOMAIN s /\ DOMAIN Tail(s) = 1 .. Len(s) - 1 /\ Len(s) \in Nat \ {0}
      /\ \A i \in 1 .. Len(s) - 1 : Tail(s)[i] = s[i + 1]
      /\ DOMAIN s = 1 .. Len(s)
    BY Taken, Members
<1>2. \A p, i : i \in Nat /\ Told(p, s, i + 1) => Told(p, Tail(s), i)
    BY ToldTaken
<1>3. \A i \in DOMAIN Tail(s) : i + 1 \in DOMAIN s /\ i \in Nat
    BY <1>1
<1>4. 0 \in Nat /\ 0 + 1 = 1
    OBVIOUS
<1> QED BY <1>1, <1>2, <1>3, <1>4

\* What handling message does, unless it is the connection of the proxy; request is what the page
\* sends, if it does.
Handled(message, request) ==
    /\ widgets' \in [Widgets -> WidgetType]
    /\ request \in Messages /\ request.kind \in {"create", "channel"}
    /\ request.kind = "create" => message.kind = "attached" /\ message.id = None /\ request.widget = message.widget
    /\ up' = up \/ up' = [up EXCEPT ![socket.number] = Append(@, request)]
    /\ message.kind = "attached" /\ message.id = None =>
        request.kind = "create" /\ up' = [up EXCEPT ![socket.number] = Append(@, request)]
    /\ abandoned \subseteq abandoned'
    /\ message.kind = "created" /\ message.id # None /\ widgets[message.widget].status = "disposed" =>
        message.id \in abandoned'
    /\ \A w \in Widgets :
        /\ widgets'[w].status = widgets[w].status /\ widgets'[w].reopen = widgets[w].reopen
        /\ ~(Answers(message) /\ w = message.widget) =>
            /\ widgets'[w].id = widgets[w].id /\ widgets'[w].call = widgets[w].call /\ widgets'[w].sent = widgets[w].sent
            /\ widgets'[w].title \in {widgets[w].title, "terminated"}
            /\ message.kind = "exit" /\ message.id = widgets[w].id /\ widgets[w].status = "open" =>
                widgets'[w].title = "terminated"
        /\ Answers(message) /\ w = message.widget =>
            IF message.kind = "attached" /\ message.id = None
            THEN widgets'[w].id = widgets[w].id /\ widgets'[w].call = "create" /\ widgets'[w].sent = widgets[w].sent
            ELSE widgets'[w].id = message.id /\ widgets'[w].call = "none" /\ widgets'[w].sent = FALSE

LEMMA HandledKeeps ==
    ASSUME IInv, NEW message, NEW request, Handled(message, request), socket.open, down[socket.number] # << >>,
           message = Head(down[socket.number]), message.kind \in {"created", "attached", "exit", "channelReady"},
           down' = [down EXCEPT ![socket.number] = Tail(@)],
           UNCHANGED <<processes, killed, failed, nextId, client, closes, socket, served>>
    PROVE  IInv'
<1> DEFINE n == socket.number
<1>1. /\ Shapes /\ Owned /\ Conversations /\ Starts /\ ExitsTold /\ OrphansExplained
      /\ processes' = processes /\ killed' = killed /\ failed' = failed /\ nextId' = nextId /\ client' = client
      /\ closes' = closes /\ socket' = socket /\ served' = served
    BY DEF IInv
<1>2. /\ n \in Sockets /\ down' \in [Sockets -> Seq(Messages)] /\ down[n] \in Seq(Messages)
      /\ down'[n] = Tail(down[n]) /\ message \in Messages
      /\ ToSet(down[n]) = {message} \union ToSet(down'[n])
      /\ \A t \in Sockets : t # n => down'[t] = down[t]
      /\ \A t \in Sockets : ToSet(down'[t]) \subseteq ToSet(down[t])
    BY <1>1, ReceivedOne
<1>3. up \in [Sockets -> Seq(Messages)] /\ None \notin processes
    BY <1>1 DEF Shapes, None
<1>4. request \in Messages /\ request.kind \in {"create", "channel"} /\ widgets' \in [Widgets -> WidgetType]
      /\ (up' = up \/ up' = [up EXCEPT ![n] = Append(@, request)])
    BY DEF Handled
<1>5. Append(up[n], request) \in Seq(Messages) /\ ToSet(Append(up[n], request)) = ToSet(up[n]) \union {request}
    BY <1>2, <1>3, <1>4, Appended
<1>6. /\ up' \in [Sockets -> Seq(Messages)] /\ \A t \in Sockets : t # n => up'[t] = up[t]
      /\ up'[n] = up[n] \/ up'[n] = Append(up[n], request)
      /\ message.kind = "attached" /\ message.id = None =>
            request.kind = "create" /\ request \in ToSet(up'[n])
    <2>1. CASE up' = up
        <3>1. message.kind = "attached" /\ message.id = None => up' = [up EXCEPT ![n] = Append(@, request)]
            BY DEF Handled
        <3> QED BY <1>2, <1>3, <1>5, <2>1, <3>1 DEF Handled
    <2>2. CASE up' = [up EXCEPT ![n] = Append(@, request)]
        BY <1>2, <1>3, <1>5, <2>2 DEF Handled
    <2> QED BY <1>4, <2>1, <2>2
<1>7. \A t \in Sockets : ToSet(up[t]) \subseteq ToSet(up'[t]) /\ ToSet(up'[t]) \subseteq ToSet(up[t]) \union {request}
    BY <1>5, <1>6
<1>8. /\ \A m \in ToSet(up[n]) \union ToSet(down[n]) : Means(m)
      /\ Once(up[n]) /\ Once(down[n])
      /\ \A m \in ToSet(up[n]), o \in ToSet(down[n]) : ~SameTalk(m, o)
    BY <1>1 DEF Conversations
<1>9. Once(down'[n]) /\ \A m \in ToSet(down'[n]) : ~SameTalk(message, m)
    BY <1>2, <1>8, OnceTaken
<1>10. \A m \in ToSet(up[n]) \union ToSet(down'[n]) : ~SameTalk(m, message) /\ Means(m)
    BY <1>2, <1>8, <1>9 DEF SameTalk
<1>11. Means(message)
    BY <1>2, <1>8
<1>12. Answers(message) => message.widget \in Widgets /\ widgets[message.widget].sent
    BY <1>11 DEF Means
<1>13. ~Asks(message) /\ ~Greets(message)
    BY DEF Asks, Greets
<1>14. Shapes'
    <2>1. \A t \in Sockets : (t > n => up'[t] = << >>) /\ (t # n \/ ~socket.open => down'[t] = << >>)
        <3>1. SUFFICES ASSUME NEW t \in Sockets
                       PROVE  (t > n => up'[t] = << >>) /\ (t # n \/ ~socket.open => down'[t] = << >>)
            OBVIOUS
        <3>2. t > n => t # n
            BY <1>2 DEF Sockets
        <3>3. (t > n => up[t] = << >>) /\ (t # n => down[t] = << >>)
            BY <1>1 DEF Shapes
        <3> QED BY <1>2, <1>6, <3>2, <3>3
    <2>2. nextId' \in Nat /\ processes' \subseteq 0 .. nextId' - 1
        BY <1>1 DEF Shapes
    <2>3. \A t \in Sockets : t > n => t \notin served
        BY <1>1 DEF Shapes
    <2>4. /\ socket \in [number : Nat, open : BOOLEAN, connected : BOOLEAN]
          /\ socket.open => n \in Sockets /\ n \in served
          /\ socket.connected => socket.open /\ closes = << >>
          /\ closes \in Seq(Messages) /\ \A m \in ToSet(closes) : m.kind = "close"
        BY <1>1 DEF Shapes
    <2> QED BY <1>1, <1>2, <1>4, <1>6, <2>1, <2>2, <2>3, <2>4 DEF Shapes
<1>15. Owned'
    <2>1. ASSUME NEW w \in Widgets, NEW id \in Int, Names(w, id)', id # None PROVE Names(w, id)
        <3>1. CASE widgets'[w].id = id
            <4>1. CASE widgets[w].id = id
                BY <4>1 DEF Names
            <4>2. CASE widgets[w].id # id
                <5>1. Answers(message) /\ w = message.widget /\ message.id = id
                    BY <3>1, <4>2 DEF Handled
                <5>2. message.kind \in {"created", "attached"} /\ message \in ToSet(down[n])
                    BY <1>2, <5>1 DEF Answers
                <5> QED BY <1>2, <5>1, <5>2 DEF Names
            <4> QED BY <4>1, <4>2
        <3>2. CASE \E t \in Sockets : \E m \in ToSet(up'[t]) : m.kind = "attach" /\ m.widget = w /\ m.id = id
            BY <1>4, <1>7, <3>2 DEF Names
        <3>3. CASE \E t \in Sockets : \E m \in ToSet(down'[t]) :
                      m.kind \in {"created", "attached"} /\ m.widget = w /\ m.id = id
            BY <1>2, <3>3 DEF Names
        <3> QED BY <2>1, <3>1, <3>2, <3>3 DEF Names
    <2> QED BY <1>1, <2>1 DEF Owned
<1>16. Conversations'
    <2>1. \A m \in ToSet(up[n]) \union ToSet(down'[n]) : Means(m)'
        <3>1. SUFFICES ASSUME NEW m \in ToSet(up[n]) \union ToSet(down'[n]) PROVE Means(m)'
            OBVIOUS
        <3>2. Means(m) /\ ~SameTalk(m, message)
            BY <1>10
        <3>3. CASE Asks(m) \/ Answers(m)
            <4>1. m.widget \in Widgets
                BY <3>2, <3>3 DEF Means
            <4>2. ~Greets(m)
                BY <3>3 DEF Asks, Answers, Greets
            <4>3. ~(Answers(message) /\ m.widget = message.widget)
                BY <1>13, <3>2, <3>3, <4>2 DEF SameTalk, Talks
            <4>4. /\ widgets'[m.widget].id = widgets[m.widget].id /\ widgets'[m.widget].call = widgets[m.widget].call
                  /\ widgets'[m.widget].sent = widgets[m.widget].sent
                BY <4>1, <4>3 DEF Handled
            <4> QED BY <1>1, <3>2, <4>1, <4>4 DEF Means
        <3>4. CASE ~(Asks(m) \/ Answers(m))
            BY <1>1, <3>2, <3>4 DEF Means, Asks, Answers
        <3> QED BY <3>3, <3>4
    <2>2. \A m \in ToSet(up[n]) \union ToSet(down'[n]) : ~SameTalk(m, request)
        <3>1. SUFFICES ASSUME NEW m \in ToSet(up[n]) \union ToSet(down'[n]), SameTalk(m, request) PROVE FALSE
            OBVIOUS
        <3>2. request.kind = "create" /\ ~Greets(request)
            BY <1>4, <3>1 DEF SameTalk, Talks, Greets, Asks, Answers
        <3>3. message.kind = "attached" /\ request.widget = message.widget
            BY <3>2 DEF Handled
        <3>4. SameTalk(m, message)
            BY <1>13, <3>1, <3>2, <3>3 DEF SameTalk, Talks, Answers
        <3> QED BY <1>10, <3>4
    <2>3. Means(request)'
        <3>1. CASE request.kind = "channel"
            BY <3>1 DEF Means, Greets, Asks, Answers
        <3>2. CASE request.kind = "create"
            <4>1. message.kind = "attached" /\ message.id = None /\ request.widget = message.widget
                BY <3>2 DEF Handled
            <4>2. message.widget \in Widgets /\ widgets[message.widget].sent /\ Answers(message)
                BY <1>12, <4>1 DEF Answers
            <4>3. widgets'[message.widget].call = "create" /\ widgets'[message.widget].sent = widgets[message.widget].sent
                BY <4>1, <4>2 DEF Handled
            <4> QED BY <3>2, <4>1, <4>2, <4>3 DEF Means, Greets, Asks, Answers
        <3> QED BY <1>4, <3>1, <3>2
    <2>4. Once(up'[n])
        <3>1. Once(Append(up[n], request))
            BY <1>2, <1>3, <1>4, <1>8, <2>2, OnceAppended
        <3> QED BY <1>6, <1>8, <3>1
    <2>5. ToSet(up'[n]) \subseteq ToSet(up[n]) \union {request} /\ ToSet(down'[n]) \subseteq ToSet(down[n])
        BY <1>2, <1>7
    <2>6. \A m \in ToSet(up'[n]), o \in ToSet(down'[n]) : ~SameTalk(m, o)
        <3>1. \A o \in ToSet(down'[n]) : ~SameTalk(request, o)
            BY <2>2 DEF SameTalk
        <3> QED BY <1>8, <2>5, <3>1
    <2>7. \A m \in ToSet(up'[n]) \union ToSet(down'[n]) : Means(m)'
        BY <2>1, <2>3, <2>5
    <2> QED BY <1>1, <1>9, <2>4, <2>6, <2>7 DEF Conversations
<1>17. Starts'
    <2>1. SUFFICES ASSUME NEW w \in Widgets
                   PROVE  /\ widgets'[w].sent => socket.connected /\ widgets'[w].call # "none"
                          /\ widgets'[w].status = "none" => widgets'[w].call = "none" /\ ~widgets'[w].reopen
                          /\ widgets'[w].call = "create" => widgets'[w].id \notin processes
                          /\ widgets'[w].status = "open" /\ widgets'[w].id # None /\ ~socket.connected
                                => widgets'[w].reopen \/ widgets'[w].call # "none"
                          /\ widgets'[w].call # "none" /\ socket.connected =>
                                /\ widgets'[w].sent
                                /\ \E m \in ToSet(up'[n]) \union ToSet(down'[n]) :
                                      (Asks(m) \/ Answers(m)) /\ m.widget = w
        BY <1>1 DEF Starts
    <2>2. /\ widgets[w].sent => socket.connected /\ widgets[w].call # "none"
          /\ widgets[w].status = "none" => widgets[w].call = "none" /\ ~widgets[w].reopen
          /\ widgets[w].call = "create" => widgets[w].id \notin processes
          /\ widgets[w].status = "open" /\ widgets[w].id # None /\ ~socket.connected
                => widgets[w].reopen \/ widgets[w].call # "none"
          /\ widgets[w].call # "none" /\ socket.connected =>
                /\ widgets[w].sent
                /\ \E m \in ToSet(up[n]) \union ToSet(down[n]) : (Asks(m) \/ Answers(m)) /\ m.widget = w
        BY <1>1 DEF Starts
    <2>3. widgets'[w].status = widgets[w].status /\ widgets'[w].reopen = widgets[w].reopen
        BY DEF Handled
    <2>4. CASE ~(Answers(message) /\ w = message.widget)
        <3>1. widgets'[w].id = widgets[w].id /\ widgets'[w].call = widgets[w].call /\ widgets'[w].sent = widgets[w].sent
            BY <2>4 DEF Handled
        <3>2. ASSUME NEW m \in ToSet(up[n]) \union ToSet(down[n]), Asks(m) \/ Answers(m), m.widget = w
              PROVE  m \in ToSet(up'[n]) \union ToSet(down'[n])
            BY <1>2, <1>7, <1>13, <2>4, <3>2
        <3>3. widgets[w].call # "none" /\ socket.connected =>
                \E m \in ToSet(up'[n]) \union ToSet(down'[n]) : (Asks(m) \/ Answers(m)) /\ m.widget = w
            BY <2>2, <3>2
        <3> QED BY <2>2, <2>3, <3>1, <3>3
    <2>5. CASE Answers(message) /\ w = message.widget /\ message.kind = "attached" /\ message.id = None
        <3>1. widgets'[w].id = widgets[w].id /\ widgets'[w].call = "create" /\ widgets'[w].sent = widgets[w].sent
            BY <2>5 DEF Handled
        <3>2. widgets[w].sent /\ widgets[w].id \notin processes
            BY <1>11, <1>12, <2>5 DEF Means
        <3>3. request \in ToSet(up'[n]) /\ Asks(request) /\ request.widget = w
            BY <1>6, <2>5 DEF Handled, Asks
        <3> QED BY <2>2, <2>3, <3>1, <3>2, <3>3
    <2>6. CASE Answers(message) /\ w = message.widget /\ ~(message.kind = "attached" /\ message.id = None)
        <3>1. widgets'[w].call = "none" /\ widgets'[w].sent = FALSE
            BY <2>6 DEF Handled
        <3>2. socket.connected
            BY <1>12, <2>2, <2>6
        <3> QED BY <2>2, <2>3, <3>1, <3>2
    <2> QED BY <2>4, <2>5, <2>6
<1>18. ExitsTold'
    <2>1. SUFFICES ASSUME socket.connected, client = n PROVE ExitsTold'
        BY <1>1 DEF ExitsTold
    <2>2. /\ \A w \in Widgets :
                widgets[w].status = "open" /\ widgets[w].id # None /\ widgets[w].id \notin processes
                    => \/ widgets[w].title = "terminated" \/ widgets[w].call # "none"
                       \/ Told(widgets[w].id, down[n], 0)
          /\ \A i \in DOMAIN down[n] :
                Answers(down[n][i]) /\ down[n][i].id # None /\ down[n][i].id \notin processes => Told(down[n][i].id, down[n], i)
        BY <1>1, <2>1 DEF ExitsTold
    <2>3. /\ \A i \in DOMAIN down'[n] :
                Answers(down'[n][i]) /\ down'[n][i].id # None /\ down'[n][i].id \notin processes
                    => Told(down'[n][i].id, down'[n], i)
          /\ Answers(message) /\ message.id # None /\ message.id \notin processes => Told(message.id, down'[n], 0)
        BY <1>2, <2>2, ToldLater
    <2>4. \A p : Told(p, down[n], 0) => (message.kind = "exit" /\ message.id = p) \/ Told(p, down'[n], 0)
        <3>1. 0 \in Nat
            OBVIOUS
        <3> QED BY <1>2, <3>1, ToldTaken
    <2>5. ASSUME NEW w \in Widgets, widgets'[w].status = "open", widgets'[w].id # None, widgets'[w].id \notin processes
          PROVE  \/ widgets'[w].title = "terminated" \/ widgets'[w].call # "none"
                 \/ Told(widgets'[w].id, down'[n], 0)
        <3>1. widgets'[w].status = widgets[w].status
            BY DEF Handled
        <3>2. CASE ~(Answers(message) /\ w = message.widget)
            <4>1. /\ widgets'[w].id = widgets[w].id /\ widgets'[w].call = widgets[w].call
                  /\ widgets'[w].title \in {widgets[w].title, "terminated"}
                  /\ message.kind = "exit" /\ message.id = widgets[w].id /\ widgets[w].status = "open" =>
                        widgets'[w].title = "terminated"
                BY <3>2 DEF Handled
            <4> QED BY <2>2, <2>4, <2>5, <3>1, <4>1
        <3>3. CASE Answers(message) /\ w = message.widget /\ message.kind = "attached" /\ message.id = None
            BY <3>3 DEF Handled
        <3>4. CASE Answers(message) /\ w = message.widget /\ ~(message.kind = "attached" /\ message.id = None)
            <4>1. widgets'[w].id = message.id
                BY <3>4 DEF Handled
            <4> QED BY <2>3, <2>5, <3>4, <4>1
        <3> QED BY <3>2, <3>3, <3>4
    <2> QED BY <1>1, <2>3, <2>5 DEF ExitsTold
<1>19. OrphansExplained'
    <2>1. SUFFICES ASSUME NEW q \in processes, q \notin killed \union failed \union abandoned'
                   PROVE  Known(q)'
        BY <1>1 DEF OrphansExplained
    <2>2. Known(q) /\ q # None
        BY <1>1, <1>3, <2>1 DEF OrphansExplained, Handled
    <2>3. CASE \E w \in Widgets : widgets[w].status = "open" /\ widgets[w].id = q
        <3>1. PICK w \in Widgets : widgets[w].status = "open" /\ widgets[w].id = q
            BY <2>3
        <3>2. widgets'[w].status = "open"
            BY <3>1 DEF Handled
        <3>3. widgets'[w].id = q
            <4>1. CASE ~(Answers(message) /\ w = message.widget)
                BY <3>1, <4>1 DEF Handled
            <4>2. CASE Answers(message) /\ w = message.widget /\ message.kind = "attached"
                <5>1. message.id # None => message.id = widgets[w].id
                    BY <1>11, <4>2 DEF Means
                <5> QED BY <3>1, <4>2, <5>1 DEF Handled
            <4>3. CASE Answers(message) /\ w = message.widget /\ message.kind = "created"
                <5>1. widgets[w].call = "create"
                    BY <1>11, <4>3 DEF Means
                <5>2. widgets[w].id \notin processes
                    BY <1>1, <5>1 DEF Starts
                <5> QED BY <2>1, <3>1, <5>2
            <4> QED BY <4>1, <4>2, <4>3 DEF Answers
        <3> QED BY <3>2, <3>3 DEF Known
    <2>4. CASE \E t \in Sockets : \E m \in ToSet(down[t]) : m.kind = "created" /\ m.id = q
        <3>1. PICK t \in Sockets : \E m \in ToSet(down[t]) : m.kind = "created" /\ m.id = q
            BY <2>4
        <3>2. PICK m \in ToSet(down[t]) : m.kind = "created" /\ m.id = q
            BY <3>1
        <3>3. CASE m \in ToSet(down'[t])
            BY <3>2, <3>3 DEF Known
        <3>4. CASE m \notin ToSet(down'[t])
            <4>1. m = message
                BY <1>2, <3>2, <3>4
            <4>2. Answers(message) /\ message.widget \in Widgets
                BY <1>12, <3>2, <4>1 DEF Answers
            <4>3. widgets'[message.widget].id = q /\ widgets'[message.widget].status = widgets[message.widget].status
                BY <3>2, <4>1, <4>2 DEF Handled
            <4>4. widgets[message.widget].status # "none"
                BY <1>1, <1>12, <4>2 DEF Starts
            <4>5. widgets[message.widget].status # "disposed"
                BY <2>1, <2>2, <3>2, <4>1 DEF Handled
            <4>6. widgets[message.widget].status = "open"
                <5>1. widgets[message.widget] \in WidgetType
                    BY <1>1, <4>2 DEF Shapes
                <5> QED BY <4>4, <4>5, <5>1 DEF WidgetType
            <4> QED BY <4>2, <4>3, <4>6 DEF Known
        <3> QED BY <3>3, <3>4
    <2> QED BY <1>1, <1>7, <2>2, <2>3, <2>4 DEF Known
<1> QED BY <1>14, <1>15, <1>16, <1>17, <1>18, <1>19 DEF IInv

LEMMA ReadyKeeps ==
    ASSUME IInv, socket.open, down[socket.number] # << >>, Head(down[socket.number]).kind = "ready", ReceiveReady,
           down' = [down EXCEPT ![socket.number] = Tail(@)],
           UNCHANGED <<processes, killed, failed, nextId, client, served, abandoned>>
    PROVE  IInv'
<1> DEFINE n == socket.number
<1>1. /\ Shapes /\ Owned /\ Conversations /\ Starts /\ OrphansExplained
      /\ processes' = processes /\ killed' = killed /\ failed' = failed /\ nextId' = nextId /\ client' = client
      /\ served' = served /\ abandoned' = abandoned /\ closes' = << >> /\ socket' = [socket EXCEPT !.connected = TRUE]
    BY DEF IInv, ReceiveReady
<1>2. PICK message : message = Head(down[n])
    OBVIOUS
<1>3. /\ n \in Sockets /\ down' \in [Sockets -> Seq(Messages)] /\ down[n] \in Seq(Messages)
      /\ down'[n] = Tail(down[n]) /\ message \in Messages /\ message.kind = "ready"
      /\ ToSet(down[n]) = {message} \union ToSet(down'[n])
      /\ \A t \in Sockets : t # n => down'[t] = down[t]
      /\ \A t \in Sockets : ToSet(down'[t]) \subseteq ToSet(down[t])
    BY <1>1, <1>2, ReceivedOne
<1>4. /\ up \in [Sockets -> Seq(Messages)] /\ None \notin processes /\ closes \in Seq(Messages)
      /\ \A m \in ToSet(closes) : m.kind = "close"
      /\ widgets \in [Widgets -> WidgetType] /\ n \in served
      /\ socket \in [number : Nat, open : BOOLEAN, connected : BOOLEAN]
    BY <1>1 DEF Shapes, None
<1>5. /\ socket' \in [number : Nat, open : BOOLEAN, connected : BOOLEAN]
      /\ socket'.number = n /\ socket'.open /\ socket'.connected
    BY <1>1, <1>4
<1>6. /\ \A m \in ToSet(up[n]) \union ToSet(down[n]) : Means(m)
      /\ Once(up[n]) /\ Once(down[n])
      /\ \A m \in ToSet(up[n]), o \in ToSet(down[n]) : ~SameTalk(m, o)
    BY <1>1 DEF Conversations
<1>7. Once(down'[n]) /\ \A m \in ToSet(down'[n]) : ~SameTalk(message, m)
    BY <1>2, <1>3, <1>6, OnceTaken
<1>8. ~socket.connected /\ message.widget = First /\ Greets(message)
    BY <1>3, <1>6 DEF Means, Greets
<1>9. \A m \in ToSet(up[n]) \union ToSet(down'[n]) : ~Greets(m)
    <2>1. SUFFICES ASSUME NEW m \in ToSet(up[n]) \union ToSet(down'[n]), Greets(m) PROVE FALSE
        OBVIOUS
    <2>2. m.widget = First
        BY <1>3, <1>6, <2>1 DEF Means
    <2>3. SameTalk(m, message) /\ SameTalk(message, m)
        BY <1>8, <2>1, <2>2 DEF SameTalk, Talks
    <2> QED BY <1>3, <1>6, <1>7, <2>3
<1>10. \A w \in Widgets : ~widgets[w].sent
    BY <1>1, <1>8 DEF Starts
<1>11. PICK back : back = [w \in Widgets |->
                        IF widgets[w].reopen /\ widgets[w].id # None THEN Started(widgets[w]) ELSE widgets[w]]
    OBVIOUS
<1>12. PICK order \in SetToSeqs(Requests(back)) :
            /\ up' = [up EXCEPT ![n] = @ \o closes \o order]
            /\ widgets' = [w \in Widgets |-> [back[w] EXCEPT !.sent = back[w].call # "none", !.reopen = FALSE]]
    BY <1>11 DEF ReceiveReady
<1>13. /\ back \in [Widgets -> WidgetType]
       /\ \A w \in Widgets :
            /\ ~back[w].sent /\ back[w].id = widgets[w].id /\ back[w].status = widgets[w].status
            /\ back[w].call = IF widgets[w].reopen /\ widgets[w].id # None THEN "attach" ELSE widgets[w].call
    <2>1. SUFFICES ASSUME NEW w \in Widgets
                   PROVE  /\ back[w] \in WidgetType
                          /\ ~back[w].sent /\ back[w].id = widgets[w].id /\ back[w].status = widgets[w].status
                          /\ back[w].call = IF widgets[w].reopen /\ widgets[w].id # None THEN "attach" ELSE widgets[w].call
        BY <1>11
    <2>2. widgets[w] \in WidgetType /\ ~widgets[w].sent
        BY <1>4, <1>10
    <2>3. CASE widgets[w].reopen /\ widgets[w].id # None
        <3>1. back[w] = [widgets[w] EXCEPT !.call = "attach", !.sent = FALSE]
            BY <1>11, <2>3 DEF Started
        <3>2. /\ back[w] \in WidgetType /\ back[w].sent = FALSE /\ back[w].id = widgets[w].id
              /\ back[w].status = widgets[w].status /\ back[w].call = "attach"
            BY <2>2, <3>1 DEF WidgetType
        <3> QED BY <2>3, <3>2
    <2>4. CASE ~(widgets[w].reopen /\ widgets[w].id # None)
        <3>1. back[w] = widgets[w]
            BY <1>11, <2>4
        <3> QED BY <2>2, <2>4, <3>1
    <2> QED BY <2>3, <2>4
<1>14. /\ widgets' \in [Widgets -> WidgetType]
       /\ \A w \in Widgets :
            /\ widgets'[w].id = widgets[w].id /\ widgets'[w].status = widgets[w].status /\ ~widgets'[w].reopen
            /\ widgets'[w].call = back[w].call /\ (widgets'[w].sent <=> back[w].call # "none")
    <2>1. SUFFICES ASSUME NEW w \in Widgets
                   PROVE  /\ widgets'[w] \in WidgetType
                          /\ widgets'[w].id = widgets[w].id /\ widgets'[w].status = widgets[w].status /\ ~widgets'[w].reopen
                          /\ widgets'[w].call = back[w].call /\ (widgets'[w].sent <=> back[w].call # "none")
        BY <1>12
    <2>2. PICK b \in BOOLEAN : b = (back[w].call # "none")
        OBVIOUS
    <2>3. widgets'[w] = [back[w] EXCEPT !.sent = b, !.reopen = FALSE]
        BY <1>12, <2>2
    <2>4. back[w] \in WidgetType
        BY <1>13
    <2>5. /\ widgets'[w] \in WidgetType
          /\ widgets'[w].id = back[w].id /\ widgets'[w].status = back[w].status
          /\ widgets'[w].call = back[w].call /\ widgets'[w].sent = b /\ widgets'[w].reopen = FALSE
        BY <2>3, <2>4 DEF WidgetType
    <2> QED BY <1>13, <2>2, <2>5
<1>15. StartsJoin(back, order, closes, order)
    <2>1. order \in Seq(Messages)
        BY <1>13, Requested
    <2>2. \A w \in Widgets : /\ widgets'[w].call = back[w].call /\ widgets'[w].id = back[w].id
                             /\ widgets'[w].sent <=> back[w].call # "none"
                             /\ back[w].sent <=> widgets[w].sent
                             /\ widgets[w].sent => back[w].call = widgets[w].call /\ back[w].id = widgets[w].id
        BY <1>10, <1>13, <1>14
    <2>3. ToSet(down'[n]) \subseteq ToSet(down[n])
        BY <1>3
    <2> QED BY <1>1, <1>4, <1>5, <1>7, <1>9, <1>12, <1>13, <2>1, <2>2, <2>3 DEF StartsJoin
<1>16. /\ Conversations' /\ up' \in [Sockets -> Seq(Messages)]
       /\ ToSet(up'[n]) = ToSet(up[n]) \union ToSet(closes) \union ToSet(order)
       /\ \A t \in Sockets : t # n => up'[t] = up[t]
       /\ \A m \in ToSet(closes) \union ToSet(order) : m.kind = "attach" => m.widget \in Widgets /\ m.id = back[m.widget].id
       /\ \A w \in Widgets : back[w].call # "none" /\ ~back[w].sent =>
                \E m \in ToSet(up'[n]) : Asks(m) /\ m.widget = w
    BY <1>15, StartsSent
<1>17. Shapes'
    <2>1. \A t \in Sockets : (t > n => up'[t] = << >> /\ t \notin served) /\ (t # n => down'[t] = << >>)
        <3>1. SUFFICES ASSUME NEW t \in Sockets
                       PROVE  (t > n => up'[t] = << >> /\ t \notin served) /\ (t # n => down'[t] = << >>)
            OBVIOUS
        <3>2. t > n => t # n
            BY <1>3 DEF Sockets
        <3>3. (t > n => up[t] = << >> /\ t \notin served) /\ (t # n => down[t] = << >>)
            BY <1>1 DEF Shapes
        <3> QED BY <1>3, <1>16, <3>2, <3>3
    <2>2. nextId' \in Nat /\ processes' \subseteq 0 .. nextId' - 1
        BY <1>1 DEF Shapes
    <2>3. closes' \in Seq(Messages) /\ ToSet(closes') = {}
        BY <1>1, Empty
    <2> QED BY <1>1, <1>3, <1>4, <1>5, <1>14, <1>16, <2>1, <2>2, <2>3 DEF Shapes
<1>18. Owned'
    <2>1. ASSUME NEW w \in Widgets, NEW id \in Int, Names(w, id)', id # None PROVE Names(w, id)
        <3>1. CASE widgets'[w].id = id
            BY <1>14, <3>1 DEF Names
        <3>2. CASE \E t \in Sockets : \E m \in ToSet(up'[t]) : m.kind = "attach" /\ m.widget = w /\ m.id = id
            <4>1. PICK t \in Sockets : \E m \in ToSet(up'[t]) : m.kind = "attach" /\ m.widget = w /\ m.id = id
                BY <3>2
            <4>2. PICK m \in ToSet(up'[t]) : m.kind = "attach" /\ m.widget = w /\ m.id = id
                BY <4>1
            <4>3. CASE m \in ToSet(up[t])
                BY <4>2, <4>3 DEF Names
            <4>4. CASE m \notin ToSet(up[t])
                <5>1. m \in ToSet(closes) \union ToSet(order)
                    BY <1>16, <4>2, <4>4
                <5>2. widgets[w].id = id
                    BY <1>13, <1>16, <4>2, <5>1
                <5> QED BY <5>2 DEF Names
            <4> QED BY <4>3, <4>4
        <3>3. CASE \E t \in Sockets : \E m \in ToSet(down'[t]) :
                      m.kind \in {"created", "attached"} /\ m.widget = w /\ m.id = id
            BY <1>3, <3>3 DEF Names
        <3> QED BY <2>1, <3>1, <3>2, <3>3 DEF Names
    <2> QED BY <1>1, <2>1 DEF Owned
<1>19. Starts'
    <2>1. SUFFICES ASSUME NEW w \in Widgets
                   PROVE  /\ widgets'[w].status = "none" => widgets'[w].call = "none" /\ ~widgets'[w].reopen
                          /\ widgets'[w].call = "create" => widgets'[w].id \notin processes
                          /\ widgets'[w].call # "none" =>
                                /\ widgets'[w].sent
                                /\ \E m \in ToSet(up'[n]) \union ToSet(down'[n]) : (Asks(m) \/ Answers(m)) /\ m.widget = w
        BY <1>1, <1>5, <1>14 DEF Starts
    <2>2. /\ widgets[w].status = "none" => widgets[w].call = "none" /\ ~widgets[w].reopen
          /\ widgets[w].call = "create" => widgets[w].id \notin processes
        BY <1>1 DEF Starts
    <2> QED BY <1>13, <1>14, <1>16, <2>2
<1>20. ExitsTold'
    <2>1. ASSUME NEW w \in Widgets, widgets[w].status = "open", widgets[w].id # None PROVE widgets'[w].call # "none"
        <3>1. widgets[w].reopen \/ widgets[w].call # "none"
            BY <1>1, <1>8, <2>1 DEF Starts
        <3> QED BY <1>13, <1>14, <2>1, <3>1
    <2>2. \A i \in DOMAIN down'[n] : ~Answers(down'[n][i])
        <3>1. SUFFICES ASSUME NEW i \in DOMAIN down'[n], Answers(down'[n][i]) PROVE FALSE
            OBVIOUS
        <3>2. down'[n][i] \in ToSet(down'[n])
            BY DEF ToSet
        <3>4. Means(down'[n][i])
            BY <1>3, <1>6, <3>2
        <3> QED BY <1>10, <3>1, <3>4 DEF Means
    <2> QED BY <1>5, <1>14, <2>1, <2>2 DEF ExitsTold
<1>21. OrphansExplained'
    <2>1. SUFFICES ASSUME NEW q \in processes, q \notin killed \union failed \union abandoned
                   PROVE  Known(q)'
        BY <1>1 DEF OrphansExplained
    <2>2. Known(q)
        BY <1>1, <2>1 DEF OrphansExplained
    <2>3. CASE \E w \in Widgets : widgets[w].status = "open" /\ widgets[w].id = q
        BY <1>14, <2>3 DEF Known
    <2>4. CASE \E t \in Sockets : \E m \in ToSet(down[t]) : m.kind = "created" /\ m.id = q
        <3>1. PICK t \in Sockets : \E m \in ToSet(down[t]) : m.kind = "created" /\ m.id = q
            BY <2>4
        <3>2. PICK m \in ToSet(down[t]) : m.kind = "created" /\ m.id = q
            BY <3>1
        <3>3. m # message
            BY <1>3, <3>2
        <3>4. m \in ToSet(down'[t])
            BY <1>3, <3>2, <3>3
        <3> QED BY <3>2, <3>4 DEF Known
    <2>5. CASE \E t \in Sockets : \E m \in ToSet(up[t]) : m.kind = "close" /\ m.id = q
        <3>1. \A t \in Sockets : ToSet(up[t]) \subseteq ToSet(up'[t])
            BY <1>16
        <3> QED BY <2>5, <3>1 DEF Known
    <2>6. CASE \E m \in ToSet(closes) : m.id = q
        <3>1. PICK m \in ToSet(closes) : m.id = q
            BY <2>6
        <3>2. m.kind = "close" /\ m \in ToSet(up'[n])
            BY <1>4, <1>16, <3>1
        <3> QED BY <1>3, <3>1, <3>2 DEF Known
    <2> QED BY <2>2, <2>3, <2>4, <2>5, <2>6 DEF Known
<1> QED BY <1>16, <1>17, <1>18, <1>19, <1>20, <1>21 DEF IInv

LEMMA CreatedHandled ==
    ASSUME IInv, NEW message \in Messages, message.kind = "created", Means(message), socket.number \in Sockets,
           ReceiveCreated(message)
    PROVE  \E request : Handled(message, request)
<1>1. message.widget \in Widgets /\ widgets \in [Widgets -> WidgetType] /\ message.id \in Int
    BY DEF IInv, Shapes, Means, Answers, Messages
<1>2. PICK request : request = Message("channel", message.widget, message.id)
    OBVIOUS
<1>3. request \in Messages /\ request.kind = "channel"
    BY <1>1, <1>2 DEF Message, Messages
<1>4. PICK channel \in {"none", "opening"} : channel = IF message.id = None THEN "none" ELSE "opening"
    OBVIOUS
<1>5. PICK y : y = [widgets[message.widget] EXCEPT !.id = message.id, !.call = "none", !.sent = FALSE, !.channel = channel]
    OBVIOUS
<1>6. widgets[message.widget] \in WidgetType
    BY <1>1
<1>7. /\ y \in WidgetType /\ y.id = message.id /\ y.call = "none" /\ y.sent = FALSE
      /\ y.status = widgets[message.widget].status /\ y.reopen = widgets[message.widget].reopen
    BY <1>1, <1>5, <1>6 DEF WidgetType
<1>8. widgets' = [widgets EXCEPT ![message.widget] = y]
    BY <1>1, <1>4, <1>5 DEF ReceiveCreated, Attached
<1>9. /\ widgets' \in [Widgets -> WidgetType] /\ widgets'[message.widget] = y
      /\ \A w \in Widgets : w # message.widget => widgets'[w] = widgets[w]
    BY <1>1, <1>7, <1>8
<1>10. up' = up \/ up' = [up EXCEPT ![socket.number] = Append(@, request)]
    BY <1>2 DEF ReceiveCreated, Attached
<1>11. /\ abandoned \subseteq abandoned'
       /\ message.id # None /\ widgets[message.widget].status = "disposed" => message.id \in abandoned'
    BY DEF ReceiveCreated
<1>12. Answers(message)
    BY DEF Answers
<1>13. Handled(message, request)
    BY <1>3, <1>7, <1>9, <1>10, <1>11, <1>12 DEF Handled
<1> QED BY <1>13

LEMMA AttachedHandled ==
    ASSUME IInv, NEW message \in Messages, message.kind = "attached", Means(message), socket.number \in Sockets,
           ReceiveAttached(message)
    PROVE  \E request : Handled(message, request)
<1>1. message.widget \in Widgets /\ widgets \in [Widgets -> WidgetType] /\ message.id \in Int
    BY DEF IInv, Shapes, Means, Answers, Messages
<1>2. widgets[message.widget] \in WidgetType
    BY <1>1
<1>3. Answers(message) /\ abandoned' = abandoned
    BY DEF Answers, ReceiveAttached
<1>4. CASE message.id # None
    <2>1. PICK request : request = Message("channel", message.widget, message.id)
        OBVIOUS
    <2>2. request \in Messages /\ request.kind = "channel"
        BY <1>1, <2>1 DEF Message, Messages
    <2>3. PICK y : y = [widgets[message.widget] EXCEPT !.id = message.id, !.call = "none", !.sent = FALSE, !.channel = "opening"]
        OBVIOUS
    <2>4. /\ y \in WidgetType /\ y.id = message.id /\ y.call = "none" /\ y.sent = FALSE
          /\ y.status = widgets[message.widget].status /\ y.reopen = widgets[message.widget].reopen
        BY <1>1, <1>2, <2>3 DEF WidgetType
    <2>5. widgets' = [widgets EXCEPT ![message.widget] = y]
        BY <1>1, <1>4, <2>3 DEF ReceiveAttached, Attached
    <2>6. /\ widgets' \in [Widgets -> WidgetType] /\ widgets'[message.widget] = y
          /\ \A w \in Widgets : w # message.widget => widgets'[w] = widgets[w]
        BY <1>1, <2>4, <2>5
    <2>7. up' = [up EXCEPT ![socket.number] = Append(@, request)]
        BY <1>4, <2>1 DEF ReceiveAttached, Attached
    <2>8. Handled(message, request)
        BY <1>3, <1>4, <2>2, <2>4, <2>6, <2>7 DEF Handled
    <2> QED BY <2>8
<1>5. CASE message.id = None
    <2>1. PICK request : request = Message("create", message.widget, None)
        OBVIOUS
    <2>2. request \in Messages /\ request.kind = "create" /\ request.widget = message.widget
        BY <1>1, <2>1 DEF Message, Messages, None
    <2>3. widgets' = [widgets EXCEPT ![message.widget].call = "create"]
        BY <1>5 DEF ReceiveAttached
    <2>4. PICK y : y = [widgets[message.widget] EXCEPT !.call = "create"]
        OBVIOUS
    <2>5. /\ y \in WidgetType /\ y.id = widgets[message.widget].id /\ y.call = "create"
          /\ y.sent = widgets[message.widget].sent
          /\ y.status = widgets[message.widget].status /\ y.reopen = widgets[message.widget].reopen
        BY <1>2, <2>4 DEF WidgetType
    <2>6. /\ widgets' \in [Widgets -> WidgetType] /\ widgets'[message.widget] = y
          /\ \A w \in Widgets : w # message.widget => widgets'[w] = widgets[w]
        BY <1>1, <2>3, <2>4, <2>5
    <2>7. up' = [up EXCEPT ![socket.number] = Append(@, request)]
        BY <1>5, <2>1 DEF ReceiveAttached
    <2>8. Handled(message, request)
        BY <1>3, <1>5, <2>2, <2>5, <2>6, <2>7 DEF Handled
    <2> QED BY <2>8
<1> QED BY <1>4, <1>5

LEMMA ExitHandled ==
    ASSUME IInv, NEW message \in Messages, message.kind = "exit", ReceiveExit(message.id)
    PROVE  \E request : Handled(message, request)
<1>1. widgets \in [Widgets -> WidgetType] /\ up' = up /\ abandoned' = abandoned
    BY DEF IInv, Shapes, ReceiveExit
<1>2. PICK request : request = Message("channel", message.widget, message.id)
    OBVIOUS
<1>3. request \in Messages /\ request.kind = "channel"
    BY <1>2 DEF Message, Messages
<1>4. ~Answers(message)
    BY DEF Answers
<1>5. \A w \in Widgets :
        /\ widgets'[w] \in WidgetType
        /\ widgets'[w].status = widgets[w].status /\ widgets'[w].reopen = widgets[w].reopen
        /\ widgets'[w].id = widgets[w].id /\ widgets'[w].call = widgets[w].call /\ widgets'[w].sent = widgets[w].sent
        /\ widgets'[w].title \in {widgets[w].title, "terminated"}
        /\ message.id = widgets[w].id /\ widgets[w].status = "open" => widgets'[w].title = "terminated"
    <2>1. SUFFICES ASSUME NEW w \in Widgets
                   PROVE  /\ widgets'[w] \in WidgetType
                          /\ widgets'[w].status = widgets[w].status /\ widgets'[w].reopen = widgets[w].reopen
                          /\ widgets'[w].id = widgets[w].id /\ widgets'[w].call = widgets[w].call
                          /\ widgets'[w].sent = widgets[w].sent
                          /\ widgets'[w].title \in {widgets[w].title, "terminated"}
                          /\ message.id = widgets[w].id /\ widgets[w].status = "open" => widgets'[w].title = "terminated"
        OBVIOUS
    <2>2. widgets[w] \in WidgetType
        BY <1>1
    <2>3. CASE widgets[w].status = "open" /\ widgets[w].id = message.id
        <3>1. widgets'[w] = [widgets[w] EXCEPT !.title = "terminated"]
            BY <2>3 DEF ReceiveExit
        <3> QED BY <2>2, <3>1 DEF WidgetType
    <2>4. CASE ~(widgets[w].status = "open" /\ widgets[w].id = message.id)
        <3>1. widgets'[w] = widgets[w]
            BY <2>4 DEF ReceiveExit
        <3> QED BY <2>2, <2>4, <3>1
    <2> QED BY <2>3, <2>4
<1>6. widgets' \in [Widgets -> WidgetType]
    <2>1. widgets' = [w \in Widgets |-> widgets'[w]]
        BY DEF ReceiveExit
    <2> QED BY <1>5, <2>1
<1>7. Handled(message, request)
    BY <1>1, <1>3, <1>4, <1>5, <1>6 DEF Handled
<1> QED BY <1>7

LEMMA ChannelReadyHandled ==
    ASSUME IInv, NEW message \in Messages, message.kind = "channelReady", ReceiveChannelReady(message)
    PROVE  \E request : Handled(message, request)
<1>1. widgets \in [Widgets -> WidgetType] /\ up' = up /\ abandoned' = abandoned
    BY DEF IInv, Shapes, ReceiveChannelReady
<1>2. PICK request : request = Message("channel", message.widget, message.id)
    OBVIOUS
<1>3. request \in Messages /\ request.kind = "channel"
    BY <1>2 DEF Message, Messages
<1>4. ~Answers(message)
    BY DEF Answers
<1>5. \A w \in Widgets :
        /\ widgets'[w] \in WidgetType
        /\ widgets'[w].status = widgets[w].status /\ widgets'[w].reopen = widgets[w].reopen
        /\ widgets'[w].id = widgets[w].id /\ widgets'[w].call = widgets[w].call /\ widgets'[w].sent = widgets[w].sent
        /\ widgets'[w].title = widgets[w].title
    <2>1. SUFFICES ASSUME NEW w \in Widgets
                   PROVE  /\ widgets'[w] \in WidgetType
                          /\ widgets'[w].status = widgets[w].status /\ widgets'[w].reopen = widgets[w].reopen
                          /\ widgets'[w].id = widgets[w].id /\ widgets'[w].call = widgets[w].call
                          /\ widgets'[w].sent = widgets[w].sent
                          /\ widgets'[w].title = widgets[w].title
        OBVIOUS
    <2>2. widgets[w] \in WidgetType
        BY <1>1
    <2>3. CASE w = message.widget /\ widgets[w].channel = "opening"
        <3>1. widgets'[w] = [widgets[w] EXCEPT !.channel = "open"]
            BY <2>3 DEF ReceiveChannelReady
        <3> QED BY <2>2, <3>1 DEF WidgetType
    <2>4. CASE ~(w = message.widget /\ widgets[w].channel = "opening")
        <3>1. widgets'[w] = widgets[w]
            BY <2>4 DEF ReceiveChannelReady
        <3> QED BY <2>2, <3>1
    <2> QED BY <2>3, <2>4
<1>6. widgets' \in [Widgets -> WidgetType]
    <2>1. widgets' = [w \in Widgets |-> widgets'[w]]
        BY DEF ReceiveChannelReady
    <2> QED BY <1>5, <2>1
<1>7. Handled(message, request)
    BY <1>1, <1>3, <1>4, <1>5, <1>6 DEF Handled
<1> QED BY <1>7

LEMMA ReceiveKeeps ==
    ASSUME IInv, Receive
    PROVE  IInv'
<1>1. PICK message : message = Head(down[socket.number])
    OBVIOUS
<1>2. /\ socket.open /\ down[socket.number] # << >> /\ down' = [down EXCEPT ![socket.number] = Tail(@)]
      /\ UNCHANGED <<processes, killed, failed, nextId, client, served, reloads>>
    BY DEF Receive
<1>3. socket.number \in Sockets /\ message \in Messages /\ message \in ToSet(down[socket.number])
    BY <1>1, <1>2, ReceivedOne DEF IInv
<1>4. Means(message)
    BY <1>2, <1>3 DEF IInv, Conversations
<1>5. ASSUME \E request : Handled(message, request), UNCHANGED <<socket, closes>>,
             message.kind \in {"created", "attached", "exit", "channelReady"}
      PROVE  IInv'
    <2>1. PICK request : Handled(message, request)
        BY <1>5
    <2>2. UNCHANGED <<processes, killed, failed, nextId, client, closes, socket, served>>
        BY <1>2, <1>5
    <2> QED BY <1>1, <1>2, <1>5, <2>1, <2>2, HandledKeeps
<1>6. CASE message.kind = "ready" /\ ReceiveReady /\ UNCHANGED abandoned
    BY <1>1, <1>2, <1>6, ReadyKeeps
<1>7. CASE message.kind = "created" /\ ReceiveCreated(message)
    <2>1. UNCHANGED <<socket, closes>>
        BY <1>7 DEF ReceiveCreated
    <2> QED BY <1>3, <1>4, <1>5, <1>7, <2>1, CreatedHandled
<1>8. CASE message.kind = "attached" /\ ReceiveAttached(message)
    <2>1. UNCHANGED <<socket, closes>>
        BY <1>8 DEF ReceiveAttached
    <2> QED BY <1>3, <1>4, <1>5, <1>8, <2>1, AttachedHandled
<1>9. CASE message.kind = "exit" /\ ReceiveExit(message.id)
    <2>1. UNCHANGED <<socket, closes>>
        BY <1>9 DEF ReceiveExit
    <2> QED BY <1>3, <1>5, <1>9, <2>1, ExitHandled
<1>10. CASE message.kind = "channelReady" /\ ReceiveChannelReady(message)
    <2>1. UNCHANGED <<socket, closes>>
        BY <1>10 DEF ReceiveChannelReady
    <2> QED BY <1>3, <1>5, <1>10, <2>1, ChannelReadyHandled
<1> QED BY <1>1, <1>6, <1>7, <1>8, <1>9, <1>10 DEF Receive

----------------------------------------------------------------------------
(* The theorems.                                                           *)

LEMMA IInvInit == Init => IInv
<1> SUFFICES ASSUME Init PROVE IInv
    OBVIOUS
<1>1. /\ \A w \in Widgets : widgets[w] = NewWidget
      /\ \A s \in Sockets : up[s] = << >> /\ down[s] = << >>
      /\ processes = {} /\ nextId = 0 /\ closes = << >> /\ served = {}
      /\ socket = [number |-> 0, open |-> FALSE, connected |-> FALSE]
    BY DEF Init
<1>2. NewWidget \in WidgetType /\ NewWidget.status = "none" /\ NewWidget.id = None /\ NewWidget.call = "none"
      /\ NewWidget.sent = FALSE /\ NewWidget.reopen = FALSE
    BY DEF NewWidget, WidgetType, None
<1>3. << >> \in Seq(Messages) /\ ToSet(<< >>) = {}
    BY Empty
<1>4. Shapes
    <2>1. /\ widgets \in [Widgets -> WidgetType]
          /\ up \in [Sockets -> Seq(Messages)] /\ down \in [Sockets -> Seq(Messages)]
        BY <1>2, <1>3 DEF Init
    <2>2. socket \in [number : Nat, open : BOOLEAN, connected : BOOLEAN] /\ ~socket.open /\ ~socket.connected
        BY <1>1
    <2> QED BY <1>1, <1>3, <2>1, <2>2 DEF Shapes
<1>5. Owned
    BY <1>1, <1>2, <1>3 DEF Owned, Names
<1>6. Conversations /\ ExitsTold /\ OrphansExplained
    BY <1>1 DEF Conversations, ExitsTold, OrphansExplained
<1>7. Starts
    BY <1>1, <1>2 DEF Starts
<1> QED BY <1>4, <1>5, <1>6, <1>7 DEF IInv

LEMMA IInvNext == IInv /\ [Next]_vars => IInv'
<1> SUFFICES ASSUME IInv, [Next]_vars PROVE IInv'
    OBVIOUS
<1>1. ASSUME NEW w \in Widgets, Open(w) \/ Dispose(w) PROVE IInv'
    BY <1>1, OpenKeeps, DisposeKeeps
<1>2. CASE Connect \/ Close \/ Reload \/ Receive
    BY <1>2, ConnectKeeps, CloseKeeps, ReloadKeeps, ReceiveKeeps
<1>3. ASSUME NEW s \in Sockets, Serve(s) \/ ServerClose(s) PROVE IInv'
    BY <1>3, ServeKeeps, ServerCloseKeeps
<1>4. ASSUME NEW p \in Ids, Exit(p) PROVE IInv'
    BY <1>4, ExitKeeps
<1>5. CASE UNCHANGED vars
    BY <1>5 DEF IInv, vars, Shapes, Owned, Names, Conversations, Means, Starts, ExitsTold, OrphansExplained, Known
<1> QED BY <1>1, <1>2, <1>3, <1>4, <1>5 DEF Next

LEMMA Invariance == Spec => []IInv
<1> QED BY IInvInit, IInvNext, PTL DEF Spec

\* However often connections are lost and pages are loaded again, and in whatever order their late
\* messages arrive, no two widgets have one terminal: start of terminal-widget.ts gives a widget an
\* id that the process manager has just made, or that it had before.
THEOREM TerminalHasOneWidget == Spec => []OneWidgetPerTerminal
<1>1. IInv => OneWidgetPerTerminal
    <2>1. SUFFICES ASSUME IInv, NEW v \in Widgets, NEW w \in Widgets, v # w, widgets[v].id # None,
                          widgets[v].id = widgets[w].id
                   PROVE  FALSE
        BY DEF OneWidgetPerTerminal
    <2>2. widgets[v] \in WidgetType
        BY <2>1 DEF IInv, Shapes
    <2>3. PICK id \in Int : id = widgets[v].id
        BY <2>2 DEF WidgetType
    <2>4. Names(v, id) /\ Names(w, id)
        BY <2>1, <2>3 DEF Names
    <2> QED BY <2>1, <2>3, <2>4 DEF IInv, Owned
<1> QED BY <1>1, Invariance, PTL

\* A process that runs is known to a widget, to a message or to the manager that is ending it, but for
\* those whose id or close call was lost, that came too late for their widget, or that never ran.
THEOREM NoOrphans == Spec => []OrphansExplained
<1>1. IInv => OrphansExplained
    BY DEF IInv
<1> QED BY <1>1, Invariance, PTL

\* A widget whose process has ended says so once nothing is under way, also when the exit comes between
\* its request and the answer.
THEOREM ExitIsTold == Spec => []TitleTellsExit
<1>1. IInv => TitleTellsExit
    <2>1. SUFFICES ASSUME IInv, Quiet, client = socket.number, NEW w \in Widgets, widgets[w].status = "open",
                          widgets[w].id # None, widgets[w].id \notin processes
                   PROVE  widgets[w].title = "terminated"
        BY DEF TitleTellsExit
    <2>2. socket.connected /\ down[socket.number] = << >> /\ up[socket.number] = << >>
        BY <2>1 DEF Quiet
    <2>3. DOMAIN << >> = {} /\ ToSet(<< >>) = {}
        BY Empty
    <2>4. widgets[w].call = "none"
        BY <2>1, <2>2, <2>3 DEF IInv, Starts
    <2>5. ~Told(widgets[w].id, << >>, 0)
        BY <2>3 DEF Told
    <2> QED BY <2>1, <2>2, <2>4, <2>5 DEF IInv, ExitsTold
<1> QED BY <1>1, Invariance, PTL

----------------------------------------------------------------------------
(* Only processes that have been spawned are named, closed and killed.    *)

\* Processes that were made and have been spawned; only they are named anywhere.
Ran == (0 .. nextId - 1) \ failed
Named == Ran \union {None}
Carried == {m \in Messages : m.id \in Named}

\* A widget has the id of such a process, or none, and a channel only with an id and a connection.
Fits(widget) == widget.id \in Named /\ (widget.channel # "none" => widget.id # None /\ socket.connected)

\* What the process manager holds, what sockets there are, what widgets have, and what messages name.
Registered == killed \subseteq processes \ failed /\ failed \subseteq processes /\ nextId <= MaxProcesses
Reached == client \in 0 .. socket.number /\ served \subseteq 1 .. socket.number
Fitting == \A w \in Widgets : Fits(widgets[w])
Carries ==
    up \in [Sockets -> Seq(Carried)] /\ down \in [Sockets -> Seq(Carried)] /\ closes \in Seq(Carried)

Rest == Registered /\ Reached /\ Fitting /\ Carries

LEMMA CarriedSeq ==
    ASSUME NEW s \in Seq(Messages), \A m \in ToSet(s) : m.id \in Named
    PROVE  s \in Seq(Carried)
<1>1. \A i \in DOMAIN s : s[i] \in Messages /\ s[i] \in ToSet(s)
    BY Members
<1>2. \A i \in DOMAIN s : s[i] \in Carried
    BY <1>1 DEF Carried
<1>3. \A S : (\A i \in DOMAIN s : s[i] \in S) => s \in Seq(S)
    OBVIOUS
<1> QED BY <1>2, <1>3

LEMMA CarriedGrows ==
    ASSUME Named \subseteq Named'
    PROVE  Carried \subseteq Carried' /\ Seq(Carried) \subseteq Seq(Carried')
<1>1. Carried \subseteq Carried'
    BY DEF Carried, Messages
<1>2. \A S, T : S \subseteq T => Seq(S) \subseteq Seq(T)
    OBVIOUS
<1> QED BY <1>1, <1>2

LEMMA CarriedSame ==
    ASSUME nextId' = nextId, failed' = failed
    PROVE  Named' = Named /\ Carried' = Carried
BY DEF Named, Carried, Ran, Messages

LEMMA InitRest == Init => Rest
<1> SUFFICES ASSUME Init PROVE Rest
    OBVIOUS
<1>1. Registered
    BY TerminalsAssumption DEF Init, Registered
<1>2. Reached
    BY DEF Init, Reached
<1>3. Fitting
    BY DEF Init, Fitting, Fits, NewWidget, Named
<1>4. Carries
    BY DEF Init, Carries
<1> QED BY <1>1, <1>2, <1>3, <1>4 DEF Rest

\* Calls of the page are about terminals that its widgets have.
LEMMA SendRest ==
    ASSUME IInv, Rest, NEW ws \in [Widgets -> WidgetType], NEW calls \in Seq(Carried), Send(ws, calls),
           \A w \in Widgets : Fits(ws[w]),
           UNCHANGED <<processes, killed, failed, nextId, client, socket, served, down>>
    PROVE  Rest'
<1> DEFINE n == socket.number
<1>1. /\ Named' = Named /\ Carried' = Carried
      /\ up \in [Sockets -> Seq(Carried)] /\ down \in [Sockets -> Seq(Carried)] /\ closes \in Seq(Carried)
    BY CarriedSame DEF Rest, Carries
<1>2. CASE socket.connected
    <2>1. n \in Sockets
        BY <1>2 DEF IInv, Shapes
    <2>2. PICK order \in SetToSeqs(Requests(ws)) : up' = [up EXCEPT ![n] = @ \o order \o calls]
        BY <1>2 DEF Send
    <2>3. widgets' = [w \in Widgets |-> [ws[w] EXCEPT !.sent = ws[w].call # "none"]] /\ closes' = closes
        BY <1>2 DEF Send
    <2>4. order \in Seq(Messages) /\ \A m \in ToSet(order) : m.widget \in Widgets /\ m.id = ws[m.widget].id
        BY <2>2, Requested
    <2>5. order \in Seq(Carried)
        BY <2>4, CarriedSeq DEF Fits
    <2>6. up[n] \o order \o calls \in Seq(Carried)
        <3>1. up[n] \in Seq(Carried)
            BY <1>1, <2>1
        <3>2. up[n] \o order \in Seq(Carried)
            BY <2>5, <3>1, Joined
        <3> QED BY <3>2, Joined
    <2>7. \A w \in Widgets : widgets'[w].id = ws[w].id /\ widgets'[w].channel = ws[w].channel
        <3>1. SUFFICES ASSUME NEW w \in Widgets
                       PROVE  widgets'[w].id = ws[w].id /\ widgets'[w].channel = ws[w].channel
            OBVIOUS
        <3>2. ws[w] \in WidgetType /\ widgets'[w] = [ws[w] EXCEPT !.sent = ws[w].call # "none"]
            BY <2>3
        <3> QED BY <3>2 DEF WidgetType
    <2>8. Fitting'
        BY <1>1, <2>7 DEF Fitting, Fits
    <2>9. Carries'
        BY <1>1, <2>2, <2>3, <2>6 DEF Carries
    <2> QED BY <2>8, <2>9 DEF Rest, Registered, Reached
<1>3. CASE ~socket.connected
    <2>1. widgets' = ws /\ closes' = closes \o calls /\ up' = up
        BY <1>3 DEF Send
    <2>2. closes' \in Seq(Carried)
        BY <1>1, <2>1, Joined
    <2> QED BY <1>1, <2>1, <2>2 DEF Rest, Registered, Reached, Fitting, Fits, Carries
<1> QED BY <1>2, <1>3

LEMMA OpenRest ==
    ASSUME IInv, Rest, NEW w \in Widgets, Open(w)
    PROVE  Rest'
<1>1. widgets \in [Widgets -> WidgetType] /\ widgets[w] \in WidgetType
    BY DEF IInv, Shapes
<1>2. PICK ws : ws = [widgets EXCEPT ![w] = [Started(@) EXCEPT !.status = "open"]]
    OBVIOUS
<1>3. /\ Send(ws, << >>)
      /\ UNCHANGED <<processes, killed, failed, nextId, client, socket, served, down, reloads, abandoned>>
    BY <1>2 DEF Open
<1>4. /\ ws[w] \in WidgetType /\ ws[w].id = widgets[w].id /\ ws[w].channel = widgets[w].channel
      /\ ws \in [Widgets -> WidgetType] /\ \A v \in Widgets : v # w => ws[v] = widgets[v]
    <2>1. ws[w] = [Started(widgets[w]) EXCEPT !.status = "open"]
        BY <1>1, <1>2
    <2>2. ws[w] \in WidgetType /\ ws[w].id = widgets[w].id /\ ws[w].channel = widgets[w].channel
        BY <1>1, <2>1 DEF Started, WidgetType
    <2> QED BY <1>1, <1>2, <2>2
<1>5. \A v \in Widgets : Fits(ws[v])
    BY <1>4 DEF Rest, Fitting, Fits
<1>6. << >> \in Seq(Carried)
    OBVIOUS
<1> QED BY <1>3, <1>4, <1>5, <1>6, SendRest

LEMMA DisposeRest ==
    ASSUME IInv, Rest, NEW w \in Widgets, Dispose(w)
    PROVE  Rest'
<1>1. widgets \in [Widgets -> WidgetType] /\ widgets[w] \in WidgetType
    BY DEF IInv, Shapes
<1>2. PICK disposed : disposed = [NewWidget EXCEPT !.status = "disposed",
                                         !.id = IF widgets[w].call = "none" THEN None ELSE widgets[w].id,
                                         !.call = widgets[w].call, !.sent = widgets[w].sent]
    OBVIOUS
<1>3. PICK ws : ws = [widgets EXCEPT ![w] = disposed]
    OBVIOUS
<1>4. PICK calls : calls = IF widgets[w].id = None THEN << >> ELSE <<Message("close", w, widgets[w].id)>>
    OBVIOUS
<1>5. /\ Send(ws, calls)
      /\ UNCHANGED <<processes, killed, failed, nextId, client, socket, served, down, reloads, abandoned>>
    BY <1>2, <1>3, <1>4 DEF Dispose
<1>6. disposed \in WidgetType /\ disposed.id \in {None, widgets[w].id} /\ disposed.channel = "none"
    <2>1. PICK id \in {None, widgets[w].id} : id = IF widgets[w].call = "none" THEN None ELSE widgets[w].id
        OBVIOUS
    <2>2. disposed = [NewWidget EXCEPT !.status = "disposed", !.id = id, !.call = widgets[w].call, !.sent = widgets[w].sent]
        BY <1>2, <2>1
    <2>3. disposed = [status |-> "disposed", id |-> id, call |-> widgets[w].call, sent |-> widgets[w].sent,
                      reopen |-> FALSE, channel |-> "none", title |-> "shell"]
        BY <2>2 DEF NewWidget
    <2> QED BY <1>1, <2>1, <2>3 DEF WidgetType, None
<1>7. ws \in [Widgets -> WidgetType] /\ ws[w] = disposed /\ \A v \in Widgets : v # w => ws[v] = widgets[v]
    BY <1>1, <1>3, <1>6
<1>8. \A v \in Widgets : Fits(ws[v])
    BY <1>6, <1>7 DEF Rest, Fitting, Fits, Named
<1>9. calls \in Seq(Carried)
    <2>1. Message("close", w, widgets[w].id) \in Carried
        BY <1>1 DEF Message, Messages, Carried, Rest, Fitting, Fits, WidgetType
    <2> QED BY <1>4, <2>1
<1> QED BY <1>5, <1>7, <1>8, <1>9, SendRest

LEMMA FirstMessage == ASSUME NEW k, k \in {"shell", "ready"} PROVE Message(k, First, None) \in Carried
BY DEF Message, Messages, Carried, Named, None

LEMMA ConnectRest ==
    ASSUME IInv, Rest, Connect
    PROVE  Rest'
<1> DEFINE n == socket.number + 1
<1>1. /\ socket \in [number : Nat, open : BOOLEAN, connected : BOOLEAN] /\ ~socket.connected
      /\ nextId' = nextId /\ failed' = failed /\ processes' = processes /\ killed' = killed /\ client' = client
      /\ widgets' = widgets /\ closes' = closes /\ down' = down
      /\ socket' = [number |-> n, open |-> TRUE, connected |-> FALSE] /\ served' = served \union {n}
      /\ up' = [up EXCEPT ![n] = IF handler THEN <<Message("shell", First, None)>> ELSE << >>]
    BY DEF Connect, IInv, Shapes, First
<1>2. Named' = Named /\ Carried' = Carried
    BY <1>1, CarriedSame
<1>3. Carries'
    <2>1. <<Message("shell", First, None)>> \in Seq(Carried) /\ << >> \in Seq(Carried)
        BY FirstMessage, One, Empty
    <2> QED BY <1>1, <1>2, <2>1 DEF Carries, Rest
<1>4. Reached'
    <2>1. n \in Nat /\ n > socket.number /\ socket'.number = n
        BY <1>1
    <2>2. /\ client \in 0 .. socket.number /\ served \subseteq 1 .. socket.number /\ client' = client
          /\ served' = served \union {n} /\ socket.number \in Nat
        BY <1>1 DEF Rest, Reached
    <2>3. PICK k : k = socket.number
        OBVIOUS
    <2>4. client' \in 0 .. k + 1 /\ served' \subseteq 1 .. k + 1
        <3>1. k \in Nat /\ n = k + 1
            BY <2>2, <2>3
        <3>2. client \in 0 .. k /\ served \subseteq 1 .. k
            BY <2>2, <2>3
        <3>3. client' = client /\ served' = served \union {k + 1}
            BY <2>2, <3>1
        <3>4. \A i \in 1 .. k : i \in 1 .. k + 1
            BY <3>1
        <3> QED BY ONLY <3>1, <3>2, <3>3, <3>4
    <2> QED BY <2>1, <2>3, <2>4 DEF Reached
<1>5. Fitting'
    BY <1>1, <1>2 DEF Rest, Fitting, Fits
<1> QED BY <1>1, <1>3, <1>4, <1>5 DEF Rest, Registered

LEMMA CloseRest ==
    ASSUME IInv, Rest, Close
    PROVE  Rest'
<1>1. /\ nextId' = nextId /\ failed' = failed /\ processes' = processes /\ killed' = killed /\ client' = client
      /\ up' = up /\ closes' = closes /\ served' = served
      /\ socket' = [socket EXCEPT !.open = FALSE, !.connected = FALSE]
      /\ down' = [down EXCEPT ![socket.number] = << >>]
    BY DEF Close
<1>2. socket'.number = socket.number
    BY <1>1 DEF IInv, Shapes
<1>3. Named' = Named /\ Carried' = Carried
    BY <1>1, CarriedSame
<1>4. Carries'
    <2>1. << >> \in Seq(Carried)
        OBVIOUS
    <2>2. up \in [Sockets -> Seq(Carried)] /\ down \in [Sockets -> Seq(Carried)] /\ closes \in Seq(Carried)
        BY DEF Rest, Carries
    <2>3. down' \in [Sockets -> Seq(Carried)]
        BY <1>1, <2>1, <2>2
    <2> QED BY <1>1, <1>3, <2>1, <2>2, <2>3 DEF Carries
<1>5. \A w \in Widgets : widgets'[w].id = widgets[w].id /\ widgets'[w].channel = "none"
    <2>1. SUFFICES ASSUME NEW w \in Widgets PROVE widgets'[w].id = widgets[w].id /\ widgets'[w].channel = "none"
        OBVIOUS
    <2>2. widgets[w] \in WidgetType
        BY DEF IInv, Shapes
    <2>3. \E call, reopen : widgets'[w] =
                [widgets[w] EXCEPT !.call = call, !.sent = FALSE, !.reopen = reopen, !.channel = "none"]
        BY DEF Close
    <2> QED BY <2>2, <2>3 DEF WidgetType
<1>6. Fitting'
    BY <1>3, <1>5 DEF Rest, Fitting, Fits
<1> QED BY <1>1, <1>2, <1>4, <1>6 DEF Rest, Registered, Reached

LEMMA ReloadRest ==
    ASSUME IInv, Rest, Reload
    PROVE  Rest'
<1>1. /\ nextId' = nextId /\ failed' = failed /\ processes' = processes /\ killed' = killed /\ client' = client
      /\ up' = up /\ closes' = << >> /\ served' = served
      /\ socket' = [socket EXCEPT !.open = FALSE, !.connected = FALSE]
      /\ down' \in {[down EXCEPT ![socket.number] = << >>], down}
    BY DEF Reload
<1>2. socket'.number = socket.number
    BY <1>1 DEF IInv, Shapes
<1>3. Named' = Named /\ Carried' = Carried
    BY <1>1, CarriedSame
<1>4. Carries'
    <2>1. << >> \in Seq(Carried)
        OBVIOUS
    <2>2. up \in [Sockets -> Seq(Carried)] /\ down \in [Sockets -> Seq(Carried)] /\ closes \in Seq(Carried)
        BY DEF Rest, Carries
    <2>3. down' \in [Sockets -> Seq(Carried)]
        BY <1>1, <2>1, <2>2
    <2> QED BY <1>1, <1>3, <2>1, <2>2, <2>3 DEF Carries
<1>5. \A w \in Widgets : widgets'[w].id \in {None, widgets[w].id} /\ widgets'[w].channel = "none"
    <2>1. SUFFICES ASSUME NEW w \in Widgets
                   PROVE  widgets'[w].id \in {None, widgets[w].id} /\ widgets'[w].channel = "none"
        OBVIOUS
    <2>2. widgets[w] \in WidgetType
        BY DEF IInv, Shapes
    <2>3. CASE widgets[w].status = "open"
        <3>1. widgets'[w] = Started([NewWidget EXCEPT !.status = "open", !.id = widgets[w].id, !.title = widgets[w].title])
            BY <2>3 DEF Reload
        <3> QED BY <3>1 DEF Started, NewWidget
    <2>4. CASE widgets[w].status # "open"
        <3>1. widgets'[w] = [NewWidget EXCEPT !.status = widgets[w].status]
            BY <2>4 DEF Reload
        <3> QED BY <3>1 DEF NewWidget
    <2> QED BY <2>3, <2>4
<1>6. Fitting'
    BY <1>3, <1>5 DEF Rest, Fitting, Fits, Named
<1> QED BY <1>1, <1>2, <1>4, <1>6 DEF Rest, Registered, Reached

\* The page handles a message: what it then has and sends is about the terminal of the message.
LEMMA ReceiveRest ==
    ASSUME IInv, Rest, Receive
    PROVE  Rest'
<1> DEFINE n == socket.number
<1>1. PICK message : message = Head(down[n])
    OBVIOUS
<1>2. /\ socket.open /\ down[n] # << >> /\ down' = [down EXCEPT ![n] = Tail(@)]
      /\ UNCHANGED <<processes, killed, failed, nextId, client, served, reloads>>
    BY DEF Receive
<1>3. \/ message.kind = "ready" /\ ReceiveReady /\ UNCHANGED abandoned
      \/ message.kind = "created" /\ ReceiveCreated(message)
      \/ message.kind = "attached" /\ ReceiveAttached(message)
      \/ message.kind = "exit" /\ ReceiveExit(message.id)
      \/ message.kind = "channelReady" /\ ReceiveChannelReady(message)
    BY <1>1 DEF Receive
<1>4. /\ n \in Sockets /\ widgets \in [Widgets -> WidgetType]
      /\ socket \in [number : Nat, open : BOOLEAN, connected : BOOLEAN]
    BY <1>2 DEF IInv, Shapes
<1>5. /\ Named' = Named /\ Carried' = Carried
      /\ up \in [Sockets -> Seq(Carried)] /\ down \in [Sockets -> Seq(Carried)] /\ closes \in Seq(Carried)
      /\ \A w \in Widgets : Fits(widgets[w])
    BY <1>2, CarriedSame DEF Rest, Carries, Fitting
<1>6. message \in Carried /\ Tail(down[n]) \in Seq(Carried) /\ message \in ToSet(down[n])
    <2>1. down[n] \in Seq(Carried)
        BY <1>4, <1>5
    <2> QED BY <1>1, <1>2, <2>1, Taken
<1>7. down' \in [Sockets -> Seq(Carried)]
    BY <1>2, <1>5, <1>6
<1>8. SUFFICES socket'.number = n /\ Fitting' /\ up' \in [Sockets -> Seq(Carried)] /\ closes' \in Seq(Carried)
    BY <1>2, <1>5, <1>7 DEF Rest, Registered, Reached, Carries
<1>9. CASE message.kind = "ready" /\ ReceiveReady
    <2>1. PICK back : back = [w \in Widgets |->
                IF widgets[w].reopen /\ widgets[w].id # None THEN Started(widgets[w]) ELSE widgets[w]]
        OBVIOUS
    <2>2. PICK order \in SetToSeqs(Requests(back)) :
            /\ up' = [up EXCEPT ![n] = @ \o closes \o order]
            /\ widgets' = [w \in Widgets |-> [back[w] EXCEPT !.sent = back[w].call # "none", !.reopen = FALSE]]
        BY <1>9, <2>1 DEF ReceiveReady
    <2>3. socket' = [socket EXCEPT !.connected = TRUE] /\ closes' = << >>
        BY <1>9 DEF ReceiveReady
    <2>4. \A w \in Widgets : /\ back[w] \in WidgetType
                             /\ back[w].id = widgets[w].id /\ back[w].channel = widgets[w].channel
        <3>1. SUFFICES ASSUME NEW w \in Widgets
                       PROVE  /\ back[w] \in WidgetType
                              /\ back[w].id = widgets[w].id /\ back[w].channel = widgets[w].channel
            OBVIOUS
        <3>2. widgets[w] \in WidgetType /\ back[w] \in {widgets[w], Started(widgets[w])}
            BY <1>4, <2>1
        <3> QED BY <3>2 DEF Started, WidgetType
    <2>5. back \in [Widgets -> WidgetType]
        BY <2>1, <2>4
    <2>6. order \in Seq(Messages) /\ \A m \in ToSet(order) : m.widget \in Widgets /\ m.id = back[m.widget].id
        BY <2>2, <2>5, Requested
    <2>7. order \in Seq(Carried)
        BY <1>5, <2>4, <2>6, CarriedSeq DEF Fits
    <2>8. up[n] \o closes \o order \in Seq(Carried)
        <3>1. up[n] \in Seq(Carried)
            BY <1>4, <1>5
        <3>2. up[n] \o closes \in Seq(Carried)
            BY <1>5, <3>1, Joined
        <3> QED BY <2>7, <3>2, Joined
    <2>9. \A w \in Widgets : widgets'[w].id = widgets[w].id /\ widgets'[w].channel = widgets[w].channel
        <3>1. SUFFICES ASSUME NEW w \in Widgets
                       PROVE  widgets'[w].id = widgets[w].id /\ widgets'[w].channel = widgets[w].channel
            OBVIOUS
        <3>2. /\ widgets'[w] = [back[w] EXCEPT !.sent = back[w].call # "none", !.reopen = FALSE]
              /\ back[w] \in WidgetType
            BY <2>2, <2>4
        <3>3. widgets'[w].id = back[w].id /\ widgets'[w].channel = back[w].channel
            BY <3>2 DEF WidgetType
        <3> QED BY <2>4, <3>3
    <2>10. socket'.number = n /\ socket'.connected
        BY <1>4, <2>3
    <2>11. Fitting'
        BY <1>5, <2>9, <2>10 DEF Fitting, Fits
    <2>12. up' \in [Sockets -> Seq(Carried)]
        BY <1>5, <2>2, <2>8
    <2>13. << >> \in Seq(Carried)
        OBVIOUS
    <2> QED BY <2>3, <2>10, <2>11, <2>12, <2>13
<1>10. ASSUME message.kind \in {"created", "attached"}
       PROVE  message.widget \in Widgets /\ socket.connected
    <2>1. Means(message)
        BY <1>2, <1>6 DEF IInv, Conversations
    <2> QED BY <1>10, <2>1 DEF Means, Answers, IInv, Starts
<1>11. ASSUME message.kind \in {"created", "attached"}, Attached(message.widget, message.id),
              UNCHANGED <<socket, closes>>
       PROVE  socket'.number = n /\ Fitting' /\ up' \in [Sockets -> Seq(Carried)] /\ closes' \in Seq(Carried)
    <2>1. message.widget \in Widgets /\ socket.connected /\ message.id \in Named
        BY <1>6, <1>10, <1>11 DEF Carried
    <2>2. /\ widgets' = [widgets EXCEPT ![message.widget] =
                            [@ EXCEPT !.call = "none", !.sent = FALSE, !.id = message.id,
                                      !.channel = IF message.id = None THEN "none" ELSE "opening"]]
          /\ up' \in {up, [up EXCEPT ![n] = Append(@, Message("channel", message.widget, message.id))]}
        BY <1>11 DEF Attached
    <2>3. /\ widgets'[message.widget].id = message.id
          /\ message.id = None => widgets'[message.widget].channel = "none"
          /\ \A w \in Widgets : w # message.widget => widgets'[w] = widgets[w]
        <3>1. widgets[message.widget] \in WidgetType
            BY <1>4, <2>1
        <3>2. widgets'[message.widget] =
                    [widgets[message.widget] EXCEPT !.call = "none", !.sent = FALSE, !.id = message.id,
                                      !.channel = IF message.id = None THEN "none" ELSE "opening"]
            BY <1>4, <2>1, <2>2
        <3>3. /\ widgets'[message.widget].id = message.id
              /\ message.id = None => widgets'[message.widget].channel = "none"
            BY <3>1, <3>2 DEF WidgetType
        <3> QED BY <1>4, <2>2, <3>3
    <2>4. Fitting'
        BY <1>5, <1>11, <2>1, <2>3 DEF Fitting, Fits
    <2>5. Message("channel", message.widget, message.id) \in Carried
        BY <1>6, <2>1 DEF Message, Carried, Messages
    <2>6. Append(up[n], Message("channel", message.widget, message.id)) \in Seq(Carried)
        BY <1>4, <1>5, <2>5, Appended
    <2> QED BY <1>5, <1>11, <2>2, <2>4, <2>6
<1>12. CASE message.kind = "created" /\ ReceiveCreated(message)
    BY <1>11, <1>12 DEF ReceiveCreated
<1>13. CASE message.kind = "attached" /\ ReceiveAttached(message)
    <2>1. CASE message.id # None
        BY <1>11, <1>13, <2>1 DEF ReceiveAttached
    <2>2. CASE message.id = None
        <3>1. /\ widgets' = [widgets EXCEPT ![message.widget] = [@ EXCEPT !.call = "create"]]
              /\ up' = [up EXCEPT ![n] = Append(@, Message("create", message.widget, None))]
              /\ socket' = socket /\ closes' = closes
            BY <1>13, <2>2 DEF ReceiveAttached
        <3>2. message.widget \in Widgets
            BY <1>10, <1>13
        <3>3. \A w \in Widgets : widgets'[w].id = widgets[w].id /\ widgets'[w].channel = widgets[w].channel
            <4>1. widgets[message.widget] \in WidgetType
                BY <1>4, <3>2
            <4>2. widgets'[message.widget] = [widgets[message.widget] EXCEPT !.call = "create"]
                BY <1>4, <3>1, <3>2
            <4>3. \A w \in Widgets : w # message.widget => widgets'[w] = widgets[w]
                BY <1>4, <3>1
            <4> QED BY <4>1, <4>2, <4>3 DEF WidgetType
        <3>4. Message("create", message.widget, None) \in Carried
            BY <3>2 DEF Message, Carried, Messages, Named, None
        <3>5. Append(up[n], Message("create", message.widget, None)) \in Seq(Carried)
            BY <1>4, <1>5, <3>4, Appended
        <3>6. up' \in [Sockets -> Seq(Carried)]
            BY <1>5, <3>1, <3>5
        <3>7. Fitting'
            BY <1>5, <3>1, <3>3 DEF Fitting, Fits
        <3> QED BY <1>5, <3>1, <3>6, <3>7
    <2> QED BY <2>1, <2>2
<1>14. CASE message.kind = "exit" /\ ReceiveExit(message.id)
    <2>1. \A w \in Widgets : widgets'[w].id = widgets[w].id /\ widgets'[w].channel = widgets[w].channel
        <3>1. SUFFICES ASSUME NEW w \in Widgets
                       PROVE  widgets'[w].id = widgets[w].id /\ widgets'[w].channel = widgets[w].channel
            OBVIOUS
        <3>2. widgets[w] \in WidgetType /\ widgets'[w] \in {widgets[w], [widgets[w] EXCEPT !.title = "terminated"]}
            BY <1>4, <1>14 DEF ReceiveExit
        <3> QED BY <3>2 DEF WidgetType
    <2> QED BY <1>5, <1>14, <2>1 DEF Fitting, Fits, ReceiveExit
<1>15. CASE message.kind = "channelReady" /\ ReceiveChannelReady(message)
    <2>1. \A w \in Widgets : /\ widgets'[w].id = widgets[w].id
                             /\ widgets'[w].channel # "none" => widgets[w].channel # "none"
        <3>1. SUFFICES ASSUME NEW w \in Widgets
                       PROVE  /\ widgets'[w].id = widgets[w].id
                              /\ widgets'[w].channel # "none" => widgets[w].channel # "none"
            OBVIOUS
        <3>2. /\ widgets[w] \in WidgetType
              /\ \/ widgets'[w] = widgets[w]
                 \/ widgets[w].channel = "opening" /\ widgets'[w] = [widgets[w] EXCEPT !.channel = "open"]
            BY <1>4, <1>15 DEF ReceiveChannelReady
        <3> QED BY <3>2 DEF WidgetType
    <2> QED BY <1>5, <1>15, <2>1 DEF Fitting, Fits, ReceiveChannelReady
<1> QED BY <1>3, <1>9, <1>12, <1>13, <1>14, <1>15

LEMMA AnswerCarried ==
    ASSUME down \in [Sockets -> Seq(Carried)], NEW S, Seq(Carried) \subseteq Seq(S), NEW s, NEW m \in S, Answer(s, m)
    PROVE  down' \in [Sockets -> Seq(S)]
<1>1. CASE s = socket.number /\ socket.open
    <2>1. down' = [down EXCEPT ![s] = Append(@, m)]
        BY <1>1 DEF Answer
    <2>2. s \in Sockets => Append(down[s], m) \in Seq(S)
        BY Appended
    <2> QED BY <2>1, <2>2
<1>2. CASE ~(s = socket.number /\ socket.open)
    BY <1>2 DEF Answer
<1> QED BY <1>1, <1>2

\* The backend serves a message: only a process that has been spawned is named in an answer.
LEMMA ServeRest ==
    ASSUME IInv, Rest, NEW s \in Sockets, Serve(s)
    PROVE  Rest'
<1>1. PICK message : message = Head(up[s])
    OBVIOUS
<1>2. /\ s \in served /\ up[s] # << >> /\ up' = [up EXCEPT ![s] = Tail(@)]
      /\ UNCHANGED <<widgets, closes, socket, served, reloads>>
    BY DEF Serve
<1>3. \/ message.kind = "shell" /\ ServeShell(s, message)
      \/ message.kind = "create" /\ ServeCreate(s, message)
      \/ message.kind = "attach" /\ ServeAttach(s, message)
      \/ message.kind = "close" /\ ServeClose(message)
      \/ message.kind = "channel" /\ ServeChannel(s, message)
    BY <1>1 DEF Serve
<1>4. /\ up \in [Sockets -> Seq(Carried)] /\ down \in [Sockets -> Seq(Carried)] /\ closes \in Seq(Carried)
      /\ nextId \in Nat /\ processes \subseteq 0 .. nextId - 1 /\ socket.number \in Nat
    BY DEF Rest, Carries, IInv, Shapes
<1>5. message \in Carried /\ Tail(up[s]) \in Seq(Carried)
    <2>1. up[s] \in Seq(Carried)
        BY <1>4
    <2> QED BY <1>1, <1>2, <2>1, Taken
<1>6. up' \in [Sockets -> Seq(Carried)]
    BY <1>2, <1>4, <1>5
<1>7. message \in Messages /\ message.id \in Named
    BY <1>5 DEF Carried
<1>8. \A k \in {"created", "attached", "channelReady", "ready"}, id \in Named \union Named' :
            id \in Int => Message(k, message.widget, id) \in Messages
    BY <1>7 DEF Message, Messages
<1>9. ASSUME Named \subseteq Named', down' \in [Sockets -> Seq(Carried')], Registered', client' \in {client, s}
      PROVE  Rest'
    <2>1. Seq(Carried) \subseteq Seq(Carried')
        BY <1>9, CarriedGrows
    <2>2. Carries'
        BY <1>2, <1>4, <1>6, <1>9, <2>1 DEF Carries
    <2>3. Reached'
        BY <1>2, <1>4, <1>9 DEF Rest, Reached
    <2>4. Fitting'
        BY <1>2, <1>9 DEF Rest, Fitting, Fits
    <2> QED BY <1>9, <2>2, <2>3, <2>4 DEF Rest
<1>10. ASSUME nextId' = nextId, failed' = failed, down' \in [Sockets -> Seq(Carried)], Registered', client' \in {client, s}
       PROVE  Rest'
    BY <1>9, <1>10, CarriedSame
<1>11. CASE message.kind = "shell" /\ ServeShell(s, message)
    <2>1. [message EXCEPT !.kind = "ready"] \in Carried
        BY <1>5 DEF Carried, Messages
    <2>2. Answer(s, [message EXCEPT !.kind = "ready"])
        BY <1>11 DEF ServeShell
    <2>3. down' \in [Sockets -> Seq(Carried)]
        BY <1>4, <2>1, <2>2, AnswerCarried
    <2> QED BY <1>10, <1>11, <2>3 DEF ServeShell, Rest, Registered
<1>12. CASE message.kind = "create" /\ ServeCreate(s, message)
    <2>1. killed' = killed /\ client' = client
        BY <1>12 DEF ServeCreate
    <2>2. CASE nextId < MaxProcesses /\ processes' = processes \union {nextId} /\ nextId' = nextId + 1
        <3>1. PICK id \in {nextId, None} :
                    /\ Answer(s, Message("created", message.widget, id))
                    /\ failed' = IF id = None THEN failed \union {nextId} ELSE failed
            BY <1>4, <1>12, <2>2 DEF ServeCreate, None
        <3>2. nextId \notin processes /\ nextId \notin failed /\ failed \subseteq 0 .. nextId - 1
            BY <1>4 DEF Rest, Registered
        <3>3. Ran' = IF id = None THEN Ran ELSE Ran \union {nextId}
            BY <1>4, <2>2, <3>1, <3>2 DEF Ran
        <3>4. Named \subseteq Named' /\ id \in Named' /\ id \in Int
            BY <1>4, <3>3 DEF Named, None
        <3>5. Message("created", message.widget, id) \in Carried'
            <4>1. Message("created", message.widget, id) \in Messages /\ Message("created", message.widget, id).id = id
                BY <1>8, <3>4 DEF Message
            <4> QED BY <3>4, <4>1 DEF Carried, Messages
        <3>6. down' \in [Sockets -> Seq(Carried')]
            BY <1>4, <3>1, <3>4, <3>5, AnswerCarried, CarriedGrows
        <3>7. Registered'
            <4>1. MaxProcesses \in Nat /\ nextId' <= MaxProcesses
                BY <1>4, <2>2, TerminalsAssumption
            <4> QED BY <2>1, <2>2, <3>1, <3>2, <4>1 DEF Rest, Registered
        <3> QED BY <1>9, <2>1, <3>4, <3>6, <3>7
    <2>3. CASE nextId = MaxProcesses /\ Answer(s, Message("created", message.widget, None))
               /\ UNCHANGED <<processes, nextId, failed>>
        <3>1. Message("created", message.widget, None) \in Carried
            <4>1. None \in Named /\ None \in Int
                BY DEF Named, None
            <4>2. Message("created", message.widget, None).id = None
                BY DEF Message
            <4> QED BY <1>8, <4>1, <4>2 DEF Carried
        <3>2. down' \in [Sockets -> Seq(Carried)]
            BY <1>4, <2>3, <3>1, AnswerCarried
        <3> QED BY <1>10, <2>1, <2>3, <3>2 DEF Rest, Registered
    <2> QED BY <1>12, <2>2, <2>3 DEF ServeCreate
<1>13. CASE message.kind = "attach" /\ ServeAttach(s, message)
    <2>1. PICK id \in {message.id, None} : Answer(s, Message("attached", message.widget, id))
        BY <1>13 DEF ServeAttach
    <2>2. id \in Named /\ id \in Int
        BY <1>7, <2>1 DEF Named, None, Messages
    <2>3. Message("attached", message.widget, id) \in Carried
        <3>1. Message("attached", message.widget, id).id = id
            BY DEF Message
        <3> QED BY <1>8, <2>2, <3>1 DEF Carried
    <2>4. down' \in [Sockets -> Seq(Carried)]
        BY <1>4, <2>1, <2>3, AnswerCarried
    <2> QED BY <1>10, <1>13, <2>4 DEF ServeAttach, Rest, Registered
<1>14. CASE message.kind = "close" /\ ServeClose(message)
    <2>1. message.id \in processes => message.id \notin failed
        BY <1>4, <1>7 DEF Named, Ran, None
    <2>2. Registered'
        BY <1>14, <2>1 DEF ServeClose, Rest, Registered
    <2> QED BY <1>4, <1>10, <1>14, <2>2 DEF ServeClose
<1>15. CASE message.kind = "channel" /\ ServeChannel(s, message)
    <2>1. Message("channelReady", message.widget, message.id) \in Carried
        <3>1. Message("channelReady", message.widget, message.id).id = message.id /\ message.id \in Int
            BY <1>7 DEF Message, Messages
        <3> QED BY <1>7, <1>8, <3>1 DEF Carried
    <2>2. down' \in [Sockets -> Seq(Carried)]
        <3>1. CASE message.id \in processes
            <4>1. Answer(s, Message("channelReady", message.widget, message.id))
                BY <1>15, <3>1 DEF ServeChannel
            <4> QED BY <1>4, <2>1, <4>1, AnswerCarried
        <3>2. CASE message.id \notin processes
            BY <1>4, <1>15, <3>2 DEF ServeChannel
        <3> QED BY <3>1, <3>2
    <2> QED BY <1>10, <1>15, <2>2 DEF ServeChannel, Rest, Registered
<1> QED BY <1>3, <1>11, <1>12, <1>13, <1>14, <1>15

LEMMA ServerCloseRest ==
    ASSUME IInv, Rest, NEW s \in Sockets, ServerClose(s)
    PROVE  Rest'
<1>1. /\ UNCHANGED <<processes, killed, failed, nextId, client, widgets, closes, socket, down, reloads>>
      /\ served' = served \ {s} /\ up' = [up EXCEPT ![s] = << >>]
    BY DEF ServerClose
<1>2. Named' = Named /\ Carried' = Carried
    BY <1>1, CarriedSame
<1>3. Carries'
    BY <1>1, <1>2 DEF Rest, Carries
<1> QED BY <1>1, <1>2, <1>3 DEF Rest, Registered, Reached, Fitting, Fits

LEMMA ExitRest ==
    ASSUME IInv, Rest, NEW p \in Ids, Exit(p)
    PROVE  Rest'
<1>1. /\ p \in processes \ failed /\ processes' = processes \ {p} /\ killed' = killed \ {p}
      /\ UNCHANGED <<failed, nextId, client, widgets, closes, socket, served, up, reloads>>
    BY DEF Exit
<1>2. Named' = Named /\ Carried' = Carried
    BY <1>1, CarriedSame
<1>3. down \in [Sockets -> Seq(Carried)] /\ processes \subseteq 0 .. nextId - 1
    BY DEF Rest, Carries, IInv, Shapes
<1>4. Message("exit", First, p) \in Carried
    <2>1. Message("exit", First, p).id = p /\ p \in Int /\ Message("exit", First, p).kind = "exit"
        BY DEF Message, Ids
    <2>2. Message("exit", First, p) \in Messages
        BY <2>1 DEF Message, Messages
    <2> QED BY <1>1, <1>3, <2>1, <2>2 DEF Carried, Named, Ran
<1>5. down' \in [Sockets -> Seq(Carried)]
    <2>1. CASE client \in served
        <3>1. Answer(client, Message("exit", First, p))
            BY <2>1 DEF Exit, First
        <3> QED BY <1>3, <1>4, <3>1, AnswerCarried
    <2>2. CASE client \notin served
        BY <1>3, <2>2 DEF Exit
    <2> QED BY <2>1, <2>2
<1>6. Carries'
    BY <1>1, <1>2, <1>5 DEF Rest, Carries
<1>7. Registered'
    BY <1>1 DEF Rest, Registered
<1> QED BY <1>1, <1>2, <1>6, <1>7 DEF Rest, Reached, Fitting, Fits

LEMMA NextRest == IInv /\ Rest /\ [Next]_vars => Rest'
<1> SUFFICES ASSUME IInv, Rest, [Next]_vars PROVE Rest'
    OBVIOUS
<1>1. ASSUME NEW w \in Widgets, Open(w) \/ Dispose(w) PROVE Rest'
    BY <1>1, OpenRest, DisposeRest
<1>2. CASE Connect \/ Close \/ Reload \/ Receive
    BY <1>2, ConnectRest, CloseRest, ReloadRest, ReceiveRest
<1>3. ASSUME NEW s \in Sockets, Serve(s) \/ ServerClose(s) PROVE Rest'
    BY <1>3, ServeRest, ServerCloseRest
<1>4. ASSUME NEW p \in Ids, Exit(p) PROVE Rest'
    BY <1>4, ExitRest
<1>5. CASE UNCHANGED vars
    <2>1. Named' = Named /\ Carried' = Carried
        BY <1>5, CarriedSame DEF vars
    <2> QED BY <1>5, <2>1 DEF vars, Rest, Registered, Reached, Fitting, Fits, Carries
<1> QED BY <1>1, <1>2, <1>3, <1>4, <1>5 DEF Next

\* What the flag of the shell proxy holds.
HandlerTyped == handler \in BOOLEAN

LEMMA NextHandlerTyped == IInv /\ HandlerTyped /\ [Next]_vars => HandlerTyped'
<1> SUFFICES ASSUME IInv, handler \in BOOLEAN, [Next]_vars PROVE handler' \in BOOLEAN
    BY DEF HandlerTyped
<1>1. CASE Close
    <2>1. socket.connected \in BOOLEAN
        BY DEF IInv, Shapes
    <2> QED BY <1>1, <2>1 DEF Close
<1>2. CASE Reload
    BY <1>2 DEF Reload
<1>3. CASE handler' = handler
    BY <1>3
<1>4. ASSUME NEW w \in Widgets, Open(w) \/ Dispose(w) PROVE handler' = handler
    BY <1>4 DEF Open, Dispose
<1>5. Connect \/ Receive \/ UNCHANGED vars => handler' = handler
    BY DEF Connect, Receive, vars
<1>6. ASSUME NEW s \in Sockets, Serve(s) \/ ServerClose(s) PROVE handler' = handler
    BY <1>6 DEF Serve, ServerClose
<1>7. ASSUME NEW p \in Ids, Exit(p) PROVE handler' = handler
    BY <1>7 DEF Exit
<1>8. \/ Connect \/ Close \/ Reload \/ Receive \/ UNCHANGED vars
      \/ \E w \in Widgets : Open(w) \/ Dispose(w)
      \/ \E s \in Sockets : Serve(s) \/ ServerClose(s)
      \/ \E p \in Ids : Exit(p)
    BY DEF Next
<1> QED BY <1>1, <1>2, <1>3, <1>4, <1>5, <1>6, <1>7, <1>8

\* The ids, calls and channels of widgets are what the backend and the connection allow: only a
\* process that has been spawned is killed, and a widget has a channel only to a terminal that it
\* names, and only while its page's proxy is connected.
THEOREM TerminalsTypeCorrect == Spec => []TypeOK
<1>1. IInv /\ Rest /\ HandlerTyped => TypeOK
    <2> SUFFICES ASSUME IInv, Rest, HandlerTyped PROVE TypeOK
        OBVIOUS
    <2>1. /\ killed \subseteq processes \ failed /\ failed \subseteq processes
          /\ processes \subseteq 0 .. nextId - 1 /\ nextId \in 0 .. MaxProcesses
        BY TerminalsAssumption DEF Rest, Registered, IInv, Shapes
    <2>2. client \in 0 .. socket.number /\ served \subseteq 1 .. socket.number
        BY DEF Rest, Reached
    <2>3. (socket.connected => socket.open /\ socket.number \in served) /\ (closes # << >> => ~socket.connected)
        BY DEF IInv, Shapes
    <2>4. ASSUME NEW w \in Widgets
          PROVE  /\ widgets[w].status \in {"none", "open", "disposed"}
                 /\ widgets[w].id \in Ids \union {None}
                 /\ widgets[w].call \in {"none", "create", "attach"}
                 /\ widgets[w].sent => widgets[w].call # "none" /\ socket.connected
                 /\ widgets[w].channel # "none" => widgets[w].id # None /\ socket.connected
        <3>1. widgets[w] \in WidgetType
            BY DEF IInv, Shapes
        <3>2. widgets[w].id \in Named /\ (widgets[w].channel # "none" => widgets[w].id # None /\ socket.connected)
            BY DEF Rest, Fitting, Fits
        <3>3. Named \subseteq Ids \union {None}
            BY TerminalsAssumption DEF Rest, Registered, IInv, Shapes, Named, Ran, Ids
        <3>4. widgets[w].sent => widgets[w].call # "none" /\ socket.connected
            BY DEF IInv, Starts
        <3> QED BY <3>1, <3>2, <3>3, <3>4 DEF WidgetType
    <2> QED BY <2>1, <2>2, <2>3, <2>4 DEF TypeOK, HandlerTyped
<1>2. Spec => []Rest
    BY InitRest, NextRest, Invariance, PTL DEF Spec
<1>3. Init => HandlerTyped
    BY DEF Init, HandlerTyped
<1> QED BY <1>1, <1>2, <1>3, NextHandlerTyped, Invariance, PTL DEF Spec
=============================================================================
