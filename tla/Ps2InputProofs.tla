--------------------------- MODULE Ps2InputProofs ---------------------------
(***************************************************************************)
(* Proofs about PS/2 input and interrupt dispatch (Ps2Input.tla, Irq.tla), *)
(* for rings of every size, every scan code table and every number of      *)
(* handler slots: the byte queues are bounded FIFO queues although an      *)
(* interrupt fills them between the two halves of dequeue, and no accepted *)
(* interrupt's deferred work is lost.                                      *)
(***************************************************************************)
EXTENDS Ps2Input, TLAPS

Indices == 0 .. RingSize - 1

\* The slot that is i steps after slot t.
At(t, i) == (t + i) % RingSize

\* The slots from tail to head hold bytes.
RingOK(r) ==
    /\ r \in [slots : {r.slots}, head : Indices, tail : Indices]
    /\ \A i \in 0 .. RingLength(r, RingSize) - 1 :
          At(r.tail, i) \in DOMAIN r.slots /\ r.slots[At(r.tail, i)] \in AllBytes

\* Where the main loop is between the two halves of dequeue on the queue of p.
Reading(p) == IF p = "kbd" THEN {"kbd", "drainKbd"} ELSE {"mouse", "drainMouse"}

RingsOK ==
    /\ ring \in [Ports -> {ring[p] : p \in Ports}]
    /\ \A p \in Ports : RingOK(ring[p])

\* The byte that dequeue has read and not yet taken is the oldest of its queue.
HeldByteOK ==
    local # NoByte =>
        \E p \in Ports : pc \in Reading(p) /\ ~IsEmpty(ring[p]) /\ local = Front1(ring[p])

\* The inductive invariant: what travels are bytes, both rings are sound, and
\* interrupts never take the byte that is being read away from the reader.
QueueInv ==
    /\ wire \in [Ports -> Seq(AllBytes)]
    /\ out = NoOut \/ out \in [port : Ports, byte : AllBytes]
    /\ irq \in [port : Ports \cup {"none"}, left : Int]
    /\ irq = Idle \/ irq.port \in Ports
    /\ cmd \in [port : Ports, attempt : Nat]
    /\ RingsOK
    /\ HeldByteOK

-----------------------------------------------------------------------------
(* The byte ring is a queue *)

\* Steps around the ring: at most one turn.
LEMMA AtIs ==
    ASSUME NEW t \in Indices, NEW i \in 0 .. RingSize
    PROVE  /\ At(t, i) = IF t + i >= RingSize THEN t + i - RingSize ELSE t + i
           /\ At(t, i) \in Indices
  BY Ps2Assumption DEF At, Indices

\* Within a turn no slot comes twice.
LEMMA AtDistinct ==
    ASSUME NEW t \in Indices, NEW i \in 0 .. RingSize - 1, NEW j \in 0 .. RingSize - 1,
           At(t, i) = At(t, j)
    PROVE  i = j
  <1>1. /\ t \in 0 .. RingSize - 1 /\ i \in 0 .. RingSize /\ j \in 0 .. RingSize
        /\ RingSize \in Nat \ {0}
    BY Ps2Assumption DEF Indices
  <1>2. /\ At(t, i) = IF t + i >= RingSize THEN t + i - RingSize ELSE t + i
        /\ At(t, j) = IF t + j >= RingSize THEN t + j - RingSize ELSE t + j
    BY Zenon, <1>1, AtIs
  <1>3. (IF t + i >= RingSize THEN t + i - RingSize ELSE t + i)
          = (IF t + j >= RingSize THEN t + j - RingSize ELSE t + j)
    BY Zenon, <1>2
  <1> QED
    BY <1>1, <1>3

\* next_index is one step around the ring.
LEMMA NextIs ==
    ASSUME NEW t \in Indices
    PROVE  NextIndex(t, RingSize) = At(t, 1) /\ NextIndex(t, RingSize) \in Indices
  <1>1. t \in 0 .. RingSize - 1 /\ 1 \in 0 .. RingSize /\ RingSize \in Nat \ {0}
    BY Ps2Assumption DEF Indices
  <1>2. At(t, 1) = (IF t + 1 >= RingSize THEN t + 1 - RingSize ELSE t + 1) /\ At(t, 1) \in Indices
    BY Zenon, <1>1, AtIs
  <1>3. NextIndex(t, RingSize) = IF t + 1 >= RingSize THEN t + 1 - RingSize ELSE t + 1
    BY <1>1 DEF NextIndex
  <1> QED
    BY Zenon, <1>2, <1>3

\* One step after i steps, and i steps after one, are i + 1 steps.
LEMMA AtNext ==
    ASSUME NEW t \in Indices, NEW i \in 0 .. RingSize - 1
    PROVE  At(At(t, i), 1) = At(t, i + 1) /\ At(At(t, 1), i) = At(t, i + 1)
  <1>1. /\ t \in 0 .. RingSize - 1 /\ RingSize \in Nat \ {0}
        /\ i \in 0 .. RingSize /\ i + 1 \in 0 .. RingSize /\ 1 \in 0 .. RingSize
    BY Ps2Assumption DEF Indices
  <1>2. /\ At(t, i) = IF t + i >= RingSize THEN t + i - RingSize ELSE t + i
        /\ At(t, i) \in Indices
    BY Zenon, <1>1, AtIs
  <1>3. At(t, i + 1) = IF t + (i + 1) >= RingSize THEN t + (i + 1) - RingSize ELSE t + (i + 1)
    BY Zenon, <1>1, AtIs
  <1>4. /\ At(t, 1) = IF t + 1 >= RingSize THEN t + 1 - RingSize ELSE t + 1
        /\ At(t, 1) \in Indices
    BY Zenon, <1>1, AtIs
  <1>5. At(At(t, 1), i) = IF At(t, 1) + i >= RingSize THEN At(t, 1) + i - RingSize
                          ELSE At(t, 1) + i
    BY Zenon, <1>1, <1>4, AtIs
  <1>6. At(At(t, i), 1) = IF At(t, i) + 1 >= RingSize THEN At(t, i) + 1 - RingSize
                          ELSE At(t, i) + 1
    BY Zenon, <1>1, <1>2, AtIs
  <1> QED
    BY <1>1, <1>2, <1>3, <1>4, <1>5, <1>6

\* The length of a ring: head is that many steps after tail, the ring is empty
\* when it is zero and full when one more step leads to tail.
LEMMA LengthIs ==
    ASSUME NEW r, r.head \in Indices, r.tail \in Indices
    PROVE  /\ RingLength(r, RingSize) \in 0 .. RingSize - 1
           /\ r.head = At(r.tail, RingLength(r, RingSize))
           /\ IsEmpty(r) <=> RingLength(r, RingSize) = 0
           /\ IsFull(r, RingSize) <=> RingLength(r, RingSize) = RingSize - 1
  <1> DEFINE L == RingLength(r, RingSize)
  <1>1. r.head \in 0 .. RingSize - 1 /\ r.tail \in 0 .. RingSize - 1 /\ RingSize \in Nat \ {0}
    BY Zenon, Ps2Assumption DEF Indices
  <1>2. L = IF r.head >= r.tail THEN r.head - r.tail ELSE r.head + RingSize - r.tail
    BY Zenon DEF RingLength
  <1> HIDE DEF L
  <1>3. L \in 0 .. RingSize - 1 /\ L \in 0 .. RingSize
    BY <1>1, <1>2
  <1>4. At(r.tail, L) = IF r.tail + L >= RingSize THEN r.tail + L - RingSize ELSE r.tail + L
    BY Zenon, <1>3, AtIs
  <1>5. r.head = At(r.tail, L)
    BY <1>1, <1>2, <1>3, <1>4
  <1>6. IsEmpty(r) <=> L = 0
    BY <1>1, <1>2 DEF IsEmpty
  <1>7. IsFull(r, RingSize) <=> L = RingSize - 1
    BY <1>1, <1>2 DEF IsFull, NextIndex
  <1> QED
    BY Zenon, <1>3, <1>5, <1>6, <1>7 DEF L

\* The length is the only number of steps below a turn from tail to head.
LEMMA LengthUnique ==
    ASSUME NEW r, r.head \in Indices, r.tail \in Indices,
           NEW n \in 0 .. RingSize - 1, r.head = At(r.tail, n)
    PROVE  RingLength(r, RingSize) = n
  BY Zenon, LengthIs, AtDistinct

\* Sequences of one length with the same elements are the same.
LEMMA SeqEqual ==
    ASSUME NEW S, NEW a \in Seq(S), NEW b \in Seq(S), Len(a) = Len(b),
           \A i \in 1 .. Len(a) : a[i] = b[i]
    PROVE  a = b
  OBVIOUS

\* The unread bytes are a sequence.
LEMMA ContentsIs ==
    ASSUME NEW r, RingOK(r)
    PROVE  /\ RingContents(r, RingSize) \in Seq(AllBytes)
           /\ Len(RingContents(r, RingSize)) = RingLength(r, RingSize)
           /\ \A i \in 1 .. RingLength(r, RingSize) :
                 RingContents(r, RingSize)[i] = r.slots[At(r.tail, i - 1)]
  <1> DEFINE L == RingLength(r, RingSize)
  <1>1. L \in Nat /\ r.tail \in Nat
    BY LengthIs, Ps2Assumption DEF RingOK, Indices
  <1>2. \A i \in 0 .. L - 1 : r.slots[At(r.tail, i)] \in AllBytes
    BY Zenon DEF RingOK
  <1>3. RingContents(r, RingSize) = [i \in 1 .. L |-> r.slots[(r.tail + i - 1) % RingSize]]
    BY Zenon DEF RingContents
  <1> HIDE DEF L
  <1>4. \A i \in 1 .. L : r.tail + i - 1 = r.tail + (i - 1) /\ i - 1 \in 0 .. L - 1
    BY <1>1
  <1>5. RingContents(r, RingSize) = [i \in 1 .. L |-> r.slots[At(r.tail, i - 1)]]
    BY Zenon, <1>3, <1>4 DEF At
  <1>6. \A i \in 1 .. L : r.slots[At(r.tail, i - 1)] \in AllBytes
    BY Zenon, <1>2, <1>4
  <1>7. /\ RingContents(r, RingSize) \in Seq(AllBytes) /\ Len(RingContents(r, RingSize)) = L
        /\ \A i \in 1 .. L : RingContents(r, RingSize)[i] = r.slots[At(r.tail, i - 1)]
    BY <1>1, <1>5, <1>6
  <1> QED
    BY Zenon, <1>7 DEF L
\* enqueue on a ring that is not full: the byte goes behind the others, which
\* stay, and the oldest of a ring that was not empty stays the oldest.
LEMMA EnqueuedIs ==
    ASSUME NEW r, RingOK(r), ~IsFull(r, RingSize), NEW b \in AllBytes,
           NEW n, n = Enqueued(r, b, RingSize)
    PROVE  /\ RingOK(n)
           /\ RingContents(n, RingSize) = Append(RingContents(r, RingSize), b)
           /\ ~IsEmpty(n)
           /\ ~IsEmpty(r) => Front1(n) = Front1(r)
  <1>1. PICK L : L = RingLength(r, RingSize)
    BY Zenon
  <1>2. /\ r.head \in Indices /\ r.tail \in Indices /\ RingSize \in Nat \ {0}
        /\ L \in 0 .. RingSize - 1 /\ L # RingSize - 1
        /\ r.head = At(r.tail, L) /\ (IsEmpty(r) <=> L = 0)
    BY Zenon, <1>1, LengthIs, Ps2Assumption DEF RingOK
  <1>3. L \in 0 .. RingSize - 2 /\ L + 1 \in 0 .. RingSize - 1 /\ L + 1 # 0
    BY <1>2
  <1>4. /\ n.tail = r.tail /\ n.head = NextIndex(r.head, RingSize)
        /\ n.slots = [s \in DOMAIN r.slots \cup {r.head} |-> IF s = r.head THEN b ELSE r.slots[s]]
        /\ n \in [slots : {n.slots}, head : {n.head}, tail : {n.tail}]
    BY Zenon DEF RingOK, Enqueued
  <1>5. n.head = At(n.tail, L + 1) /\ n.head \in Indices /\ n.tail \in Indices
    BY <1>2, <1>4, NextIs, AtNext
  <1>6. RingLength(n, RingSize) = L + 1
    BY Zenon, <1>3, <1>5, LengthUnique
  <1>7. \A i \in 0 .. L - 1 : At(r.tail, i) # r.head
    BY <1>2, AtDistinct
  <1>8. \A i \in 0 .. L - 1 : /\ At(r.tail, i) \in DOMAIN n.slots
                              /\ n.slots[At(r.tail, i)] = r.slots[At(r.tail, i)]
                              /\ r.slots[At(r.tail, i)] \in AllBytes
    BY Zenon, <1>1, <1>4, <1>7 DEF RingOK
  <1>9. At(r.tail, L) \in DOMAIN n.slots /\ n.slots[At(r.tail, L)] = b
    BY Zenon, <1>2, <1>4
  <1>10. \A i \in 0 .. (L + 1) - 1 : i = L \/ i \in 0 .. L - 1
    BY <1>2
  <1>11. RingOK(n)
    BY SMTT(30), <1>4, <1>5, <1>6, <1>8, <1>9, <1>10 DEF RingOK
  <1>12. PICK c, d : c = RingContents(r, RingSize) /\ d = RingContents(n, RingSize)
    BY Zenon
  <1>13. /\ c \in Seq(AllBytes) /\ Len(c) = L
         /\ \A i \in 1 .. L : c[i] = r.slots[At(r.tail, i - 1)]
    BY Zenon, <1>1, <1>12, ContentsIs
  <1>14. /\ d \in Seq(AllBytes) /\ Len(d) = L + 1
         /\ \A i \in 1 .. L + 1 : d[i] = n.slots[At(r.tail, i - 1)]
    BY <1>4, <1>6, <1>11, <1>12, ContentsIs
  <1>15. /\ Append(c, b) \in Seq(AllBytes) /\ Len(Append(c, b)) = L + 1
         /\ \A i \in 1 .. L : Append(c, b)[i] = c[i]
         /\ Append(c, b)[L + 1] = b
    BY <1>2, <1>13
  <1>16. \A i \in 1 .. L + 1 : d[i] = Append(c, b)[i]
    <2> SUFFICES ASSUME NEW i \in 1 .. L + 1 PROVE d[i] = Append(c, b)[i]
      BY Zenon
    <2>1. CASE i = L + 1
      <3>1. (L + 1) - 1 = L /\ L + 1 \in 1 .. L + 1
        BY <1>2
      <3> QED
        BY Zenon, <2>1, <3>1, <1>9, <1>14, <1>15
    <2>2. CASE i \in 1 .. L
      <3>1. i - 1 \in 0 .. L - 1
        BY <1>2, <2>2
      <3> QED
        BY Zenon, <2>2, <3>1, <1>8, <1>13, <1>14, <1>15
    <2>3. L \in Nat /\ i \in 1 .. L + 1
      BY <1>2
    <2>4. i = L + 1 \/ i \in 1 .. L
      BY <2>3
    <2> QED
      BY Zenon, <2>1, <2>2, <2>4
  <1>17. d = Append(c, b)
    BY Zenon, <1>14, <1>15, <1>16, SeqEqual
  <1>18. ~IsEmpty(n)
    BY Zenon, <1>3, <1>5, <1>6, LengthIs
  <1>19. ASSUME ~IsEmpty(r) PROVE Front1(n) = Front1(r)
    <2>1. 0 \in 0 .. L - 1
      BY <1>2, <1>19
    <2>2. At(r.tail, 0) = r.tail
      <3>1. r.tail \in 0 .. RingSize - 1 /\ RingSize \in Nat \ {0}
        BY Zenon, <1>2 DEF Indices
      <3> QED
        BY <3>1 DEF At
    <2>3. n.slots[r.tail] = r.slots[r.tail]
      BY Zenon, <1>8, <2>1, <2>2
    <2>4. n.tail = r.tail
      BY Zenon, <1>4
    <2> QED
      BY Zenon, <2>3, <2>4 DEF Front1
  <1> QED
    BY Zenon, <1>11, <1>12, <1>17, <1>18, <1>19

\* The tail store of dequeue: the oldest byte leaves, the others stay.
LEMMA DequeuedIs ==
    ASSUME NEW r, RingOK(r), ~IsEmpty(r), NEW n, n = Dequeued(r, RingSize)
    PROVE  /\ RingOK(n)
           /\ RingContents(r, RingSize) # <<>>
           /\ RingContents(n, RingSize) = Tail(RingContents(r, RingSize))
  <1>1. PICK L : L = RingLength(r, RingSize)
    BY Zenon
  <1>2. /\ r.head \in Indices /\ r.tail \in Indices /\ RingSize \in Nat \ {0}
        /\ L \in 0 .. RingSize - 1 /\ L # 0
        /\ r.head = At(r.tail, L)
    BY Zenon, <1>1, LengthIs, Ps2Assumption DEF RingOK
  <1>3. PICK K : K = L - 1
    BY Zenon
  <1>4. K \in 0 .. RingSize - 2 /\ K \in 0 .. RingSize - 1 /\ K + 1 = L /\ K \in Nat
    BY <1>2, <1>3
  <1>5. /\ n.head = r.head /\ n.tail = NextIndex(r.tail, RingSize)
        /\ n.slots = [s \in DOMAIN r.slots \ {r.tail} |-> r.slots[s]]
        /\ n \in [slots : {n.slots}, head : {n.head}, tail : {n.tail}]
    BY Zenon DEF RingOK, Dequeued
  <1>6. n.tail = At(r.tail, 1) /\ n.tail \in Indices
    BY Zenon, <1>2, <1>5, NextIs
  <1>7. \A i \in 0 .. K : At(n.tail, i) = At(r.tail, i + 1)
    BY <1>2, <1>4, <1>6, AtNext
  <1>8. n.head = At(n.tail, K)
    BY <1>2, <1>4, <1>5, <1>7
  <1>9. RingLength(n, RingSize) = K
    BY Zenon, <1>2, <1>4, <1>5, <1>6, <1>8, LengthUnique
  <1>10. At(r.tail, 0) = r.tail
    BY <1>2 DEF Indices, At
  <1>11. \A i \in 0 .. K - 1 :
            /\ At(n.tail, i) \in DOMAIN n.slots
            /\ n.slots[At(n.tail, i)] = r.slots[At(r.tail, i + 1)]
            /\ n.slots[At(n.tail, i)] \in AllBytes
    <2> SUFFICES ASSUME NEW i \in 0 .. K - 1
                 PROVE  /\ At(n.tail, i) \in DOMAIN n.slots
                        /\ n.slots[At(n.tail, i)] = r.slots[At(r.tail, i + 1)]
                        /\ n.slots[At(n.tail, i)] \in AllBytes
      BY Zenon
    <2>1. /\ i + 1 \in 0 .. L - 1 /\ i + 1 # 0 /\ i \in 0 .. K
          /\ i + 1 \in 0 .. RingSize - 1 /\ 0 \in 0 .. RingSize - 1
      BY <1>2, <1>4
    <2>2. At(r.tail, i + 1) \in DOMAIN r.slots /\ r.slots[At(r.tail, i + 1)] \in AllBytes
      BY Zenon, <1>1, <2>1 DEF RingOK
    <2>3. At(r.tail, i + 1) # r.tail
      BY Zenon, <1>2, <1>10, <2>1, AtDistinct
    <2> QED
      BY <1>5, <1>7, <2>1, <2>2, <2>3
  <1>12. RingOK(n)
    BY Zenon, <1>2, <1>5, <1>6, <1>9, <1>11 DEF RingOK
  <1>13. PICK c, d : c = RingContents(r, RingSize) /\ d = RingContents(n, RingSize)
    BY Zenon
  <1>14. /\ c \in Seq(AllBytes) /\ Len(c) = L
         /\ \A i \in 1 .. L : c[i] = r.slots[At(r.tail, i - 1)]
    BY Zenon, <1>1, <1>13, ContentsIs
  <1>15. /\ d \in Seq(AllBytes) /\ Len(d) = K
         /\ \A i \in 1 .. K : d[i] = n.slots[At(n.tail, i - 1)]
    BY Zenon, <1>9, <1>12, <1>13, ContentsIs
  <1>16. /\ c # <<>> /\ Tail(c) \in Seq(AllBytes) /\ Len(Tail(c)) = K
         /\ \A i \in 1 .. K : Tail(c)[i] = c[i + 1]
    BY <1>4, <1>14
  <1>17. \A i \in 1 .. K : d[i] = Tail(c)[i]
    <2> SUFFICES ASSUME NEW i \in 1 .. K PROVE d[i] = Tail(c)[i]
      BY Zenon
    <2>1. /\ i - 1 \in 0 .. K - 1 /\ (i - 1) + 1 = i
          /\ i + 1 \in 1 .. L /\ (i + 1) - 1 = i
      BY <1>4
    <2>2. n.slots[At(n.tail, i - 1)] = r.slots[At(r.tail, i)]
      BY Zenon, <1>11, <2>1
    <2>3. d[i] = n.slots[At(n.tail, i - 1)]
      BY Zenon, <1>15
    <2>4. c[i + 1] = r.slots[At(r.tail, (i + 1) - 1)]
      BY SMTT(30), <1>14, <2>1
    <2> QED
      BY Zenon, <1>16, <2>1, <2>2, <2>3, <2>4
  <1>18. d = Tail(c)
    BY Zenon, <1>15, <1>16, <1>17, SeqEqual
  <1> QED
    BY Zenon, <1>12, <1>13, <1>16, <1>18
-----------------------------------------------------------------------------
(* What the devices send are bytes *)

\* A sequence is a sequence over its own elements, so over any set with them.
LEMMA OwnElements ==
    ASSUME NEW s \in Seq(STRING), NEW S, ToSet(s) \subseteq S
    PROVE  s \in Seq(S)
  <1>1. DOMAIN s = 1 .. Len(s) /\ Len(s) \in Nat
    OBVIOUS
  <1>2. \A i \in 1 .. Len(s) : s[i] \in S
    BY Zenon, <1>1 DEF ToSet
  <1> QED
    BY <1>1, <1>2

\* Make and break sequences, the Pause sequence and packets are made of bytes.
LEMMA Sent ==
    /\ \A k \in Keys : ScanCodes[k] \in Seq(AllBytes) /\ BreakCodes(k) \in Seq(AllBytes)
    /\ PauseCodes \in Seq(AllBytes)
    /\ \A m \in Packets : m \in Seq(AllBytes)
  <1>1. ASSUME NEW k \in Keys
        PROVE  ScanCodes[k] \in Seq(AllBytes) /\ BreakCodes(k) \in Seq(AllBytes)
    <2>1. PICK s : s = ScanCodes[k]
      BY Zenon
    <2>2. s \in Seq(STRING) /\ s # <<>>
      BY Zenon, <2>1, Ps2Assumption DEF Keys
    <2>3. ToSet(s) \subseteq AllBytes
      BY Zenon, <2>1 DEF AllBytes, AllCodes
    <2>4. s \in Seq(AllBytes)
      BY Zenon, <2>2, <2>3, OwnElements
    <2>5. Len(s) \in Nat \ {0}
      BY <2>2
    <2>6. s[Len(s)] \in AllBytes /\ SubSeq(s, 1, Len(s) - 1) \in Seq(AllBytes)
      BY <2>4, <2>5
    <2>7. "F0" \in AllBytes
      BY Zenon DEF AllBytes
    <2>8. <<"F0", s[Len(s)]>> \in Seq(AllBytes)
      BY <2>6, <2>7
    <2> QED
      BY <2>1, <2>4, <2>6, <2>8 DEF BreakCodes, Front, Last
  <1>2. PauseCodes \in Seq(AllBytes)
    <2>1. ToSet(PauseCodes) \subseteq AllBytes
      BY Zenon DEF AllBytes
    <2> QED
      BY Zenon, <2>1, OwnElements, Ps2Assumption
  <1>3. ASSUME NEW m \in Packets PROVE m \in Seq(AllBytes)
    <2>1. ToSet(m) \subseteq AllBytes
      BY Zenon DEF AllBytes
    <2>2. m \in Seq(STRING)
      BY Zenon, Ps2Assumption
    <2> QED
      BY Zenon, <2>1, <2>2, OwnElements
  <1> QED
    BY Zenon, <1>1, <1>2, <1>3

-----------------------------------------------------------------------------
(* Steps on the queues *)

\* What a step may do to a byte queue: leave it, put a byte or take the oldest.
QueueStep(p) == Fifo(p)!FifoNext \/ UNCHANGED Fifo(p)!FifoVars

\* A step that leaves a ring alone leaves its queue alone.
LEMMA Untouched ==
    ASSUME NEW p \in Ports, ring'[p] = ring[p] PROVE QueueStep(p)
  BY Zenon DEF QueueStep, Fifo!FifoVars
\* enqueue, by whoever calls it: a full queue is left alone, any other gets the
\* byte behind its others, and a reader's byte stays the oldest.
LEMMA EnqueueStep ==
    ASSUME RingsOK, NEW p \in Ports, NEW b \in AllBytes, Enqueue(p, b)
    PROVE  /\ RingsOK'
           /\ \A q \in Ports : QueueStep(q)
           /\ \A q \in Ports : ~IsEmpty(ring[q]) =>
                 ~IsEmpty(ring'[q]) /\ Front1(ring'[q]) = Front1(ring[q])
  <1>1. PICK n : n = Enqueued(ring[p], b, RingSize)
    BY Zenon
  <1>2. /\ ring' = [ring EXCEPT ![p] = n] /\ RingOK(ring[p])
        /\ \A q \in Ports : RingOK(ring[q])
    BY Zenon, <1>1 DEF Enqueue, RingsOK
  <1>3. ring'[p] = n /\ \A q \in Ports \ {p} : ring'[q] = ring[q]
    BY Zenon, <1>2 DEF RingsOK
  <1>4. ring' \in [Ports -> {ring'[q] : q \in Ports}]
    BY Zenon, <1>2 DEF RingsOK
  <1>5. CASE IsFull(ring[p], RingSize)
    <2>1. n = ring[p]
      BY Zenon, <1>1, <1>5 DEF Enqueued
    <2>2. \A q \in Ports : ring'[q] = ring[q]
      BY Zenon, <1>3, <2>1
    <2> QED
      BY Zenon, <1>2, <1>4, <2>2, Untouched DEF RingsOK
  <1>6. CASE ~IsFull(ring[p], RingSize)
    <2>1. /\ RingOK(n) /\ ~IsEmpty(n) /\ (~IsEmpty(ring[p]) => Front1(n) = Front1(ring[p]))
          /\ RingContents(n, RingSize) = Append(RingContents(ring[p], RingSize), b)
      BY Zenon, <1>1, <1>2, <1>6, EnqueuedIs
    <2>2. Len(RingContents(ring[p], RingSize)) < RingSize - 1
      <3>1. /\ ring[p].head \in Indices /\ ring[p].tail \in Indices
            /\ Len(RingContents(ring[p], RingSize)) = RingLength(ring[p], RingSize)
        BY Zenon, <1>2, ContentsIs DEF RingOK
      <3>2. /\ RingLength(ring[p], RingSize) \in 0 .. RingSize - 1
            /\ RingLength(ring[p], RingSize) # RingSize - 1
        BY Zenon, <1>6, <3>1, LengthIs
      <3> QED
        BY <3>1, <3>2, Ps2Assumption
    <2>3. RingContents(ring'[p], RingSize) = Append(RingContents(ring[p], RingSize), b)
      BY Zenon, <1>3, <2>1
    <2>4. QueueStep(p)
      BY Zenon, <2>2, <2>3 DEF QueueStep, Fifo!FifoNext, Fifo!Put
    <2>5. \A q \in Ports \ {p} : QueueStep(q)
      BY Zenon, <1>3, Untouched
    <2> QED
      BY Zenon, <1>2, <1>3, <1>4, <2>1, <2>4, <2>5 DEF RingsOK
  <1> QED
    BY Zenon, <1>5, <1>6

\* The second half of dequeue takes the byte that the first half read.
LEMMA TakenStep ==
    ASSUME RingsOK, HeldByteOK, NEW p \in Ports, local # NoByte, pc \in Reading(p), Taken(p)
    PROVE  /\ RingsOK' /\ HeldByteOK'
           /\ \A q \in Ports : QueueStep(q)
  <1>1. PICK n : n = Dequeued(ring[p], RingSize)
    BY Zenon
  <1>2. /\ ring' = [ring EXCEPT ![p] = n] /\ local' = NoByte
        /\ \A q \in Ports : RingOK(ring[q])
    BY Zenon, <1>1 DEF Taken, RingsOK
  <1>3. ring'[p] = n /\ \A q \in Ports \ {p} : ring'[q] = ring[q]
    BY Zenon, <1>2 DEF RingsOK
  <1>4. ring' \in [Ports -> {ring'[q] : q \in Ports}]
    BY Zenon, <1>2 DEF RingsOK
  <1>5. ~IsEmpty(ring[p])
    BY Zenon DEF HeldByteOK, Reading, Ports
  <1>6. /\ RingOK(n) /\ RingContents(ring[p], RingSize) # <<>>
        /\ RingContents(n, RingSize) = Tail(RingContents(ring[p], RingSize))
    BY Zenon, <1>1, <1>2, <1>5, DequeuedIs
  <1>7. QueueStep(p)
    BY Zenon, <1>3, <1>6 DEF QueueStep, Fifo!FifoNext, Fifo!Take
  <1>8. \A q \in Ports \ {p} : QueueStep(q)
    BY Zenon, <1>3, Untouched
  <1> QED
    BY Zenon, <1>2, <1>3, <1>4, <1>6, <1>7, <1>8 DEF RingsOK, HeldByteOK

\* A step that neither moves the reader nor takes its byte keeps HeldByteOK.
LEMMA ReaderKept ==
    ASSUME HeldByteOK, UNCHANGED <<pc, local>>,
           \A q \in Ports : ~IsEmpty(ring[q]) =>
               ~IsEmpty(ring'[q]) /\ Front1(ring'[q]) = Front1(ring[q])
    PROVE  HeldByteOK'
  BY Zenon DEF HeldByteOK

\* Outside dequeue no byte is held.
LEMMA NothingHeld ==
    ASSUME HeldByteOK, pc \notin {"kbd", "drainKbd", "mouse", "drainMouse"}
    PROVE  local = NoByte
  BY Zenon DEF HeldByteOK, Reading
\* What every step does: it keeps the invariant and is a step of both queues.
StepOK == QueueInv' /\ \A q \in Ports : QueueStep(q)

\* A step that leaves the rings, the reader and the handlers alone.
LEMMA QuietStep ==
    ASSUME QueueInv, UNCHANGED <<ring, irq, cmd>>,
           UNCHANGED <<pc, local>> \/ local' = NoByte,
           wire' \in [Ports -> Seq(AllBytes)],
           out' = NoOut \/ out' \in [port : Ports, byte : AllBytes]
    PROVE  StepOK
  <1>1. \A q \in Ports : QueueStep(q)
    BY Zenon, Untouched
  <1>2. RingsOK'
    BY Zenon DEF QueueInv, RingsOK
  <1>3. HeldByteOK'
    BY Zenon DEF QueueInv, HeldByteOK
  <1> QED
    BY Zenon, <1>1, <1>2, <1>3 DEF StepOK, QueueInv, Idle

\* Key strokes and packets are put on the wire.
LEMMA DevicesStep ==
    ASSUME QueueInv, Devices PROVE StepOK
  <1>1. ASSUME NEW k, NEW codes \in Seq(AllBytes), Stroke(k, codes) PROVE StepOK
    <2>1. wire' \in [Ports -> Seq(AllBytes)]
      BY Zenon, <1>1 DEF Stroke, QueueInv
    <2> QED
      BY Zenon, <1>1, <2>1, QuietStep DEF Stroke, QueueInv, mainVars
  <1>2. ASSUME NEW m \in Packets, Move(m) PROVE StepOK
    <2>1. wire' \in [Ports -> Seq(AllBytes)]
      BY Zenon, <1>2, Sent DEF Move, QueueInv
    <2> QED
      BY Zenon, <1>2, <2>1, QuietStep DEF Move, QueueInv, mainVars
  <1> QED
    BY Zenon, <1>1, <1>2, Sent DEF Devices, Press, Release, PressPause

\* The controller takes the next byte of a device.
LEMMA SendStep ==
    ASSUME QueueInv, NEW p \in Ports, Send(p) PROVE StepOK
  <1>1. wire[p] \in Seq(AllBytes) /\ wire[p] # <<>>
    BY Zenon DEF Send, QueueInv
  <1>2. Tail(wire[p]) \in Seq(AllBytes) /\ Head(wire[p]) \in AllBytes
    BY <1>1
  <1>3. wire' \in [Ports -> Seq(AllBytes)]
    BY Zenon, <1>2 DEF Send, QueueInv
  <1>4. PICK b \in IF p = "kbd" /\ translate THEN AllCodes ELSE {Head(wire[p])} :
           out' = [port |-> p, byte |-> b]
    BY Zenon DEF Send
  <1>5. b \in AllBytes
    BY Zenon, <1>2, <1>4 DEF AllBytes
  <1>6. out' \in [port : Ports, byte : AllBytes]
    BY Zenon, <1>4, <1>5
  <1> QED
    BY Zenon, <1>3, <1>6, QuietStep DEF Send, QueueInv, mainVars

\* Interrupts: a vector that is no port's, and the start of drain_irq.
LEMMA InterruptStep ==
    ASSUME QueueInv, (\E v \in Deferring : Interrupt(v)) \/ \E p \in Ports : PortInterrupt(p)
    PROVE  StepOK
  <1>1. ASSUME NEW v, Interrupt(v) PROVE StepOK
    BY Zenon, <1>1, QuietStep DEF Interrupt, QueueInv, mainVars
  <1>2. ASSUME NEW p \in Ports, PortInterrupt(p) PROVE StepOK
    <2>1. /\ UNCHANGED <<ring, pc, local, cmd, wire, out>>
          /\ irq' = [port |-> p, left |-> DrainLimit] \/ irq' = Idle
      BY Zenon, <1>2 DEF PortInterrupt, mainVars
    <2>2. /\ irq' \in [port : Ports \cup {"none"}, left : Int]
          /\ irq' = Idle \/ irq'.port \in Ports
      BY <2>1, Ps2Assumption DEF Idle
    <2>3. RingsOK' /\ HeldByteOK'
      BY Zenon, <2>1 DEF QueueInv, RingsOK, HeldByteOK
    <2> QED
      BY Zenon, <2>1, <2>2, <2>3, Untouched DEF StepOK, QueueInv, Idle
  <1> QED
    BY Zenon, <1>1, <1>2

\* drain_irq takes a byte of its port between the two halves of dequeue.
LEMMA DrainIrqStep ==
    ASSUME QueueInv, DrainIrq PROVE StepOK
  <1>1. UNCHANGED <<wire, pc, local, cmd>> /\ irq # Idle /\ irq.port \in Ports
    BY Zenon DEF DrainIrq, mainVars, QueueInv
  <1>2. CASE out = NoOut \/ out.port # irq.port
    <2>1. irq' = Idle /\ UNCHANGED <<out, ring>>
      BY Zenon, <1>2 DEF DrainIrq
    <2>2. RingsOK' /\ HeldByteOK'
      BY <1>1, <2>1 DEF QueueInv, RingsOK, HeldByteOK
    <2> QED
      BY <1>1, <2>1, <2>2, Untouched DEF StepOK, QueueInv, Idle
  <1>3. CASE ~(out = NoOut \/ out.port # irq.port)
    <2>1. /\ out' = NoOut /\ Enqueue(irq.port, out.byte)
          /\ irq' = IF irq.left = 1 THEN Idle ELSE [irq EXCEPT !.left = @ - 1]
      BY Zenon, <1>3 DEF DrainIrq
    <2>2. out.byte \in AllBytes
      BY Zenon, <1>3 DEF QueueInv
    <2>3. /\ RingsOK' /\ \A q \in Ports : QueueStep(q)
          /\ \A q \in Ports : ~IsEmpty(ring[q]) =>
                ~IsEmpty(ring'[q]) /\ Front1(ring'[q]) = Front1(ring[q])
      BY Zenon, <1>1, <2>1, <2>2, EnqueueStep DEF QueueInv
    <2>4. HeldByteOK'
      BY Zenon, <1>1, <2>3, ReaderKept DEF QueueInv
    <2>5. /\ irq' \in [port : Ports \cup {"none"}, left : Int]
          /\ irq' = Idle \/ irq'.port \in Ports
      BY <1>1, <2>1 DEF Idle, QueueInv
    <2> QED
      BY Zenon, <1>1, <2>1, <2>3, <2>4, <2>5 DEF StepOK, QueueInv, Idle
  <1> QED
    BY Zenon, <1>2, <1>3

\* The first half of dequeue reads the oldest byte, or leaves the queue.
LEMMA DequeueStep ==
    ASSUME QueueInv, NEW p \in Ports, NEW at \in Reading(p), NEW after, Dequeue(p, at, after)
    PROVE  StepOK
  <1>1. /\ UNCHANGED <<ring, irq, cmd, wire, out>> /\ pc = at /\ local = NoByte
        /\ \/ local' = NoByte
           \/ ~IsEmpty(ring[p]) /\ local' = Front1(ring[p]) /\ pc' = pc
    BY Zenon DEF Dequeue, hwVars
  <1>2. HeldByteOK'
    BY Zenon, <1>1 DEF HeldByteOK
  <1>3. RingsOK'
    BY Zenon, <1>1 DEF QueueInv, RingsOK
  <1> QED
    BY Zenon, <1>1, <1>2, <1>3, Untouched DEF StepOK, QueueInv, Idle

\* The second half, by poll of either driver or by the ps2 command.
LEMMA TakeStep ==
    ASSUME QueueInv, NEW p \in Ports, pc \in Reading(p), local # NoByte, Taken(p)
    PROVE  StepOK
  <1>1. UNCHANGED <<irq, cmd, wire, out>>
    BY Zenon DEF Taken, hwVars
  <1> QED
    BY Zenon, <1>1, TakenStep DEF StepOK, QueueInv, Idle
\* Boot: a byte that was waiting is read for the config, whose byte comes instead.
LEMMA BootStep ==
    ASSUME QueueInv, TablesInit \/ EnableInterrupts \/ EnableInterruptsFails
    PROVE  StepOK
  <1>1. local = NoByte
    BY Zenon, NothingHeld DEF TablesInit, EnableInterrupts, EnableInterruptsFails, QueueInv
  <1>2. CASE TablesInit \/ EnableInterruptsFails
    <2>1. UNCHANGED <<ring, irq, cmd, wire, out, local>>
      BY Zenon, <1>2 DEF TablesInit, EnableInterruptsFails, hwVars
    <2> QED
      BY Zenon, <1>1, <2>1, QuietStep DEF QueueInv
  <1>3. CASE EnableInterrupts
    <2>1. /\ UNCHANGED <<ring, irq, cmd, wire, local>>
          /\ out' = out \/ out' = [port |-> "kbd", byte |-> "config"]
      BY Zenon, <1>3 DEF EnableInterrupts
    <2>2. out' = NoOut \/ out' \in [port : Ports, byte : AllBytes]
      BY <2>1 DEF QueueInv, Ports, AllBytes
    <2> QED
      BY Zenon, <1>1, <2>1, <2>2, QuietStep DEF QueueInv
  <1> QED
    BY Zenon, <1>2, <1>3

\* run_deferred and the debugger's commands leave the queues alone.
LEMMA LoopStep ==
    ASSUME QueueInv, BeginPass \/ PassStep \/ OtherCommand \/ DrainCommand
    PROVE  StepOK
  <1>1. local = NoByte
    BY Zenon, NothingHeld DEF BeginPass, PassStep, OtherCommand, DrainCommand, QueueInv
  <1>2. UNCHANGED <<ring, irq, cmd, wire, out, local>>
    BY Zenon DEF BeginPass, PassStep, OtherCommand, DrainCommand, hwVars
  <1> QED
    BY Zenon, <1>1, <1>2, QuietStep DEF QueueInv

\* A command to a device: send_device_command begins and drains the controller.
LEMMA CommandStep ==
    ASSUME QueueInv, (\E p \in Ports : ResetCommand(p)) \/ SendCommand \/ AckTimeout
    PROVE  StepOK
  <1>1. local = NoByte
    BY Zenon, NothingHeld DEF ResetCommand, SendCommand, AckTimeout, QueueInv
  <1>2. UNCHANGED <<ring, irq, out, local>>
    BY Zenon DEF ResetCommand, SendCommand, AckTimeout, cmdUnchanged
  <1>3. cmd' \in [port : Ports, attempt : Nat]
    BY DEF ResetCommand, SendCommand, AckTimeout, EndCommand, NoCommand, Ports, QueueInv
  <1>4. wire' \in [Ports -> Seq(AllBytes)]
    <2>1. CASE SendCommand
      <3>1. PICK answer \in {<<>>, <<"FA", "AA">>, <<"FE">>} :
               wire' = [wire EXCEPT ![cmd.port] = @ \o answer]
        BY Zenon, <2>1 DEF SendCommand
      <3>2. "FA" \in AllBytes /\ "AA" \in AllBytes /\ "FE" \in AllBytes
        BY Zenon DEF AllBytes
      <3>3. answer \in Seq(AllBytes)
        <4>1. <<>> \in Seq(AllBytes) /\ <<"FE">> \in Seq(AllBytes)
          BY <3>2
        <4>2. <<"FA", "AA">> \in Seq(AllBytes)
          BY <3>2
        <4> QED
          BY Zenon, <3>1, <4>1, <4>2
      <3>4. \A w \in Seq(AllBytes) : w \o answer \in Seq(AllBytes)
        BY <3>3
      <3> QED
        BY Zenon, <3>1, <3>4 DEF QueueInv
    <2>2. CASE (\E p \in Ports : ResetCommand(p)) \/ AckTimeout
      BY Zenon, <2>2 DEF ResetCommand, AckTimeout, QueueInv
    <2> QED
      BY Zenon, <2>1, <2>2
  <1>5. RingsOK' /\ HeldByteOK'
    BY Zenon, <1>1, <1>2 DEF RingsOK, HeldByteOK, QueueInv
  <1> QED
    BY Zenon, <1>2, <1>3, <1>4, <1>5, Untouched DEF StepOK, QueueInv, Idle

\* The driver reads the controller itself, with interrupts masked: drain_to_queues
\* and wait_for_ack put what is not the answer into the queues.
LEMMA MaskedStep ==
    ASSUME QueueInv, DrainToQueues \/ WaitForAck
    PROVE  StepOK
  <1>1. local = NoByte
    BY Zenon, NothingHeld DEF DrainToQueues, WaitForAck, QueueInv
  <1>2. UNCHANGED <<wire, irq, local>> /\ out' \in {out, NoOut}
    BY Zenon DEF DrainToQueues, WaitForAck, cmdUnchanged
  <1>3. cmd' \in [port : Ports, attempt : Nat]
    BY DEF DrainToQueues, WaitForAck, EndCommand, NoCommand, Ports, QueueInv
  <1>4. ring' = ring \/ (out # NoOut /\ Enqueue(out.port, out.byte))
    BY Zenon DEF DrainToQueues, WaitForAck
  <1>5. HeldByteOK'
    BY Zenon, <1>1, <1>2 DEF HeldByteOK
  <1>6. RingsOK' /\ \A q \in Ports : QueueStep(q)
    <2>1. CASE ring' = ring
      BY SMTT(30), <2>1, Untouched DEF RingsOK, QueueInv
    <2>2. CASE out # NoOut /\ Enqueue(out.port, out.byte)
      <3>1. out.port \in Ports /\ out.byte \in AllBytes
        BY Zenon, <2>2 DEF QueueInv
      <3> QED
        BY Zenon, <2>2, <3>1, EnqueueStep DEF QueueInv
    <2> QED
      BY Zenon, <1>4, <2>1, <2>2
  <1> QED
    BY Zenon, <1>2, <1>3, <1>5, <1>6 DEF StepOK, QueueInv, Idle

\* Empty rings, nobody reading.
LEMMA QueueInitInv == Init => QueueInv
  <1> SUFFICES ASSUME Init PROVE QueueInv
    BY Zenon
  <1>1. /\ out = NoOut /\ wire = [p \in Ports |-> <<>>]
        /\ ring = [p \in Ports |-> NewRing]
        /\ local = NoByte /\ cmd = NoCommand /\ irq = Idle
    BY Zenon DEF Init
  <1>2. RingOK(NewRing)
    <2>1. RingLength(NewRing, RingSize) = 0
      BY DEF RingLength, NewRing
    <2>2. 0 \in Indices
      BY Ps2Assumption DEF Indices
    <2> QED
      BY <2>1, <2>2 DEF RingOK, NewRing
  <1>3. RingsOK
    BY Zenon, <1>1, <1>2 DEF RingsOK
  <1> QED
    BY <1>1, <1>3 DEF QueueInv, HeldByteOK, Idle, NoCommand, Ports

\* Every step of the main loop, the interrupt handlers and the devices keeps the
\* invariant and moves bytes as a queue does.
LEMMA QueueNextInv == QueueInv /\ [Next]_ps2Vars => StepOK
  <1> SUFFICES ASSUME QueueInv, [Next]_ps2Vars PROVE StepOK
    BY Zenon
  <1>1. CASE Main
    <2>1. CASE TablesInit \/ EnableInterrupts \/ EnableInterruptsFails
      BY Zenon, <2>1, BootStep
    <2>2. CASE Dequeue("kbd", "kbd", "mouse") \/ Dequeue("kbd", "drainKbd", "drainMouse")
      BY Zenon, <2>2, DequeueStep DEF Reading, Ports
    <2>3. CASE Dequeue("mouse", "mouse", "deferred") \/ Dequeue("mouse", "drainMouse", "kbd")
      BY Zenon, <2>3, DequeueStep DEF Reading, Ports
    <2>4. CASE FeedKeyboard \/ Discard("kbd", "drainKbd")
      BY Zenon, <2>4, TakeStep DEF FeedKeyboard, Discard, Reading, Ports
    <2>5. CASE FeedMouse \/ Discard("mouse", "drainMouse")
      BY Zenon, <2>5, TakeStep DEF FeedMouse, Discard, Reading, Ports
    <2>6. CASE BeginPass \/ PassStep \/ OtherCommand \/ DrainCommand
      BY Zenon, <2>6, LoopStep
    <2>7. CASE (\E p \in Ports : ResetCommand(p)) \/ SendCommand \/ AckTimeout
      BY Zenon, <2>7, CommandStep
    <2>8. CASE DrainToQueues \/ WaitForAck
      BY Zenon, <2>8, MaskedStep
    <2> QED
      BY Zenon, <1>1, <2>1, <2>2, <2>3, <2>4, <2>5, <2>6, <2>7, <2>8 DEF Main
  <1>2. CASE UNCHANGED ps2Vars
    <2>1. UNCHANGED <<ring, irq, cmd, pc, local, wire, out>>
      BY Zenon, <1>2 DEF ps2Vars, hwVars, mainVars
    <2> QED
      BY Zenon, <2>1, QuietStep DEF QueueInv
  <1> QED
    BY Zenon, <1>1, <1>2, DevicesStep, SendStep, InterruptStep, DrainIrqStep DEF Next

\* QueueInv is an invariant.
LEMMA QueueInvHolds == Spec => []QueueInv
  <1>1. QueueInv /\ [Next]_ps2Vars => QueueInv'
    BY Zenon, QueueNextInv DEF StepOK
  <1> QED
    BY <1>1, QueueInitInv, PTL DEF Spec

\* The byte queues of src/drivers/ps2.rs, for every QUEUE_CAPACITY, are bounded
\* FIFO queues: enqueue from an interrupt, from drain_to_queues or from
\* wait_for_ack, between any two steps of dequeue, appends a byte or drops it,
\* and dequeue takes the oldest one, once.
THEOREM ByteQueuesAreFifo == Spec => QueuesAreFifo
  <1>1. QueueInv /\ [Next]_ps2Vars =>
           [\A p \in Ports : Fifo(p)!FifoNext \/ UNCHANGED Fifo(p)!FifoVars]_ring
    BY Zenon, QueueNextInv DEF StepOK, QueueStep
  <1> QED
    BY <1>1, QueueInvHolds, PTL DEF Spec, QueuesAreFifo

-----------------------------------------------------------------------------
(* Deferred interrupt work *)

\* The inductive invariant: nothing is due before the handlers are registered,
\* after which the table stays as it is, and run_deferred has looked at every
\* slot it took when it returns: taking the pending bits with slots left from an
\* earlier pass would forget them.
DeferredInv ==
    /\ NoDeferredLost
    /\ pc = "tables" => due = {}
    /\ pc # "pass" => pass = {}

\* dispatch: the slot of an accepted vector is pending.
LEMMA DispatchedStep ==
    ASSUME NoDeferredLost, NEW v, NEW accepted, Dispatched(v, accepted)
    PROVE  NoDeferredLost'
  <1>1. UNCHANGED <<handlers, pass>> /\ \A x : SlotOf(x)' = SlotOf(x)
    BY Zenon DEF Dispatched, SlotOf
  <1>2. CASE accepted /\ v \in Deferring
    BY Zenon, <1>1, <1>2 DEF Dispatched, NoDeferredLost, SlotOf
  <1>3. CASE ~(accepted /\ v \in Deferring)
    BY Zenon, <1>1, <1>3 DEF Dispatched, NoDeferredLost, SlotOf
  <1> QED
    BY Zenon, <1>2, <1>3
\* run_deferred takes the pending bits, or looks at the next slot of its pass and
\* runs the callback that is registered there.
LEMMA PassStepOK ==
    ASSUME NoDeferredLost, (TakePending /\ pass = {}) \/ RunSlot
    PROVE  NoDeferredLost'
  <1>1. UNCHANGED handlers /\ \A x : SlotOf(x)' = SlotOf(x)
    BY Zenon DEF TakePending, RunSlot, SlotOf
  <1>2. CASE TakePending /\ pass = {}
    BY Zenon, <1>1, <1>2 DEF TakePending, NoDeferredLost
  <1>3. CASE RunSlot
    <2>1. PICK s : s = Min(pass)
      BY Zenon
    <2>2. /\ pass' = pass \ {s} /\ pending' = pending
          /\ due' = IF s \in DOMAIN handlers THEN due \ {handlers[s]} ELSE due
      BY Zenon, <1>3, <2>1 DEF RunSlot
    <2>3. \A v \in due' : v \in due /\ s \notin SlotOf(v)
      BY Zenon, <2>2 DEF SlotOf
    <2> QED
      BY Zenon, <1>1, <2>2, <2>3 DEF NoDeferredLost
  <1> QED
    BY Zenon, <1>2, <1>3

\* Every step keeps the bits and the work they stand for together.
LEMMA DeferredNextInv == DeferredInv /\ [Next]_ps2Vars => DeferredInv'
  <1> SUFFICES ASSUME DeferredInv, [Next]_ps2Vars PROVE DeferredInv'
    BY Zenon
  <1>1. CASE TablesInit
    <2>1. due' = {} /\ pass' = {} /\ pc' = "enable"
      BY Zenon, <1>1 DEF TablesInit, DeferredInv
    <2> QED
      BY Zenon, <2>1 DEF DeferredInv, NoDeferredLost
  <1>2. ASSUME NEW v, Interrupt(v) PROVE DeferredInv'
    <2>1. pc # "tables" /\ pc' = pc /\ \E accepted : Dispatched(v, accepted)
      BY Zenon, <1>2 DEF Interrupt, Booting, mainVars
    <2>2. pass' = pass
      BY Zenon, <2>1 DEF Dispatched
    <2> QED
      BY Zenon, <2>1, <2>2, DispatchedStep DEF DeferredInv
  <1>3. CASE BeginPass
    <2>1. TakePending /\ pass = {} /\ pc' = "pass"
      BY Zenon, <1>3 DEF BeginPass, DeferredInv
    <2> QED
      BY Zenon, <2>1, PassStepOK DEF DeferredInv
  <1>4. ASSUME UNCHANGED irqVars, pc' = pc \/ (pc # "pass" /\ pc' # "tables") PROVE DeferredInv'
    <2>1. UNCHANGED <<pending, pass, due>> /\ \A x : SlotOf(x)' = SlotOf(x)
      BY Zenon, <1>4 DEF irqVars, SlotOf
    <2>2. NoDeferredLost'
      BY Zenon, <2>1 DEF DeferredInv, NoDeferredLost
    <2> QED
      BY Zenon, <1>4, <2>1, <2>2 DEF DeferredInv
  <1>5. CASE PassStep
    <2>1. CASE pass = {}
      <3>1. UNCHANGED irqVars /\ pc' = "debug"
        BY Zenon, <1>5, <2>1 DEF PassStep
      <3>2. UNCHANGED <<pending, pass, due>> /\ \A x : SlotOf(x)' = SlotOf(x)
        BY Zenon, <3>1 DEF irqVars, SlotOf
      <3> QED
        BY Zenon, <2>1, <3>1, <3>2 DEF DeferredInv, NoDeferredLost
    <2>2. CASE pass # {}
      <3>1. RunSlot /\ pc' = "pass"
        BY Zenon, <1>5, <2>2 DEF PassStep
      <3> QED
        BY Zenon, <3>1, PassStepOK DEF DeferredInv
    <2> QED
      BY Zenon, <2>1, <2>2
  <1>6. CASE EnableInterrupts \/ EnableInterruptsFails
    BY Zenon, <1>4, <1>6 DEF EnableInterrupts, EnableInterruptsFails, StartLoop
  <1>7. ASSUME NEW p, NEW at, NEW after, at # "pass", after # "tables", Dequeue(p, at, after)
        PROVE  DeferredInv'
    BY Zenon, <1>4, <1>7 DEF Dequeue
  <1>8. CASE FeedKeyboard \/ FeedMouse
    BY Zenon, <1>4, <1>8 DEF FeedKeyboard, FeedMouse, Taken
  <1>9. ASSUME NEW p, NEW at, Discard(p, at) PROVE DeferredInv'
    BY Zenon, <1>4, <1>9 DEF Discard, Taken
  <1>10. CASE OtherCommand \/ DrainCommand \/ \E p \in Ports : ResetCommand(p)
    BY Zenon, <1>4, <1>10 DEF OtherCommand, DrainCommand, ResetCommand, StartLoop
  <1>11. CASE DrainToQueues \/ SendCommand \/ WaitForAck \/ AckTimeout
    BY Zenon, <1>4, <1>11
       DEF DrainToQueues, SendCommand, WaitForAck, AckTimeout, EndCommand, StartLoop, cmdUnchanged
  <1>12. CASE Devices
    BY Zenon, <1>4, <1>12 DEF Devices, Press, Release, PressPause, Stroke, Move, mainVars
  <1>13. ASSUME NEW p, Send(p) \/ PortInterrupt(p) PROVE DeferredInv'
    BY Zenon, <1>4, <1>13 DEF Send, PortInterrupt, mainVars
  <1>14. CASE DrainIrq
    BY Zenon, <1>4, <1>14 DEF DrainIrq, mainVars
  <1>15. CASE UNCHANGED ps2Vars
    BY Zenon, <1>4, <1>15 DEF ps2Vars, mainVars
  <1>16. CASE Main
    BY Zenon, <1>1, <1>3, <1>5, <1>6, <1>7, <1>8, <1>9, <1>10, <1>11, <1>16 DEF Main
  <1> QED
    BY Zenon, <1>2, <1>12, <1>13, <1>14, <1>15, <1>16 DEF Next

\* Deferred work that a hard handler accepted (dispatch of src/irq.rs) is pending
\* or still before the running pass of run_deferred, whatever interrupts come
\* between its steps and however many slots MAX_HANDLERS gives.
THEOREM DeferredWorkIsKept == Spec => []NoDeferredLost
  <1>1. Init => DeferredInv
    BY Zenon DEF Init, IrqInit, DeferredInv, NoDeferredLost
  <1>2. DeferredInv => NoDeferredLost
    BY Zenon DEF DeferredInv
  <1> QED
    BY <1>1, <1>2, DeferredNextInv, PTL DEF Spec
=============================================================================
