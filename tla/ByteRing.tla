------------------------------ MODULE ByteRing ------------------------------
(* The single-producer, single-consumer ring of src/drivers/ps2.rs and of   *)
(* src/input.rs: slots, a head the producer moves and a tail the consumer   *)
(* moves.  One slot stays free, so that head = tail means empty.            *)
EXTENDS Naturals

NewRing == [slots |-> [s \in {} |-> 0], head |-> 0, tail |-> 0]

NextIndex(i, size) == IF i + 1 = size THEN 0 ELSE i + 1

IsEmpty(r) == r.head = r.tail

\* Mutant: the slot the reader is at counts as free.
IsFullLate(r, size) == FALSE
IsFull(r, size) == NextIndex(r.head, size) = r.tail

\* enqueue, push: a full ring is left as it is.
Enqueued(r, b, size) ==
    IF IsFull(r, size) THEN r
    ELSE [r EXCEPT !.slots = [s \in DOMAIN @ \cup {r.head} |-> IF s = r.head THEN b ELSE @[s]],
                   !.head = NextIndex(@, size)]

Front1(r) == r.slots[r.tail]

\* The tail store of dequeue and pop.  The slot keeps its byte in the code;
\* nothing reads it again before it is written.
Dequeued(r, size) ==
    [r EXCEPT !.slots = [s \in DOMAIN @ \ {r.tail} |-> @[s]], !.tail = NextIndex(@, size)]

RingLength(r, size) == IF r.head >= r.tail THEN r.head - r.tail ELSE r.head + size - r.tail
RingContents(r, size) ==
    [i \in 1 .. RingLength(r, size) |-> r.slots[(r.tail + i - 1) % size]]

=============================================================================
