---------------------------- MODULE MessageRing ----------------------------
(* The circular buffer the IPC queues of src/ipc.rs share in shape: slots,   *)
(* a head, a tail and a length.  An item is represented by its length, the   *)
(* part of it the code branches on; an empty slot is outside the domain.     *)
EXTENDS Naturals

CONSTANT Capacity       \* CHANNEL_CAPACITY, RING_CAPACITY, EVENT_CAPACITY

EmptyRing == [slots |-> [s \in {} |-> 0], head |-> 0, tail |-> 0, length |-> 0]

Full(r) == r.length = Capacity

Pushed(r, m) ==
    [r EXCEPT !.slots = [s \in DOMAIN @ \cup {r.tail} |-> IF s = r.tail THEN m ELSE @[s]],
              !.tail = (@ + 1) % Capacity,
              !.length = @ + 1]

Oldest(r) == r.slots[r.head]

Popped(r) ==
    [r EXCEPT !.slots = [s \in DOMAIN @ \ {r.head} |-> @[s]],
              !.head = (@ + 1) % Capacity,
              !.length = @ - 1]

\* Unread items, oldest first.
Contents(r) == [i \in 1 .. r.length |-> r.slots[(r.head + i - 1) % Capacity]]

=============================================================================
