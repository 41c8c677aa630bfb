----------------------------- MODULE XhciRings -----------------------------
(***************************************************************************)
(* The rings of the xHCI driver (drivers/usb/xhci.rs): TrbRing, which the   *)
(* driver fills and the controller follows, and EventRing, the other way    *)
(* round.  Neither side tells the other how far it is; a cycle bit in every *)
(* entry, which changes at each wrap, says whose it is.  A ring keeps the    *)
(* entries, the driver's index and cycle, and the controller's.             *)
(*                                                                         *)
(* An entry is [what, tag, cycle].  The tag is history: the number of the    *)
(* request the entry belongs to.                                            *)
(***************************************************************************)
EXTENDS Naturals, Sequences, FiniteSets

CONSTANTS
    LinkIndex,   \* LINK_INDEX (255): the entry that leads back to the first
    RingTrbs     \* RING_TRBS (256) of the event ring

ASSUME RingAssumption == LinkIndex \in Nat \ {0} /\ RingTrbs \in Nat \ {0}

Trb(what, tag, cycle) == [what |-> what, tag |-> tag, cycle |-> cycle]
Link == [name |-> "link"]
Gone == [name |-> "none"]
Cleared == Trb(Gone, 0, FALSE)

-----------------------------------------------------------------------------
(* TrbRing::new and reset: cleared entries and a link that is not yet valid. *)
NewRing ==
    [trbs |-> [i \in 0 .. LinkIndex |-> IF i = LinkIndex THEN Trb(Link, 0, FALSE) ELSE Cleared],
     enqueue |-> 0, cycle |-> TRUE, dequeue |-> 0, seen |-> TRUE]

(* Mutation of Push: the cycle is not changed when the ring wraps.          *)
PushSameCycle(ring, what, tag) ==
    IF ring.enqueue = LinkIndex
    THEN [ring EXCEPT !.trbs[LinkIndex] = Trb(Link, 0, ring.cycle),
                      !.trbs[0] = Trb(what, tag, ring.cycle), !.enqueue = 1]
    ELSE [ring EXCEPT !.trbs[ring.enqueue] = Trb(what, tag, ring.cycle), !.enqueue = @ + 1]

(* TrbRing::push: the link is handed over when the entry after it is needed. *)
Push(ring, what, tag) ==
    IF ring.enqueue = LinkIndex
    THEN [ring EXCEPT !.trbs[LinkIndex] = Trb(Link, 0, ring.cycle),
                      !.trbs[0] = Trb(what, tag, ~ring.cycle),
                      !.enqueue = 1, !.cycle = ~@]
    ELSE [ring EXCEPT !.trbs[ring.enqueue] = Trb(what, tag, ring.cycle), !.enqueue = @ + 1]

(* The controller: an entry with its cycle is its own; a link is followed at *)
(* once.  What an entry says is forgotten when it is taken, here and in the   *)
(* event ring: nothing but its cycle is read again.                          *)
Linked(ring) ==
    IF ring.trbs[ring.dequeue].what = Link /\ ring.trbs[ring.dequeue].cycle = ring.seen
    THEN [ring EXCEPT !.dequeue = 0, !.seen = ~@] ELSE ring
HasTrb(ring) ==
    LET r == Linked(ring) IN r.trbs[r.dequeue].cycle = r.seen
NextTrb(ring) == LET r == Linked(ring) IN r.trbs[r.dequeue]
Taken(ring) ==
    LET r == Linked(ring)
    IN  [r EXCEPT !.dequeue = @ + 1, !.trbs[r.dequeue] = Trb(Gone, 0, r.seen)]

(* Entries handed over and not yet taken, in order.                         *)
Outstanding(ring) ==
    IF ring.seen = ring.cycle
    THEN [i \in 1 .. ring.enqueue - ring.dequeue |-> ring.trbs[ring.dequeue + i - 1]]
    ELSE [i \in 1 .. LinkIndex - ring.dequeue |-> ring.trbs[ring.dequeue + i - 1]]
         \o [i \in 1 .. ring.enqueue |-> ring.trbs[i - 1]]

-----------------------------------------------------------------------------
(* EventRing::new; the controller starts with the same cycle.               *)
NewEvents ==
    [trbs |-> [i \in 0 .. RingTrbs - 1 |-> Cleared],
     dequeue |-> 0, cycle |-> TRUE, enqueue |-> 0, posted |-> TRUE]

(* EventRing::poll: an event is there; it is taken and the pointer, with    *)
(* which the controller sees free room, is written back.                    *)
HasEvent(events) == events.trbs[events.dequeue].cycle = events.cycle
NextEvent(events) == events.trbs[events.dequeue].what
Polled(events) ==
    IF events.dequeue + 1 = RingTrbs
    THEN [events EXCEPT !.dequeue = 0, !.cycle = ~@, !.trbs[events.dequeue].what = Gone]
    ELSE [events EXCEPT !.dequeue = @ + 1, !.trbs[events.dequeue].what = Gone]

(* The controller posts an event; one entry always stays free.              *)
HasRoom(events) == (events.enqueue + 1) % RingTrbs # events.dequeue
Posted(events, event) ==
    LET stored == [events EXCEPT !.trbs[events.enqueue] = Trb(event, 0, events.posted)]
    IN  IF events.enqueue + 1 = RingTrbs
        THEN [stored EXCEPT !.enqueue = 0, !.posted = ~@]
        ELSE [stored EXCEPT !.enqueue = @ + 1]

=============================================================================
