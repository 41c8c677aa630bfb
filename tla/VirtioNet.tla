----------------------------- MODULE VirtioNet -----------------------------
(***************************************************************************)
(* The legacy virtio-net driver (drivers/network.rs): a receive queue that  *)
(* circulates RX_BUFFERS buffers and a transmit queue with a single buffer. *)
(* A queue is the memory both sides share (ring of available descriptors,  *)
(* ring of used ones, their two indices) and each side's private index.     *)
(* Indices wrap at IndexMod (2^16 in the code).  Operations are functions of *)
(* the adapter, a record; NetStack has the actions.                          *)
(***************************************************************************)
EXTENDS Integers, Sequences

CONSTANTS
    QueueSize,   \* descriptors of a queue, a power of two
    RxBuffers,   \* RX_BUFFERS
    IndexMod,    \* 2^16: where the ring indices wrap
    NoFrame      \* what a buffer holds that carries no frame

ASSUME QueueAssumption ==
    /\ QueueSize \in Nat \ {0}
    /\ RxBuffers \in 1 .. QueueSize
    /\ IndexMod \in Nat /\ IndexMod % QueueSize = 0 /\ IndexMod > QueueSize

Slots == 0 .. QueueSize - 1

-----------------------------------------------------------------------------
(* queue_layout: byte offsets of the rings, none for a size that is not a   *)
(* power of two up to 256.                                                  *)
PageSize == 4096
ValidSizes == {2 ^ n : n \in 0 .. 8}
QueueLayout(size) ==
    LET available == size * 16
        used == ((available + 4 + size * 2 + PageSize - 1) \div PageSize) * PageSize
    IN  [available |-> available, used |-> used, total |-> used + 4 + size * 8]

(* Queue::new, on memory that was cleared. *)
NewQueue ==
    [ring |-> [i \in Slots |-> 0], available |-> 0, used |-> 0,   \* the driver's
     done |-> [i \in Slots |-> 0], deviceUsed |-> 0, seen |-> 0]  \* the device's

(* Queue::publish *)
Published(q, descriptor) ==
    [q EXCEPT !.ring[q.available % QueueSize] = descriptor,
              !.available = (@ + 1) % IndexMod]

(* Queue::take_used: how many completions are unread; more than the queue   *)
(* holds is an error, and like none at all yields no completion.            *)
Pending(q) == (q.deviceUsed - q.used) % IndexMod
HasUsed(q) == Pending(q) \in 1 .. QueueSize
UsedDescriptor(q) == q.done[q.used % QueueSize]
TookUsed(q) == [q EXCEPT !.used = (@ + 1) % IndexMod]

(* The device's side. *)
HasAvailable(q) == q.seen # q.available
NextAvailable(q) == q.ring[q.seen % QueueSize]
Completed(q) ==
    [q EXCEPT !.done[q.deviceUsed % QueueSize] = NextAvailable(q),
              !.seen = (@ + 1) % IndexMod, !.deviceUsed = (@ + 1) % IndexMod]

-----------------------------------------------------------------------------
(* What a device offers, and whether probe and Runtime::new take it: the    *)
(* features, a valid size for both queues with room for the receive buffers, *)
(* rings of at most three pages that the frame allocator gave in a row.      *)
MaxQueuePages == 3
Offers == [features : BOOLEAN, size : {0, 1, 3, QueueSize, 512}, contiguous : BOOLEAN]
ValidQueue(offer) ==
    /\ offer.size \in ValidSizes
    /\ QueueLayout(offer.size).total <= MaxQueuePages * PageSize
Probe(offer) ==
    /\ offer.features
    /\ ValidQueue(offer) /\ offer.size >= RxBuffers
    /\ offer.contiguous

(* The runtime after Runtime::new: every receive buffer is published.       *)
NewAdapter ==
    [rx |-> [NewQueue EXCEPT !.ring = [i \in Slots |-> IF i < RxBuffers THEN i ELSE 0],
                             !.available = RxBuffers],
     tx |-> NewQueue,
     rxBuffer |-> [b \in 0 .. RxBuffers - 1 |-> NoFrame], txBuffer |-> NoFrame,
     busy |-> FALSE]

(* Runtime::poll: reads all completions of the transmit queue.              *)
DriverPoll(nic) ==
    IF HasUsed(nic.tx)
    THEN [nic EXCEPT !.tx.used = nic.tx.deviceUsed, !.busy = FALSE]
    ELSE nic

(* Runtime::transmit of a frame of valid length.                            *)
CanTransmit(nic) == ~DriverPoll(nic).busy
Transmitted(nic, frame) ==
    LET polled == DriverPoll(nic) IN
    IF polled.busy THEN polled
    ELSE [polled EXCEPT !.txBuffer = frame, !.busy = TRUE,
                        !.tx = Published(@, 0)]

(* Mutation of Received: a frame that is refused keeps its buffer.          *)
ReceivedKeepsBad(nic) ==
    LET d == UsedDescriptor(nic.rx) IN
    [nic EXCEPT !.rx = IF nic.rxBuffer[d].kind = "runt" THEN TookUsed(@)
                       ELSE Published(TookUsed(@), d),
                !.rxBuffer[d] = NoFrame]

(* Runtime::receive when a completion is there: the buffer is published     *)
(* again, whether its frame is passed on or, having no valid length, refused. *)
(* The content of a published buffer is the device's.                       *)
FrameUsed(nic) == nic.rxBuffer[UsedDescriptor(nic.rx)]
Received(nic) ==
    LET d == UsedDescriptor(nic.rx) IN
    [nic EXCEPT !.rx = Published(TookUsed(@), d), !.rxBuffer[d] = NoFrame]

(* The device stores a frame, or sends the one in the buffer it was given.  *)
DeviceStored(nic, frame) ==
    [nic EXCEPT !.rx = Completed(@), !.rxBuffer[NextAvailable(nic.rx)] = frame]
DeviceSent(nic) == [nic EXCEPT !.tx = Completed(@)]

-----------------------------------------------------------------------------
(* The descriptors from one index of a queue to another.                    *)
Between(ring, from, to) ==
    [k \in 1 .. (to - from) % IndexMod |-> ring[(from + k - 1) % QueueSize]]

=============================================================================
