------------------------------ MODULE IpcQueue ------------------------------
(***************************************************************************)
(* The three IPC queues of src/ipc.rs, Channel, SharedRing and EventQueue, *)
(* with the threads that use them.  They have the same shape (a circular   *)
(* buffer, wait queues, a way to shut them) and differ in their guards and *)
(* in whom they wake, so one module models them and kind says which queue  *)
(* a behaviour is about.                                                   *)
(*                                                                         *)
(* The code only records waiters and hands back the token of the one it    *)
(* wakes.  client says which threads are blocked, and which were woken and *)
(* call again.  Calls that fail without changing anything are stuttering   *)
(* steps, except for a woken thread, which gives up.                       *)
(***************************************************************************)
EXTENDS WaitQueue, MessageRing, FiniteSets

CONSTANTS
    Kinds,              \* queues to check
    MaxMessage,         \* MAX_MESSAGE, 64
    Lengths,            \* lengths of the messages offered
    Buffers,            \* sizes of the buffers given to receive and consume
    Putters, Takers     \* threads that send, publish / receive, consume, pop

ASSUME IpcAssumption ==
    /\ Kinds \subseteq {"channel", "ring", "event"}
    /\ Capacity \in Nat \ {0}
    /\ MaxMessage \in Nat
    /\ Lengths \subseteq Nat
    /\ Buffers \subseteq Nat
    /\ IsFiniteSet(Putters) /\ IsFiniteSet(Takers)
    /\ Putters \cap Takers = {}         \* a thread uses one end
    /\ NoThread \notin Putters \cup Takers

VARIABLES
    kind,
    ring,                   \* the buffer with head, tail and length
    senders, receivers,     \* the end is open; a ring's active and an event
                            \*   queue's closed are both ends at once
    putWaiters, takeWaiters,
    client,                 \* thread -> "runs", "blocked" or "woken"
    gaveUp                  \* history: a woken thread's buffer was too short

ends == <<senders, receivers>>
waiters == <<putWaiters, takeWaiters>>
ipcVars == <<kind, ring, ends, waiters, client, gaveUp>>

IpcInit ==
    /\ kind \in Kinds
    /\ ring = EmptyRing
    /\ senders = TRUE /\ receivers = TRUE
    /\ putWaiters = EmptyQueue /\ takeWaiters = EmptyQueue
    /\ client = [c \in Putters \cup Takers |-> "runs"]
    /\ gaveUp = FALSE

-----------------------------------------------------------------------------
(* send, publish, push *)

\* Not closed, revoked or too large.
MayPut(m) == receivers /\ (kind # "event" => m <= MaxMessage)

\* Mutations of Put: no check for a full queue; a receiver is only woken when
\* the queue was empty.
PutUnchecked(c, m) ==
    /\ client[c] # "blocked"
    /\ MayPut(m)
    /\ ring' = Pushed(ring, m)
    /\ takeWaiters' = WakeOne(takeWaiters)
    /\ client' = After(client, c, "runs", Woken(takeWaiters))
    /\ UNCHANGED <<kind, ends, putWaiters, gaveUp>>

PutWakesWhenEmpty(c, m) ==
    /\ client[c] # "blocked"
    /\ MayPut(m)
    /\ ~Full(ring)
    /\ ring' = Pushed(ring, m)
    /\ takeWaiters' = IF ring.length = 0 THEN WakeOne(takeWaiters) ELSE takeWaiters
    /\ client' = After(client, c, "runs",
                       IF ring.length = 0 THEN Woken(takeWaiters) ELSE {})
    /\ UNCHANGED <<kind, ends, putWaiters, gaveUp>>

\* The item is stored and one receiver is woken.
Put(c, m) ==
    /\ client[c] # "blocked"
    /\ MayPut(m)
    /\ ~Full(ring)
    /\ ring' = Pushed(ring, m)
    /\ takeWaiters' = WakeOne(takeWaiters)
    /\ client' = After(client, c, "runs", Woken(takeWaiters))
    /\ UNCHANGED <<kind, ends, putWaiters, gaveUp>>

\* send_blocking and publish_blocking on a full queue; push never blocks.
PutBlocks(c, m) ==
    /\ kind # "event"
    /\ client[c] # "blocked"
    /\ MayPut(m)
    /\ Full(ring)
    /\ CanEnqueue(putWaiters, c)
    /\ putWaiters' = Enqueue(putWaiters, c)
    /\ client' = After(client, c, "blocked", {})
    /\ UNCHANGED <<kind, ring, ends, takeWaiters, gaveUp>>

\* A woken sender fails: shut, or full again with a full wait queue.  It was
\* blocked with a message that is not too large.
PutFails(c) ==
    /\ client[c] = "woken"
    /\ ~receivers \/ (Full(ring) /\ ~CanEnqueue(putWaiters, c))
    /\ client' = After(client, c, "runs", {})
    /\ UNCHANGED <<kind, ring, ends, waiters, gaveUp>>

-----------------------------------------------------------------------------
(* receive, consume, pop *)

\* Only a ring refuses to hand out what it still holds.
MayTake == kind = "ring" => receivers

Fits(size) == kind # "event" => Oldest(ring) <= size

\* The oldest item leaves; a channel and a ring wake one sender.
Take(c, size) ==
    /\ client[c] # "blocked"
    /\ MayTake
    /\ ring.length > 0
    /\ Fits(size)
    /\ ring' = Popped(ring)
    /\ putWaiters' = IF kind = "event" THEN putWaiters ELSE WakeOne(putWaiters)
    /\ client' = After(client, c, "runs", IF kind = "event" THEN {} ELSE Woken(putWaiters))
    /\ UNCHANGED <<kind, ends, takeWaiters, gaveUp>>

\* receive_blocking, consume_blocking and pop_blocking on an empty queue.
TakeBlocks(c) ==
    /\ client[c] # "blocked"
    /\ ring.length = 0
    /\ senders
    /\ CanEnqueue(takeWaiters, c)
    /\ takeWaiters' = Enqueue(takeWaiters, c)
    /\ client' = After(client, c, "blocked", {})
    /\ UNCHANGED <<kind, ring, ends, putWaiters, gaveUp>>

\* A woken receiver fails: shut, empty with a full wait queue, or too short.
TakeFails(c, size) ==
    /\ client[c] = "woken"
    /\ \/ ~MayTake /\ UNCHANGED gaveUp
       \/ /\ MayTake /\ ring.length = 0
          /\ ~senders \/ ~CanEnqueue(takeWaiters, c)
          /\ UNCHANGED gaveUp
       \/ /\ MayTake /\ ring.length > 0
          /\ ~Fits(size)
          /\ gaveUp' = TRUE
    /\ client' = After(client, c, "runs", {})
    /\ UNCHANGED <<kind, ring, ends, waiters>>

-----------------------------------------------------------------------------
(* Shutting *)

\* close_sender of a channel, close of an event queue: one receiver is woken.
CloseSender ==
    /\ kind # "ring"
    /\ senders' = FALSE
    /\ receivers' = IF kind = "event" THEN FALSE ELSE receivers
    /\ takeWaiters' = WakeOne(takeWaiters)
    /\ client' = After(client, NoThread, "runs", Woken(takeWaiters))
    /\ UNCHANGED <<kind, ring, putWaiters, gaveUp>>

\* close_receiver of a channel: one sender is woken.
CloseReceiver ==
    /\ kind = "channel"
    /\ receivers' = FALSE
    /\ putWaiters' = WakeOne(putWaiters)
    /\ client' = After(client, NoThread, "runs", Woken(putWaiters))
    /\ UNCHANGED <<kind, ring, senders, takeWaiters, gaveUp>>

\* revoke of a ring, by its producer or its consumer: nobody is woken.
RevokeRing ==
    /\ kind = "ring"
    /\ receivers
    /\ senders' = FALSE /\ receivers' = FALSE
    /\ UNCHANGED <<kind, ring, waiters, client, gaveUp>>

-----------------------------------------------------------------------------
PutCall(c) ==
    \/ PutFails(c)
    \/ \E m \in Lengths : Put(c, m) \/ PutBlocks(c, m)

TakeCall(c) ==
    \/ TakeBlocks(c)
    \/ \E size \in Buffers : Take(c, size) \/ TakeFails(c, size)

IpcNext ==
    \/ \E c \in Putters : PutCall(c)
    \/ \E c \in Takers : TakeCall(c)
    \/ CloseSender
    \/ CloseReceiver
    \/ RevokeRing

IpcSpec == IpcInit /\ [][IpcNext]_ipcVars

\* The scheduler runs a woken thread, which calls again.
FairSpec ==
    /\ IpcSpec
    /\ \A c \in Putters : WF_ipcVars(client[c] = "woken" /\ PutCall(c))
    /\ \A c \in Takers : WF_ipcVars(client[c] = "woken" /\ TakeCall(c))

-----------------------------------------------------------------------------
(* Properties *)

Fifo == INSTANCE BoundedFifo WITH
    Limit <- Capacity, Values <- Lengths,
    items <- Contents(ring), accepting <- receivers, taking <- MayTake

\* Each queue implements the bounded FIFO: no item is lost, duplicated,
\* reordered or overwritten, nothing is put once it is shut, and "a revoked
\* ring cannot be accessed again" (docs/ipc.md).
ImplementsFifo == Fifo!FifoSpec

WokenAmong(S) == Cardinality({c \in S : client[c] = "woken"})

\* No wakeup is lost, whoever steals items or room in between: while a receiver
\* is blocked every unread item has a woken receiver coming for it, and while
\* a sender is blocked every free slot has a woken sender (every put and take
\* wakes exactly one).  The exceptions are a queue that is shut, and a woken
\* receiver that gave up because its buffer was too short.
NoLostWakeup ==
    receivers /\ ~gaveUp =>
    /\ DOMAIN takeWaiters # {} => ring.length <= WokenAmong(Takers)
    /\ DOMAIN putWaiters # {} => Capacity - ring.length <= WokenAmong(Putters)

\* "Full/empty/closed/revoked transitions and unauthorized operations return
\* typed errors; blocking is bounded and non-spinning"
\* (docs/stability-contracts.md): a thread that is blocked on a queue when it
\* is shut does not stay blocked.
ShuttingEndsBlocking ==
    \A c \in Takers : ~senders /\ client[c] = "blocked" ~> client[c] # "blocked"

=============================================================================
