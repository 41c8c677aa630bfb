# TLA+ verification of the Norx kernel

This directory holds TLA+ models of the kernel's stateful parts, TLC
configurations that check them on small instances, and TLAPS proofs that hold
for every size of the tables. `PROJECT.json` lists the components, the runs,
the source lines of every definition, the mutations each property was tried
against, the hazards of the code and the theorems.

To check a run: `tlc -config <Run>.cfg <Module>`. To check the proofs of a
module: `tlapm <Module>Proofs.tla` (minutes for most, longer for
`NetStackProofs`, `VfsTreeProofs` and `VfsProofs`).

## The system and its parts

Norx is a single-CPU kernel for x86_64 and aarch64 without preemption of kernel
code: one flow of control runs `main`, and on top of it come interrupts. Tables
have fixed sizes, most are guarded by masking interrupts, and identities are
slot numbers with a generation.

| Part | Source | Module |
|------|--------|--------|
| Process and thread tables | `process.rs` | `ProcessTable`, `ProcessProofs` |
| Current process, system calls, launch of images | `process.rs`, `syscall.rs`, `service.rs` | `ProcessRuntime`, `ProcessProofs` |
| Channels, shared rings, event queues | `ipc.rs` | `WaitQueue`, `MessageRing`, `IpcQueue`, `BoundedFifo`, `KernelProofs` |
| Driver framework | `drivers/framework.rs`, callbacks of `drivers/usb/xhci.rs` | `Device` |
| Service supervisor | `service.rs` | `DriverService`, `KernelProofs` |
| Frame allocator | `memory.rs` | `Memory` |
| Address spaces, page tables | `address_space.rs`, `paging.rs` | `AddressSpace` |
| Native runtimes, exec | `user_runtime.rs`, `exec.rs` | `ExecRuntime` |
| Virtual file system | `vfs.rs` | `Vfs`, `MCVfs`, `VfsTreeProofs`, `VfsProofs` |
| Warm-reboot log | `crash.rs` | `WarmLog`, `StorageProofs` |
| Interrupt vectors and deferred work | `irq.rs` | `Irq` |
| PS/2 controller, keyboard, mouse, event queue | `drivers/ps2.rs`, `keyboard.rs`, `mouse.rs`, `input.rs` | `ByteRing`, `Ps2Input`, `MCPs2Input`, `Ps2InputProofs` |
| Network driver | `drivers/network.rs` | `VirtioNet`, `NetHandlerProofs`, `NetStackProofs` |
| Network stack: ARP, DHCP, DNS, UDP, TCP | `net.rs` | `NetStack`, `NetHandlerProofs`, `NetStackProofs` |
| USB host controller and its rings | `drivers/usb/xhci.rs` | `XhciRings`, `UsbHost` |
| USB HID reports | `drivers/usb/hid.rs` | `UsbHid` |
| Block request queue and RAM disk | `drivers/block.rs` | `BlockQueue`, `StorageProofs` |
| File system readers | `fat32.rs`, `ext4.rs`, `btrfs.rs` | `Fat32`, `Ext4`, `Btrfs` |
| WebAssembly subset | `wasm.rs` | `Wasm` |
| ELF images, dynamic section, initial stack | `elf.rs`, `dynamic.rs`, `user_runtime.rs` | `Loader` |
| Instances for TLC | | `MCKernel`, `MCVfs`, `MCPs2Input`, `MCDisks`, `MCFormats` |
| Scheduler model, boot, consoles, audio, aarch64 | | not modelled, see the last sections |

How they interact, and where the models compose them:

- `syscall.rs` dispatches to the process runtime, which switches threads in the
  process table. `ProcessRuntime` EXTENDS `ProcessTable` and reuses its actions.
- The service supervisor drives a device through the driver framework, whose
  callbacks change the controller, and ends the service's process.
  `DriverService` EXTENDS `Device`. It keeps of the process table what
  `NoStaleIdentity` says of it: a process goes through its states once.
- exec prepares a second runtime, closes descriptors and exits the old runtime;
  both address spaces take frames from the one allocator. `ExecRuntime`,
  `AddressSpace` and `Memory` are stacked the same way.
- The PS/2 interrupt handler fills byte rings which the main loop empties; other
  vectors set work that the main loop runs. `Ps2Input` EXTENDS `Irq` and
  `ByteRing`.
- The network stack polls the adapter, whose device fills and empties the virtio
  rings at any time, over a network with DHCP servers, a resolver and a TCP peer.
  `NetStack` EXTENDS `VirtioNet`.
- The USB runtime fills command and transfer rings, waits on the event ring, and
  feeds interrupt reports to the HID driver. `UsbHost` EXTENDS `XhciRings` and
  `UsbHid`.
- The queues of `ipc.rs` are used by threads that block and are woken;
  `IpcQueue` contains the threads.

## Conventions

One operation of the code is one action, because it runs with interrupts masked
or because nothing else runs in the kernel. Where this is not so (power failures
inside the warm log's writes, interrupts inside the main loop) an operation is
split at the points where another actor can act. A call that fails without
changing anything is a stuttering step and has no disjunct. A free slot of a
table is a slot outside the domain of the function that models it. Capacities
and generation widths are CONSTANTS. Variables commented "history" are not
program state: properties use them to refer to the past. An operator whose
comment starts with "Mutation" or "Mutant" is a faulty variant of the definition
after it; no specification uses it.

Components that share no state in the kernel are checked in one run when their
instances are small: `MCKernel` and `MCFormats` put them side by side, and a
variable `subject` says which of them a behaviour is about.

## The modules

### ProcessTable

State: `processes` and `threads` (occupied slots with identity, parent, thread,
state, descriptors, pending signals), the generation of every slot. Actions:
create init, spawn a child, spawn a kernel thread, exit (children go to init),
reap through wait with and without a given child, open and close descriptors,
raise a signal, thread state changes and switches. Init is the table before
`create_init`. A slot whose generation reached its last value is reused with the
same identity, as in the code; `StaleIdsRejected` and `ThreadKept` are about
identities below that value and say so.

- `ParentRunning`: each process but init has a Running parent.
- `ThreadsOwned`: a user thread belongs to a process in the table that names it.
- `ThreadKept`: a process keeps its thread until both are reaped.
- `StaleIdsRejected`: the identity of a released slot names nothing later.

### ProcessRuntime

Adds `current_process`, `current_thread`, and `pc`, which says what really
executes: the kernel for init, or a launched image. Actions are boot, the steps
of a launch (with launches given up after each step), every system call that
changes state, the return to init and the collection of the zombie, and exits
by the supervisor.

- `OneRunning`: the one Running thread is the current one.
- `ImageReturns`: images that do not sleep return to init and are collected, and
  a Running process owns a thread that has not exited.

### IpcQueue over WaitQueue and MessageRing; BoundedFifo

`kind` says which of Channel, SharedRing and EventQueue a behaviour is about;
they differ in guards and in whom they wake. Threads are running, blocked or
woken. `BoundedFifo` is the promise: a sequence of bounded length, put at one
end and taken at the other. `ImplementsFifo` is the refinement; its mapping
reads the circular buffer from `head`. `NoLostWakeup` counts woken threads
against the items or the room they were woken for.

### Device and DriverService

`Device` has one operator per framework operation (probe, suspend, resume,
quiesce, remove, revoke, add a resource), a function of the device, driver and
the callback's outcome. `DriverService` has the service records with states,
endpoints and restart budgets, and processes that may exit or be reaped between
any two calls. `EndpointBacked` (an active endpoint has its device, and the lease of a device
that no driver owns is gone), `StoppedLeavesNothing` (a stopped service holds
nothing, a running one has a running controller) and `StaleHandlesRejected` relate service, device,
controller and process.

### Memory, AddressSpace, ExecRuntime

The operations of the first two are functions of the allocator and the space
with a success flag, so a rollback is written as in the code. `ExecRuntime` has
the actions: prepare, start, enter and leave user mode, page faults that grow
the stack, heap requests, activation, exit, replace. `FramesAccounted` (a frame
has exactly one place, and an exited runtime holds none) and `PagesInPlace` (the
stack is unbroken, a heap request is mapped whole or not at all, the hardware has
exactly the pages of the space in use) hold with every step of every operation allowed to fail where the code can. Three
behaviours of the code are excused in the properties and recorded by history
variables: the overflow of the returned-frame stack (`refused`), address spaces
dropped by a failed prepare (`abandoned`), and a table frame for which the list
of the space has no entry left, which is never returned (`leaked`).

### Vfs

State: the inode table, the open-file slots and their count, mounts,
namespaces, dentry slots, and what callers hold. A path is resolved as in the
code, mounts and `..` included. All operations that change a table are actions,
`unmount_ramfs` and a second `mount_ramfs` too. `TreeOK` says the inodes form a
tree and mounts hang together; `HandlesValid` that handles stay valid, are
counted, and are never writable under a read-only mount; `MountKept` (an action
property) that a mount in use does not change under its users, also when slots
are reused.

### WarmLog

Each EFI `set_variable` call and both ends of the CMOS byte loop are steps. A
reset or a panic may come between any two; a panic writes its own record, and a
panic inside that one halts. Any firmware call may fail, reads included: a
variable that cannot be read is taken for an empty slot and written back as one.
`CommittedSurvives`: the newest record stored is the one last reported as
committed or a later one; an interrupted write does not take the committed record
with it. `RingIntact`: without CMOS record q is in slot (q - 1) % Records, and the
variables keep the last records without a gap. Reads that fail can break parts of
both, and two history variables say from when: after an append that did not see
the newest record (`missed`) nothing is claimed of the committed one, until a
sector is committed that replaces every variable, and after one that did not see
every record (`gaps`) the ring may have holes.

### Irq, ByteRing, Ps2Input

The hardware (output buffer, bytes on the wire, configuration bits, requested
interrupts, keys held down) and the kernel (both byte rings, both parsers, held
keys and modifiers, the event count, the main loop, a command being sent, the
running handler) are in one state. Interrupts come between any two steps of the
main loop unless a command has masked them.

- `NoDeferredLost`: deferred work of an accepted interrupt is pending, or still
  ahead in the running pass.
- `InputRight`: once everything sent has been decoded, the driver's held keys
  are those that are down, unless a byte of the port was dropped, was taken for
  an answer, or came before the driver was there; and a pointer event is not
  made of bytes of two packets, with the same exception.
- `QueuesAreFifo` (action property): every step on a byte ring is a step of
  `BoundedFifo`, also when an interrupt fills it between the halves of dequeue.
- `ControllerDrained` (liveness): a byte in the controller of a port with
  interrupts is eventually read.

### VirtioNet, NetStack

`VirtioNet` has the two virtio queues as both sides see them: the rings and
indices in shared memory and each side's private index, wrapping at `IndexMod`.
`NetStack` has the poll loop (frames, then the DHCP, DNS and TCP timers, then at
most one debugger command), every frame handler, and outside the kernel the
device, two DHCP servers, a resolver and a TCP peer. A frame once sent stays on
the wire: it may be received never, later, again or after a younger one. Frames
are records of what the handlers tell apart; a frame that does not parse is
"bad". `session` picks what a behaviour is about, so that each client gets the
bound's frames to itself: it starts after the first DISCOVER, or in a state that
the modelled operations reach from there (a lease, and for names and streams also
the gateway's ARP entry).

- `BuffersOwned`: every receive buffer is once with the device or with the
  driver, and the transmit buffer is with the device exactly while the driver
  thinks so, also across index wraps and on every path that refuses a frame.
- `LeaseFromServer`: the address in use is of the server whose offer was taken,
  with that server's gateway and resolver, with servers that answer as the
  protocol asks.
- `AnswerMatchesQuery`: a resolved address answers a query with the identifier of
  the last one. Identifiers are 16 bits of a generator and may repeat: `Resolve`
  takes any.
- `AckedWasReceived` (action property): a payload stops being retransmitted on
  an open connection only when the peer has it. Not claimed after the sequence
  numbers of the connection have wrapped, because the code compares plain
  numbers.
- `ClientsSettle` (liveness): a lease, an address, a connection or a payload that
  is waited for is there or is given up.

### XhciRings, UsbHid, UsbHost

`XhciRings` is the producer and the consumer side of a TRB ring and of the event
ring, with cycle bits and the link entry. `UsbHid` parses a report descriptor
item by item and turns reports into events. `UsbHost` has the runtime: start and
stop, the enumeration of a device request by request, every wait with its
time-out and the commands that follow it, removal, interrupt reports. The
controller completes, fails or delays any request; a device is plugged, used and
unplugged at any time. Of the eight kinds of devices one has a configuration that
does not parse, one a report descriptor longer than the driver takes, one nothing
after the header of its configuration.

- `RingsAgree`: the controller finds the oldest entry it was given and nothing
  else, across wraps and resets.
- `CompletionMatches`: a completion the driver accepts is that of the request it
  waits for, although the code compares only kind, slot and endpoint, as long as
  no command was given up.
- `SlotBacked`: a device in use has an enabled slot, as long as no command was
  given up. It says nothing of slots that stay enabled without a device.
- `KeysFollow`: the keys believed to be held are those of the last report, and
  the queued events say so.
- `InputArrives` (liveness): a change of the keys reaches the HID driver.

### BlockQueue, Fat32, Ext4, Btrfs

`BlockQueue`: callers submit, poll and wait in any order over one RAM disk.
`ReadsSeeWrites`: requests take effect in the order of submission, although a
poll goes by slot.

`Fat32`, `Ext4` and `Btrfs` are the readers (and for FAT32 the writer) step by
step: one directory entry, one sector, one tree block or item at a time, on
volumes that are good or wrong in one place. Each property compares the result
with a definition of what the format says, written without the code's loops:
`WriteTakesEffect` (a write changes the size and the clusters of the file its path
denotes and nothing else, at every point where it may be cut off, and a later read
returns it; a cluster that a damaged volume shares with another file changes for
both), `ReadReturnsFile` (ext4: the file the path denotes, whole and in order),
`SearchFindsFirst` (Btrfs: a search that ended has found the first match of the
tree in key order, on trees whose levels go down).

### Wasm

Modules are parsed section by section, in any order; the body is verified and
then interpreted instruction by instruction. Bodies are all sequences of the
instructions up to the bound. `VerifiedRuns`: at every instruction the
interpreter's stack has the height, and the types, that the verifier computed.
The exceptions it names are listed under the behaviours below.

### Loader

`elf::parse`, the mapping of the plan, the initial stack and `dynamic::parse`,
header by header and tag by tag. An image is a record of headers and of what its
tables contain. `ImageAsPlanned`: memory holds what the plan says, and every
table read from the file is what the program finds at its address; the initial
stack overwrites none of it, because a segment that reaches into the stack's pages
is refused when these are mapped. `StackLaidOut`: words and strings of the initial
stack fit and do not overlap, and the words are in memory there. The strings only
have their places: nothing copies their bytes.

## The runs

| Run | Checks | Bounds |
|-----|--------|--------|
| `ProcessTable` | table invariants | 3 process and 3 thread slots, 2 generations: slots are reused, exhausted and full |
| `ProcessRuntime` | runtime against table | 3 processes, 4 threads, 4 launches (none reaches its last generation) |
| `RuntimeSleep` | `AlignedWithContext`, violated | same |
| `Kernel` | IPC queues | capacity 2, 2 wait slots, 3 threads on either side: a wait queue overflows; messages too long, buffers too short |
| | supervisor over framework | one device, two services, two usable drivers, one of another class and one without callbacks, 3 processes, 1 restart, 2 generations |
| | frames and rollbacks | 6 frames, 4 mappings, 4 returned frames, 1 table and 1 lost frame, 2 runtimes: every table and the allocator run out |
| | warm log across crashes | 2 records, 5 sequence numbers: the ring wraps twice |
| `IpcShut` | `ShuttingEndsBlocking`, violated | one ring, one thread on either side |
| `ServiceQuiesce` | `QuiescedHoldsNothing`, violated | as in `Kernel` |
| `ExecRollback` | `ClosedOnlyByCommit`, violated | as in `Kernel` |
| `Vfs` | all tables | 3 inodes, 3 mounts, 2 namespaces, 1 file or dentry held, 2 names |
| `Ps2Input` | input path, under fairness | rings of 3 (2 usable), 2 events, 2 stimuli, 2-byte packets |
| `Net` | network stack over driver, under fairness | queues of 2, indices modulo 4 and sequence numbers modulo 8: both wrap; 3 frames received, 2 commands, 1 retry, one connection |
| `Usb` | rings, enumeration, reports, under fairness | rings of 3 entries and a link, 2 slots, eight kinds of devices, 3 plugs, unplugs or key changes |
| `Formats` | block queue | 3 requests, 2 sectors |
| | FAT32, ext4, Btrfs | volumes of 6 clusters and of a few blocks, with links, extents, nodes and chunks that are good or wrong in one place; 3 calls on a FAT32 volume, read-only or not |
| | WebAssembly | bodies of up to 7 instructions, stacks of 3, sections in every order |
| | loader | about 100 images of up to 5 headers, differing from good ones in one header, tag or table; 8 sets of arguments |

Deadlock is checked in `Ps2Input` and `Net`, where something can always happen.
The others stop when their callers make no further call, when a parse is over,
or when generations and launches are used up.

The bounds are chosen so that each capacity is reached and each circular index
wraps. They leave out, in `DriverService`, a second device (services interact
only through slots and through a shared device); in `Vfs`, two handles at once
under different mounts, and trees deeper than two directories, so that a move into
one's own subtree is tried with the directory itself as the new parent only (the
theorems of `VfsProofs` have neither bound); in `Ps2Input`, long overruns, although the rings are
short enough for a key or a packet to fill them; in `WarmLog`, the third and fourth
record of the ring; in `NetStack`, a second connection and more than three frames in one
session; in `UsbHost`, a second port; in the readers, larger volumes and two
faults at once. Larger instances of the same modules can be checked by changing the
configurations alone.

### Fairness

`Ps2Input` assumes weak fairness of the main loop and of the running handler (one
CPU that does not stop; the loop has no blocking step) and strong fairness of
the delivery of a requested interrupt, because commands mask interrupts again
and again and the interrupt controller keeps the request. It assumes nothing of
users and devices. `Net` assumes weak fairness of the poll loop, which never
blocks, and strong fairness of the timers that are over: the clock goes on, so a
timer looked at again and again expires. It assumes nothing of the device and of
the network. `Usb` assumes weak fairness of the kernel's loop, and of the
controller only that it goes on with the interrupt endpoint it was told to
serve; `InputArrives` needs no more. `IpcShut` assumes that a woken thread runs and calls again,
which is the scheduler's part. All other runs check safety only.

### What the violated properties show

- `RuntimeSleep`: `sleep_current` switches the logical current process to init
  when an image sleeps, although control returns to the image. `yield_current`
  avoids that with a comment saying why. A following exit ends init's thread.
- `IpcShut`: `revoke` wakes nobody, so a thread blocked on a ring never learns
  of it; `docs/stability-contracts.md:42` promises bounded blocking.
- `ServiceQuiesce`: after a failed quiesce the service is Failed, and the device
  keeps its lease, which neither `stop` nor `restart` can release;
  `docs/service-boundary.md:26` says a service cannot retain a resource.
- `ExecRollback`: `replace` closes close-on-exec descriptors before the exit of
  the old runtime, which may fail; `docs/exec.md:13` says the old runtime is
  returned unchanged.

## What is proved

Eight modules hold proofs, each for every value of the constants its assumption
allows. Twenty-four theorems state properties that a run also checks. In each module
the properties are proved together from one inductive invariant, because none of
them is inductive by itself; every invariant was model-checked on the instance of
the corresponding run before it was proved (that of `Vfs` with its quantifiers over
names and records bounded). The proofs follow the next-state
relation: a lemma for the initial states, one for each kind of step, one that
combines them, then the theorems.

| Module | Theorems | Properties |
|--------|----------|------------|
| `ProcessProofs` | `TypeCorrect`, `NoOrphans`, `NoThreadLeaked`, `ThreadOutlivesProcess`, `NoStaleIdentity` | `TypeOK`, `ParentRunning`, `ThreadsOwned`, `ThreadKept`, `StaleIdsRejected` |
| `ProcessProofs` | `OneThreadRuns`, `ImagesReturn` | `OneRunning`, `ImageReturns` |
| `KernelProofs` | `EndpointsAreBacked`, `NothingIsLeft`, `HandlesGoStale` | `EndpointBacked`, `StoppedLeavesNothing`, `StaleHandlesRejected` |
| `KernelProofs` | `NoWakeupIsLost`, `QueuesImplementFifo` | `NoLostWakeup`, `ImplementsFifo` |
| `StorageProofs` | `CommittedRecordSurvives`, `RingStaysIntact` | `CommittedSurvives`, `RingIntact` |
| `Ps2InputProofs` | `ByteQueuesAreFifo`, `DeferredWorkIsKept` | `QueuesAreFifo`, `NoDeferredLost` |
| `NetStackProofs` | `BuffersStayOwned`, `LeaseIsFromServer`, `AnswersMatchQueries`, `AcknowledgedIsReceived` | `BuffersOwned`, `LeaseFromServer`, `AnswerMatchesQuery`, `AckedWasReceived` |
| `StorageProofs` | `BlockReadsSeeWrites` | `ReadsSeeWrites` |
| `VfsProofs` | `VfsTreeStaysOK`, `VfsHandlesStayValid`, `VfsMountsKept` | `TreeOK`, `HandlesValid`, `MountKept` |

`NetStackProofs` builds on `NetHandlerProofs`, which has the invariant of the
network and a lemma for each operation of the driver and each handler; `VfsProofs`
builds on `VfsTreeProofs`, which has the invariant and what the helpers of the calls
do to the inode table.

### Process tables

Assumed (`TableAssumption`): at least one process slot and one thread slot,
natural numbers for the other limits, initial descriptors within the table.

The invariant is `IInv == TypeOK /\ TableInv /\ ParentRunning /\ ThreadsOwned /\
ThreadKept`. `TableInv` supplies what the code relies on without saying so: an
occupied slot carries the identity made of its number and its current generation;
a retired identity is below the generation of its slot, or is at the last
generation; and init, once created, is Running in slot 0 with generation 0. The
last fact is why `Exit` can hand children to init: without it a parent could be a
process that is gone. The generation facts are why `Reap` can free a process's
thread without freeing another's, and they give `StaleIdsRejected` directly. The
proof is split where the code's cases are: a slot at its last generation keeps its
generation when released, and `ThreadKept` is stated below that value for this
reason.

### Process runtime

Assumed in addition (`RuntimeAssumption`): fewer launches than generations, so
that no reap fails because a generation is used up.

`RuntimeInv` has `IInv` of the table, whose step lemmas are reused, and relates
the table to the runtime: what `current_process` and `current_thread` are at each
stage of a launch (`CurrentOK`), that init and its thread stay in the table
(`InitOK`), that a zombie's thread has exited, and that thread generations stay
below the number of launches (`Generations`). What holds only as long as no image
has slept (`Awake`) is a conjunct under `~slept`: the stage of the image and its
thread, and that a Running process has a thread that has not exited.

### Service supervisor

Assumed: `DeviceAssumption` and `ServiceAssumption`, the sizes of the tables and
that `NoDriver` is no driver.

The proof has two layers. `DeviceOK` and `CleanHost` are facts about one device,
proved for each framework operation and each outcome of its callback, composed
ones (unplug, rebind, the recovery of a crash) included. `ServiceInv` adds that a
device has one service, and what the state of a service says of its device and
process. `CleanHost` is claimed of devices none of whose teardowns failed, which
is the exception `StoppedLeavesNothing` makes.

### Queues of ipc.rs

Assumed: `IpcAssumption` (a capacity above zero, finite sets of threads, each
using one end) and `WaitAssumption`.

`IpcInv` says that the blocked threads of a side are exactly those in its wait
queue, which is why a wake-up that takes a thread from the queue leaves none
behind, and counts woken threads against items or room. `RingOK` says that head,
tail and length agree. The refinement is proved step by step: the contents read
from `head` change by an append, by the removal of the first or not at all, and
every step of `IpcSpec` maps to a step of `BoundedFifo` or to a stutter.

### Virtual file system

Assumed (`VfsAssumption`): tables with at least one slot, paths that are sequences
of names and `..`, and the four kinds of propagation.

`VfsInv` says of the inode table (`TreeInv`) that entries and parents agree, that
an inode has one entry, and `Founded`: climbing from parent to parent leads out of
every set of inodes that the root is not in. `TreeOK` asks that the climb of
`is_descendant`, which is as long as the table, reaches the root. That is not
inductive: a rename changes the climbs of a whole subtree. `Founded` is, because
the check of `rename` says that the new parent's climb does not meet the moved inode,
so the new edge closes no cycle; and on a finite table it gives the climb back
(`ReachesRoot`). `MountInv` says the same of mounts and namespaces, one level at a
time. `FilesInv` and `NamesInv` tie each handle and dentry to its slot, no two to the
same, and say that `open_count` and the reference counts are the numbers of slots
that name a mount; `unmount_mount` and `destroy_namespace` look at these, which is
why `MountKept` holds. The walk of a path is a recursive function; that it exists and
stays within its namespace is proved once for iterations of any length (`Iterates`,
`Stays`).

### Warm-reboot log

Assumed (`WarmLogAssumption`): at least one slot and one sequence number; the
code's four slots are one case.

`WarmInv` says what is on the media while a write is under way. The record that
must not be lost is in EFI (`trusted`), no other record has its number
(`Agrees`), and what is being stored is either what was read from EFI with one
slot replaced by a newer record, or the CMOS record, which goes first
(`SafeToStore`). So each variable on its own can be lost or written at any point.
What was read is what is stored or zeros (`EfiRead`); unless an append missed the
newest record, the record it adds is newer than all that are stored (`Below`), and
this is what the conjuncts under `~missed` need. `RingInv` says that without CMOS
every record is in its place whatever was read (`InPlace`), and, as long as reads
were complete, that the sequence numbers lie in ring order without a gap and that
during a write at most the next slot differs.

### PS/2 input and deferred work

Assumed (`Ps2Assumption`): a ring of at least one slot, and scan codes and packets
that are sequences of bytes.

`QueueInv`: both rings are sound, and the byte that dequeue has read and not yet
taken is still the oldest of its ring (`HeldByteOK`), although an interrupt, a
drain or a command fills the ring in between. Then each step maps to one of
`BoundedFifo`. `DeferredInv`: outside a pass no slot is left to look at, so that
taking the pending bits forgets none.

### Network stack and driver

Assumed: `QueueAssumption` (room for the receive buffers, an index width that the
queue size divides and that exceeds it, as 2^16 does for every legal size) and
`StackAssumption`, which bounds frames received and commands issued together below
the modulus of the sequence numbers: within a behaviour numbers may wrap but not
come round to their start. The bound is there for `AckedWasReceived`.

`NetInv` is a conjunction by layers:

- `NicOK`: the receive buffers in the order in which the driver will see them
  (`Circulating`) are a permutation, whatever the indices are modulo `IndexMod`;
  the transmit queue has one place in circulation while the driver is busy.
- `UnreadOK`: a frame not yet read is one that a host sent or one of the noise.
- `LeaseOK`: what is on the wire or with the device names the server whose offer
  was taken, and no acknowledgement exists before an offer was taken. This is why
  a late answer of the other server cannot be taken for the right one.
- `DnsOK`: a result has the number of the query.
- `TcpOK`: distances from the first number of the connection (`Offset`) order what
  the peer has, what any acknowledgement on the wire says and what the client has
  sent. Every step on in the sequence was paid for with a frame or a command
  (`Spent`), so distances do not come round. With `OffsetOrder` the plain
  comparison of the code then implies that of the distances, as long as the
  number compared is above the first.

Each handler has a lemma that says it keeps `Good`, the invariant of a handler's
argument, in every world of frames and peers; `Send` and the driver's operations
have theirs. `AckRight` is the action property as a relation between the socket
before and after, proved along with the invariant. The initial states are states
that the operations reach from `Stack::new`, and are proved by the same lemmas.

### Block request queue

Assumed (`BlockAssumption`): at least one slot, a disk of two sectors or more, and
calls whose lengths are natural numbers.

`poll` carries requests out in the order of the table, and `ReadsSeeWrites` is
about the order of submission. The two agree because of two facts that no line of
the code states: a slot is freed only right after a poll, when nothing is queued
any more, and `submit` takes the first free slot. So whenever something is queued,
the queued slots lie in submission order and no free slot lies between them.
`QueueOK` says so with a chain of disks: `d[0]` is the disk as it is, `d[k]` what
it will be once the slots up to `k` are done, `d[Depth]` the disk that all
submitted writes make (`submitted`), and each queued read is due what `d[k - 1]`
holds. A poll walks along this chain (`PollRuns`). The loop over the slots is a
recursive function of the slot; that it exists and has the chain's values is an
induction over the slot numbers (`CountUp`, from the least-number principle), not
one over data.

### What is only model-checked

- Liveness (`ControllerDrained`, `ClientsSettle`, `InputArrives`): fairness and
  ENABLED are out of the prover's reach.
- The readers, parsers and the interpreter against their reference definitions
  (`WriteTakesEffect`, `ReadReturnsFile`, `SearchFindsFirst`, `VerifiedRuns`,
  `ImageAsPlanned`, `StackLaidOut`) and `InputRight`, `KeysFollow`: what a loop
  over the data computes takes induction over data.
- `FramesAccounted` and `PagesInPlace`: freeing a space is a fold over its
  mappings, which needs the same.
- `RingsAgree`, `CompletionMatches`, `SlotBacked`: not attempted so far.

## Behaviours of the code worth knowing

These came up in modelling, are part of the models where they are in their
scope, and are not violated properties.

Kernel:

- When the stack of returned frames is full, `destroy` stops midway. A retry
  may return frames twice.
- An error while an image is loaded drops the address space without destroying
  it; `docs/stability-contracts.md:39` says a failed prepare rolls back.
- A frame taken for a page table when the space's list of such frames is full is
  neither used nor returned, and the mapping fails.
- An append to the warm-reboot log takes an EFI variable it cannot read for an empty
  slot and writes it back as one; if that was the newest record, the next one gets
  a sequence number that was used before.
- A refused `enter_user` after activation destroys the space and leaves the
  runtime "started".
- The guard page below the stack may already be mapped when the stack is set up.
- `unregister` at the last generation leaves the service's handle usable again.
- `recover_crash` of a service whose process was already reaped returns an error
  and the service stays Running.
- A controller whose removal failed is taken over, halted, by the next probe.
- A second mount on the same target succeeds and cannot be reached.
- `remove_dir` takes a mountpoint; the mount then covers whatever reuses the
  inode. `destroy_namespace` leaves the mounts below the root of the namespace.
- With CMOS, ties are won by CMOS and the EFI ring never keeps more than two
  records (`docs/warm-reboot.md:3` speaks of four).
- `enable_interrupts` of the PS/2 driver does not flush, so a byte that was sent
  before is read as the configuration. If the call fails the log says "input
  remains polled", and nothing polls.
- Releasing one of two held shift keys clears the shift modifier.

Network:

- A SYN-ACK whose ACK cannot be sent leaves the socket in SynSent with the
  sequence number moved on (`net.rs:639`); the retry sends the wrong number.
- Data segments are taken without a check that they are the next ones, and a
  payload too long for the buffer is acknowledged but not stored.
- The acknowledgement is compared with `>=`, not modulo 2^32 (`net.rs:650`).
- A DHCP NAK is obeyed in any state and leaves `configured` set.
- After data with FIN the second ACK may find the transmitter busy; the socket
  then stays open.

USB:

- A failed enumeration leaves its slot enabled. A replug leaks the frames of the
  endpoint rings.
- A command that timed out may complete later and is taken for the next command;
  `CompletionMatches` and `SlotBacked` exclude it by `timedOut`.
- `push` never checks whether the ring is full. The driver makes one request at a
  time; `RingsAgree` holds on the rings of the run, but no property says that a
  ring of any size cannot fill.
- A HID device that reports nothing for INTERRUPT_TIMEOUT_POLLS polls is dropped,
  as is one that answers with a short packet.
- A device swapped between two polls is not noticed; unplugging with keys held
  reports no release.

Storage:

- A queued write is carried out although the disk was made read-only meanwhile.
  A request whose identifier is dropped keeps its slot.
- FAT32: a write to a file without a cluster fails, `next_cluster` accepts 1, and
  the rest of the last sector is filled with zeros. A directory whose cluster is 0
  or 1, as `..` has in a directory below the root, makes `cluster_sector` underflow:
  a build with overflow checks stops, another one searches sectors of the FAT.
- Btrfs: nothing checks that levels decrease; the bound on visits ends a cycle.

Programs:

- Verified WebAssembly may still fail: a block may take values from below its
  start, so that an `if` not taken leaves other types; `find_control_end` does not
  skip the immediate of `i64.const`, and one that looks like a call, a constant or
  a load makes it skip bytes of the next instructions; the verifier accepts any imported index for
  a call, the interpreter only 0. Every `loop` is refused.
- The function's type is not checked to be `() -> i32`, which
  `docs/vm-format.md:24` says.
- A segment whose address is not page-aligned is mapped from its page's start but
  read from its own file offset. Argument strings are laid out but not copied to
  the new stack, and relocations are checked but not applied.

## What is not modelled

- Reading numbers and strings from bytes: LEB128, little-endian fields,
  checksums, UTF-8, names in paths. Models start from the decoded fields.
- The fixtures (`fixture` volumes, images and self-checks run at boot).
- The scheduler model (`sched.rs`): no context switch depends on it, it only
  names a task.
- The handle table and cancellation of WebAssembly instances; resolving libraries
  and symbols, which only self-checks do; FTDI serial adapters.
- Drawing, fonts, text consoles, audio, serial ports, PCI: device I/O without
  state that other parts rely on.
- Boot order, firmware tables, descriptor tables, local APIC: set up once.
- The aarch64 port of interfaces whose x86_64 code is modelled.
- Data: message payloads, page flags, credentials, exit statuses, accounting
  counters. No modelled state change depends on them.

## Plan

More proofs, in this order: `RingsAgree` for `XhciRings` (cycle bits and links
across wraps, for every ring size); `FramesAccounted` over `Memory`, once freeing is stated without a fold. Then the
scheduler's deadlines and charges, once switches depend on them.
