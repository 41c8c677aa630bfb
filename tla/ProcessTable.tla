---------------------------- MODULE ProcessTable ----------------------------
(***************************************************************************)
(* The fixed-capacity process and thread tables of src/process.rs: slots   *)
(* reused under a generation counter, parent links, the single user thread *)
(* of each process, file descriptors and pending signals.                  *)
(*                                                                         *)
(* Every operation runs with interrupts masked (without_interrupts), so    *)
(* each is one atomic step: the transient states Creating, Exiting and     *)
(* Created are never visible.  A free slot is a slot outside the domain of *)
(* its table.  An operation that returns an error without changing the     *)
(* table is a stuttering step and has no disjunct here.                    *)
(***************************************************************************)
EXTENDS Naturals

CONSTANTS
    MaxProcesses,   \* process slots (MAX_PROCESSES, 32)
    MaxThreads,     \* thread slots (MAX_THREADS, 64)
    MaxGen,         \* largest generation a slot can hold (u16::MAX)
    MaxFds,         \* descriptor slots of a process (MAX_FDS, 32)
    StdFds,         \* descriptors a new process is born with ({0, 1, 2})
    Signals         \* bits of the pending-signal and pending-event bitmaps

ASSUME TableAssumption ==
    /\ MaxProcesses \in Nat \ {0}
    /\ MaxThreads \in Nat \ {0}
    /\ MaxGen \in Nat
    /\ MaxFds \in Nat
    /\ StdFds \subseteq 0 .. MaxFds - 1

VARIABLES
    processes,      \* occupied process slot -> process record
    processGen,     \* process slot -> generation of its next identity
    threads,        \* occupied thread slot -> thread record
    threadGen,      \* thread slot -> generation of its next identity
    retiredP,       \* history, not program state: identities of the
    retiredT        \*   processes and the threads whose slot was released

idVars == <<processGen, threadGen, retiredP, retiredT>>
tableVars == <<processes, threads, idVars>>

PSlots == 0 .. MaxProcesses - 1
TSlots == 0 .. MaxThreads - 1
FdSlots == 0 .. MaxFds - 1

\* Identities are (generation << 16) | (slot + 1); NoPid and NoTid are None.
ProcessId == [slot : PSlots, gen : 0 .. MaxGen]
ThreadId == [slot : TSlots, gen : 0 .. MaxGen]
INIT == [slot |-> 0, gen |-> 0]
NoPid == [slot |-> MaxProcesses, gen |-> 0]
NoTid == [slot |-> MaxThreads, gen |-> 0]

\* A descriptor is open with or without its close-on-exec flag.
ProcessRecord ==
    [id : ProcessId, parent : ProcessId \cup {NoPid},
     state : {"Running", "Zombie"}, thread : ThreadId,
     fds : [FdSlots -> {"closed", "open", "cloexec"}],
     pending : SUBSET Signals]
ThreadRecord ==
    [id : ThreadId, process : ProcessId \cup {NoPid},
     state : {"Ready", "Running", "Blocked", "Sleeping", "Exited"}]

-----------------------------------------------------------------------------
(* Lookups and slot allocation *)

IsProcess(id) ==
    /\ id \in ProcessId
    /\ processGen[id.slot] = id.gen
    /\ id.slot \in DOMAIN processes
    /\ processes[id.slot].id = id

IsThread(id) ==
    /\ id \in ThreadId
    /\ threadGen[id.slot] = id.gen
    /\ id.slot \in DOMAIN threads
    /\ threads[id.slot].id = id

ProcessIn(id, state) == IsProcess(id) /\ processes[id.slot].state = state
ThreadIn(id, states) == IsThread(id) /\ threads[id.slot].state \in states

\* Position of the first free slot of a table.
FirstFree(slots, used) ==
    CHOOSE s \in slots \ used : \A x \in slots \ used : s <= x

Occupy(table, slot, record) ==
    [s \in DOMAIN table \cup {slot} |-> IF s = slot THEN record ELSE table[s]]

Release(table, slot) == [s \in DOMAIN table \ {slot} |-> table[s]]

\* Mutations of Bump: an unchecked addition, and a slot released without one.
BumpUnchecked(gens, slot) == [gens EXCEPT ![slot] = @ + 1]
BumpForgotten(gens, slot) == gens

\* generation.checked_add(1): at MaxGen the generation stays what it was.
Bump(gens, slot) ==
    [gens EXCEPT ![slot] = IF @ < MaxGen THEN @ + 1 ELSE @]

-----------------------------------------------------------------------------
(* Creation *)

\* ProcessRecord::new with the one thread the callers of allocate_thread give
\* a process: they create a fresh record and call it once.
NewProcess(p, parent, t) ==
    [id |-> p, parent |-> parent, state |-> "Running", thread |-> t,
     fds |-> [f \in FdSlots |-> IF f \in StdFds THEN "open" ELSE "closed"],
     pending |-> {}]

NewThread(t, p) == [id |-> t, process |-> p, state |-> "Ready"]

\* Create a process in slot ps and its thread in the first free thread slot;
\* without a free thread slot the process record is rolled back.
SpawnIn(ps, parent) ==
    /\ TSlots \ DOMAIN threads # {}
    /\ LET ts == FirstFree(TSlots, DOMAIN threads)
           p == [slot |-> ps, gen |-> processGen[ps]]
           t == [slot |-> ts, gen |-> threadGen[ts]]
       IN  /\ processes' = Occupy(processes, ps, NewProcess(p, parent, t))
           /\ threads' = Occupy(threads, ts, NewThread(t, p))
    /\ UNCHANGED idVars

CreateInit ==
    /\ 0 \notin DOMAIN processes
    /\ SpawnIn(0, NoPid)

SpawnChild(parent) ==
    /\ ProcessIn(parent, "Running")
    /\ PSlots \ DOMAIN processes # {}
    /\ SpawnIn(FirstFree(PSlots, DOMAIN processes), parent)

SpawnKernelThread ==
    /\ TSlots \ DOMAIN threads # {}
    /\ LET ts == FirstFree(TSlots, DOMAIN threads)
           t == [slot |-> ts, gen |-> threadGen[ts]]
       IN  threads' = Occupy(threads, ts, NewThread(t, NoPid))
    /\ UNCHANGED <<processes, idVars>>

-----------------------------------------------------------------------------
(* Exit, wait and reap *)

\* Mutation of Exit: the children are not given to INIT.
ExitOrphans(p) ==
    /\ p # INIT
    /\ ProcessIn(p, "Running")
    /\ threads' = [s \in DOMAIN threads |->
                     IF threads[s].process = p
                     THEN [threads[s] EXCEPT !.state = "Exited"]
                     ELSE threads[s]]
    /\ processes' = [processes EXCEPT
                       ![p.slot].state = "Zombie",
                       ![p.slot].fds = [f \in FdSlots |-> "closed"]]
    /\ UNCHANGED idVars

\* One step: descriptors closed, every thread of p Exited, children given to
\* INIT, and only then the Zombie record published.
Exit(p) ==
    /\ p # INIT
    /\ ProcessIn(p, "Running")
    /\ threads' = [s \in DOMAIN threads |->
                     IF threads[s].process = p
                     THEN [threads[s] EXCEPT !.state = "Exited"]
                     ELSE threads[s]]
    /\ processes' = [s \in DOMAIN processes |->
                       [processes[s] EXCEPT
                          !.parent = IF @ = p THEN INIT ELSE @,
                          !.state = IF s = p.slot THEN "Zombie" ELSE @,
                          !.fds = IF s = p.slot
                                  THEN [f \in FdSlots |-> "closed"] ELSE @]]
    /\ UNCHANGED idVars

ZombieChildren(parent) ==
    {s \in DOMAIN processes :
        processes[s].parent = parent /\ processes[s].state = "Zombie"}

\* Mutations of Reap: the thread is left in its slot; the generation of the
\* process slot is only found used up after the thread is gone.
ReapLeavesThread(slot) ==
    /\ processes' = Release(processes, slot)
    /\ processGen' = Bump(processGen, slot)
    /\ retiredP' = retiredP \cup {processes[slot].id}
    /\ UNCHANGED <<threads, threadGen, retiredT>>

ReapChecksLate(slot) ==
    LET t == processes[slot].thread IN
    /\ t.slot \in DOMAIN threads
    /\ threads[t.slot].id = t
    /\ threads' = Release(threads, t.slot)
    /\ threadGen' = Bump(threadGen, t.slot)
    /\ retiredT' = retiredT \cup {t}
    /\ \/ /\ processGen[slot] < MaxGen
          /\ processes' = Release(processes, slot)
          /\ processGen' = Bump(processGen, slot)
          /\ retiredP' = retiredP \cup {processes[slot].id}
       \/ /\ processGen[slot] = MaxGen
          /\ UNCHANGED <<processes, processGen, retiredP>>

\* The thread slot is emptied before its generation is bumped, and the process
\* slot likewise: a thread slot at MaxGen makes reap return an error half-way,
\* with the thread gone and the zombie still in the table.
Reap(slot) ==
    LET t == processes[slot].thread IN
    /\ t.slot \in DOMAIN threads
    /\ threads[t.slot].id = t
    /\ threads' = Release(threads, t.slot)
    /\ threadGen' = Bump(threadGen, t.slot)
    /\ retiredT' = retiredT \cup {t}
    /\ \/ /\ threadGen[t.slot] < MaxGen
          /\ processes' = Release(processes, slot)
          /\ processGen' = Bump(processGen, slot)
          /\ retiredP' = retiredP \cup {processes[slot].id}
       \/ /\ threadGen[t.slot] = MaxGen
          /\ UNCHANGED <<processes, processGen, retiredP>>

\* wait(parent, None): the zombie child in the lowest slot.
WaitAny(parent) ==
    /\ IsProcess(parent)
    /\ ZombieChildren(parent) # {}
    /\ Reap(CHOOSE s \in ZombieChildren(parent) :
              \A x \in ZombieChildren(parent) : s <= x)

\* wait(parent, Some(child)).
WaitChild(parent, child) ==
    /\ IsProcess(parent)
    /\ IsProcess(child)
    /\ child.slot \in ZombieChildren(parent)
    /\ Reap(child.slot)

-----------------------------------------------------------------------------
(* Thread states *)

SetThread(t, state) ==
    /\ threads' = [threads EXCEPT ![t.slot].state = state]
    /\ UNCHANGED <<processes, idVars>>

BlockThread(t, state) ==
    /\ state \in {"Blocked", "Sleeping"}
    /\ ThreadIn(t, {"Ready", "Running"})
    /\ SetThread(t, state)

WakeThread(t) == ThreadIn(t, {"Blocked", "Sleeping"}) /\ SetThread(t, "Ready")

PreemptThread(t) == ThreadIn(t, {"Running"}) /\ SetThread(t, "Ready")

\* from = NoTid is switch_to(None, to).
SwitchTo(from, to) ==
    /\ from # to
    /\ from = NoTid \/ ThreadIn(from, {"Running"})
    /\ ThreadIn(to, {"Ready"})
    /\ threads' = [s \in DOMAIN threads |->
                     CASE s = to.slot -> [threads[s] EXCEPT !.state = "Running"]
                       [] s = from.slot -> [threads[s] EXCEPT !.state = "Ready"]
                       [] OTHER -> threads[s]]
    /\ UNCHANGED <<processes, idVars>>

ReadySlots == {s \in DOMAIN threads : threads[s].state = "Ready"}

\* The Ready thread in the lowest slot.
PickReady == threads[CHOOSE s \in ReadySlots : \A x \in ReadySlots : s <= x].id

-----------------------------------------------------------------------------
(* Descriptors and signals *)

SetFds(p, fds) ==
    /\ processes' = [processes EXCEPT ![p.slot].fds = fds]
    /\ UNCHANGED <<threads, idVars>>

ClosedFds(p) == {f \in FdSlots : processes[p.slot].fds[f] = "closed"}

OpenFd(p) ==
    /\ ProcessIn(p, "Running")
    /\ ClosedFds(p) # {}
    /\ SetFds(p, [processes[p.slot].fds EXCEPT ![FirstFree(ClosedFds(p), {})] = "open"])

CloseFd(p, f) ==
    /\ IsProcess(p)
    /\ f \in FdSlots \ ClosedFds(p)
    /\ SetFds(p, [processes[p.slot].fds EXCEPT ![f] = "closed"])

SetCloseOnExec(p, f, enabled) ==
    /\ IsProcess(p)
    /\ f \in FdSlots \ ClosedFds(p)
    /\ SetFds(p, [processes[p.slot].fds EXCEPT
                    ![f] = IF enabled THEN "cloexec" ELSE "open"])

CloseOnExec(p) ==
    /\ IsProcess(p)
    /\ SetFds(p, [f \in FdSlots |-> IF processes[p.slot].fds[f] = "cloexec"
                                    THEN "closed" ELSE processes[p.slot].fds[f]])

\* raise_signal and raise_event; nothing clears a pending bit.
RaiseSignal(p, n) ==
    /\ IsProcess(p)
    /\ processes' = [processes EXCEPT ![p.slot].pending = @ \cup {n}]
    /\ UNCHANGED <<threads, idVars>>

-----------------------------------------------------------------------------
Init ==
    /\ processes = [s \in {} |-> NoPid]
    /\ processGen = [s \in PSlots |-> 0]
    /\ threads = [s \in {} |-> NoTid]
    /\ threadGen = [s \in TSlots |-> 0]
    /\ retiredP = {}
    /\ retiredT = {}

ProcessStep(p) ==
    \/ SpawnChild(p)
    \/ Exit(p)
    \/ WaitAny(p)
    \/ \E child \in ProcessId : WaitChild(p, child)
    \/ OpenFd(p)
    \/ \E f \in FdSlots : CloseFd(p, f)
    \/ \E f \in FdSlots, enabled \in BOOLEAN : SetCloseOnExec(p, f, enabled)
    \/ CloseOnExec(p)
    \/ \E n \in Signals : RaiseSignal(p, n)

ThreadStep(t) ==
    \/ \E state \in {"Blocked", "Sleeping"} : BlockThread(t, state)
    \/ WakeThread(t)
    \/ PreemptThread(t)
    \/ \E from \in ThreadId \cup {NoTid} : SwitchTo(from, t)

Next ==
    \/ CreateInit
    \/ SpawnKernelThread
    \/ \E p \in ProcessId : ProcessStep(p)
    \/ \E t \in ThreadId : ThreadStep(t)

Spec == Init /\ [][Next]_tableVars

-----------------------------------------------------------------------------
(* Properties *)

\* The tables stay within their capacities and every record is well formed
\* (process.rs ProcessTable, ProcessRecord, ThreadRecord).
TypeOK ==
    /\ DOMAIN processes \subseteq PSlots
    /\ \A s \in DOMAIN processes : processes[s] \in ProcessRecord
    /\ processes = [s \in DOMAIN processes |-> processes[s]]
    /\ DOMAIN threads \subseteq TSlots
    /\ \A s \in DOMAIN threads : threads[s] \in ThreadRecord
    /\ threads = [s \in DOMAIN threads |-> threads[s]]
    /\ processGen \in [PSlots -> 0 .. MaxGen]
    /\ threadGen \in [TSlots -> 0 .. MaxGen]
    /\ retiredP \subseteq ProcessId
    /\ retiredT \subseteq ThreadId

\* Nobody is orphaned: whatever order processes exit and are reaped in, every
\* process except INIT has a parent that is in the table and Running, so its
\* exit record can always be collected (exit reparents to INIT before the
\* Zombie is published; INIT never exits).
ParentRunning ==
    \A s \in DOMAIN processes :
        processes[s].id # INIT => ProcessIn(processes[s].parent, "Running")

\* No thread is leaked: a user thread's process is still in the table and
\* names exactly that thread, whatever failed half-way (reap, allocate_thread).
ThreadsOwned ==
    \A s \in DOMAIN threads :
        LET p == threads[s].process IN
        p # NoPid => IsProcess(p) /\ processes[p.slot].thread = threads[s].id

\* A process keeps its own thread until it is reaped, as long as the thread
\* slot's generation is not used up: the record it names is in the table and
\* belongs to it.
ThreadKept ==
    \A s \in DOMAIN processes :
        LET t == processes[s].thread IN
        t.gen < MaxGen => IsThread(t) /\ threads[t.slot].process = processes[s].id

\* An identity of a released slot never names a later occupant, up to the
\* last generation of the slot (the generation check of process() and
\* thread()).
StaleIdsRejected ==
    /\ \A p \in retiredP : p.gen < MaxGen => ~IsProcess(p)
    /\ \A t \in retiredT : t.gen < MaxGen => ~IsThread(t)

\* The inductive strengthening the proofs use: a record carries the identity
\* of its slot and generation, a released identity is below the slot's
\* generation (or the slot is used up), and INIT is there, Running, from the
\* first process on, under the reserved generation 0.
TableInv ==
    /\ \A s \in DOMAIN processes :
          processes[s].id = [slot |-> s, gen |-> processGen[s]]
    /\ \A s \in DOMAIN threads :
          threads[s].id = [slot |-> s, gen |-> threadGen[s]]
    /\ \A p \in retiredP : p.gen < processGen[p.slot] \/ p.gen = MaxGen
    /\ \A t \in retiredT : t.gen < threadGen[t.slot] \/ t.gen = MaxGen
    /\ processGen[0] = 0
    /\ DOMAIN processes # {} => ProcessIn(INIT, "Running")

=============================================================================
