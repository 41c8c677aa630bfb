---------------------------- MODULE ExecRuntime ----------------------------
(***************************************************************************)
(* Native runtimes (src/user_runtime.rs) and their replacement             *)
(* (src/exec.rs) over the address spaces and the frame allocator.  Each    *)
(* operation is one step: the kernel does not switch inside one.           *)
(*                                                                         *)
(* A runtime is "none" (not prepared), "ready", "started", in "user" mode  *)
(* (inside enter_user) or "exited".  A runtime that is not returned to the *)
(* caller takes the frames of its address space with it: abandoned.        *)
(***************************************************************************)
EXTENDS AddressSpace

CONSTANTS
    Runtimes,
    FirstPages,     \* pages at which an image may be loaded
    MaxImage,       \* pages of an image
    MaxHeap,        \* pages of one heap request
    MaxCloexec,     \* close-on-exec descriptors the process opens
    MaxPrepares,    \* images prepared in a behaviour (bound of the model)
    MaxLeaked       \* table frames lost in a behaviour (bound of the model)

ASSUME RuntimeAssumption ==
    /\ FirstPages \subseteq 1 .. LastPage /\ MaxImage \in Nat /\ MaxHeap \in Nat
    /\ {MaxPrepares, MaxLeaked} \subseteq Nat

VARIABLES
    mem,            \* the allocator
    runtimes,       \* runtime -> [phase, sp, heap]
    cloexec,        \* open descriptors marked close-on-exec
    prepares,       \* images prepared so far, to bound the model
    abandoned       \* history: frames of address spaces dropped undestroyed

execVars == <<mem, runtimes, cloexec, prepares, abandoned>>

NoRuntime == [phase |-> "none", sp |-> NoSpace, heap |-> 0]

ExecInit ==
    /\ mem = NewMemory
    /\ runtimes = [r \in Runtimes |-> NoRuntime]
    /\ cloexec = 0
    /\ prepares = 0
    /\ abandoned = {}

Vacant(r) == runtimes[r].phase \in {"none", "exited"}

\* enter_user returns when the program leaves user mode; until then only the
\* program's own faults and requests are served.
InKernel == \A r \in Runtimes : runtimes[r].phase # "user"

CountPrepare == prepares < MaxPrepares /\ prepares' = prepares + 1

Abandon(sp) == abandoned' = abandoned \cup ToSet(Held(sp))

-----------------------------------------------------------------------------
(* prepare *)

\* How preparing ends apart from want of memory: "load" and "words" are
\* failures to write the image and the initial stack, "stack" is arguments
\* that do not fit.
PrepareOutcomes == {"ok", "load", "stack", "words"}

OrDestroy(r) == IF r.ok THEN r ELSE [Destroy(r.mem, r.sp) EXCEPT !.ok = FALSE]

Then(r, Step(_)) == IF r.ok THEN Step(r) ELSE r

\* The address space after prepare_internal; a space that failed is destroyed
\* or, where writing to it failed, left as it is.
Prepared(m, first, n, out) ==
    LET Image(r) == OrDestroy(MapRun(r.mem, r.sp, first, n, "anonymous", NoPath))
        Load(r) == [r EXCEPT !.ok = out # "load"]
        Stack(r) == OrDestroy(MapStack(r.mem, r.sp))
        Arguments(r) == OrDestroy([r EXCEPT !.ok = out # "stack"])
        Words(r) == [r EXCEPT !.ok = out # "words"] IN
    Then(Then(Then(Then(Then(NewSpace(m), Image), Load), Stack), Arguments), Words)

Prepare(r, first, n, out) ==
    /\ InKernel /\ Vacant(r)
    /\ CountPrepare
    /\ \E p \in {Prepared(mem, first, n, out)} :
         /\ mem' = p.mem
         /\ IF p.ok
            THEN /\ runtimes' = [runtimes EXCEPT ![r] =
                                   [phase |-> "ready", sp |-> p.sp, heap |-> first + n]]
                 /\ UNCHANGED abandoned
            ELSE Abandon(p.sp) /\ UNCHANGED runtimes
    /\ UNCHANGED cloexec

-----------------------------------------------------------------------------
(* Running *)

Start(r) ==
    /\ InKernel /\ runtimes[r].phase = "ready"
    /\ runtimes' = [runtimes EXCEPT ![r].phase = "started"]
    /\ UNCHANGED <<mem, cloexec, prepares, abandoned>>

\* The switch to user mode after activate.  entered says whether the processor
\* took the new root and the registers; if not, the space is destroyed.
Entered(act, entered) ==
    IF act.ok /\ ~entered THEN [Destroy(act.mem, act.sp) EXCEPT !.ok = FALSE] ELSE act

\* enter_user up to user mode.
EnterUser(r, path, entered) ==
    /\ InKernel /\ runtimes[r].phase = "started"
    /\ \E e \in {Entered(Activate(mem, runtimes[r].sp, path), entered)} :
         /\ mem' = e.mem
         /\ runtimes' = [runtimes EXCEPT ![r].sp = e.sp,
                                         ![r].phase = IF e.ok THEN "user" ELSE @]
    /\ UNCHANGED <<cloexec, prepares, abandoned>>

\* The rest of enter_user, after the program left user mode.
LeaveUser(r) ==
    /\ runtimes[r].phase = "user"
    /\ \E d \in {Destroy(mem, runtimes[r].sp)} :
         /\ mem' = d.mem
         /\ runtimes' = [runtimes EXCEPT ![r].sp = d.sp,
                                         ![r].phase = IF d.ok THEN "exited" ELSE "started"]
    /\ UNCHANGED <<cloexec, prepares, abandoned>>

Started(r) == runtimes[r].phase = "user" \/ (InKernel /\ runtimes[r].phase = "started")

\* Mutation of the heap request: the first page is not taken back.
HeapKeepsFirst(run) ==
    IF run.ok \/ run.done = <<>> THEN Result(run.mem, run.sp, run.ok)
    ELSE [RemoveRun(run.mem, run.sp, Reverse(Tail(run.done)), UnmapPage) EXCEPT !.ok = FALSE]

\* A heap request is all or nothing.
Heap(run) ==
    IF run.ok THEN Result(run.mem, run.sp, TRUE)
    ELSE [RemoveRun(run.mem, run.sp, Reverse(run.done), UnmapPage) EXCEPT !.ok = FALSE]

AllocHeap(r, n, path) ==
    /\ Started(r)
    /\ runtimes[r].heap + n <= LastPage + 1
    /\ \E h \in {Heap(MapRun(mem, runtimes[r].sp, runtimes[r].heap, n, "anonymous", path))} :
         /\ mem' = h.mem
         /\ runtimes' = [runtimes EXCEPT ![r].sp = h.sp,
                                         ![r].heap = IF h.ok THEN @ + n ELSE @]
    /\ UNCHANGED <<cloexec, prepares, abandoned>>

StackFault(r, page, path) ==
    /\ Started(r)
    /\ \E g \in {GrowStack(mem, runtimes[r].sp, page, path)} :
         mem' = g.mem /\ runtimes' = [runtimes EXCEPT ![r].sp = g.sp]
    /\ UNCHANGED <<cloexec, prepares, abandoned>>

\* exit of a runtime in its state rt, with m for the allocator.
Exited(m, rt) == IF rt.phase = "started" THEN Destroy(m, rt.sp) ELSE Result(m, rt.sp, FALSE)

Exit(r) ==
    /\ InKernel /\ runtimes[r].phase = "started"
    /\ \E d \in {Exited(mem, runtimes[r])} :
         /\ mem' = d.mem
         /\ runtimes' = [runtimes EXCEPT ![r].sp = d.sp,
                                         ![r].phase = IF d.ok THEN "exited" ELSE @]
    /\ UNCHANGED <<cloexec, prepares, abandoned>>

-----------------------------------------------------------------------------
(* exec *)

OpenCloexec ==
    /\ InKernel /\ cloexec < MaxCloexec
    /\ cloexec' = cloexec + 1
    /\ UNCHANGED <<mem, runtimes, prepares, abandoned>>

\* The new image cannot be prepared, or the process is gone: the old runtime
\* stays.  A new runtime that was prepared exits.
ReplaceRefused(old, new, first, n, out) ==
    /\ InKernel /\ runtimes[old].phase \in {"ready", "started"} /\ Vacant(new)
    /\ CountPrepare
    /\ \E p \in {Prepared(mem, first, n, IF out = "stack" THEN "stack" ELSE "ok")} :
         /\ ~p.ok \/ out = "process"
         /\ \E undone \in {IF p.ok THEN Destroy(p.mem, p.sp) ELSE p} :
              mem' = undone.mem /\ Abandon(undone.sp)
    /\ UNCHANGED <<runtimes, cloexec>>

\* The new runtime is ready and the descriptors are closed; then the old one
\* exits, and if it cannot the new one does.
Replace(old, new, first, n) ==
    /\ InKernel /\ runtimes[old].phase \in {"ready", "started"} /\ Vacant(new)
    /\ CountPrepare
    /\ cloexec' = 0
    /\ \E p \in {Prepared(mem, first, n, "ok")} : \E o \in {Exited(p.mem, runtimes[old])} :
         /\ p.ok
         /\ \/ /\ o.ok
               /\ mem' = o.mem
               /\ runtimes' = [runtimes EXCEPT
                                 ![old].sp = o.sp, ![old].phase = "exited",
                                 ![new] = [phase |-> "started", sp |-> p.sp, heap |-> first + n]]
               /\ UNCHANGED abandoned
            \/ /\ ~o.ok
               /\ runtimes' = [runtimes EXCEPT ![old].sp = o.sp]
               /\ \E undone \in {Destroy(o.mem, p.sp)} :
                    mem' = undone.mem /\ Abandon(undone.sp)

ExecNext ==
    \/ \E r \in Runtimes : Start(r) \/ LeaveUser(r) \/ Exit(r)
    \/ \E r \in Runtimes, first \in FirstPages, n \in 1 .. MaxImage, out \in PrepareOutcomes :
         Prepare(r, first, n, out)
    \/ \E r \in Runtimes :
         /\ \/ \E path \in Paths, entered \in BOOLEAN : EnterUser(r, path, entered)
            \/ \E path \in PathsOf(runtimes[r].sp) :
                 \/ \E n \in 1 .. MaxHeap : AllocHeap(r, n, path)
                 \/ \E page \in {runtimes[r].sp.guard, LastPage} : StackFault(r, page, path)
         /\ Cardinality(mem'.leaked) <= MaxLeaked
    \/ OpenCloexec
    \/ \E old, new \in Runtimes, first \in FirstPages, n \in 1 .. MaxImage :
         /\ old # new
         /\ \/ Replace(old, new, first, n)
            \/ \E out \in {"stack", "process"} : ReplaceRefused(old, new, first, n, out)

ExecSpec == ExecInit /\ [][ExecNext]_execVars

-----------------------------------------------------------------------------
(* Properties *)

\* Every frame held by a runtime, one entry per use.
HeldBy(r) == Held(runtimes[r].sp)

\* alloc_frame, free_frame, map_page, grow_stack, destroy, replace and their
\* rollbacks: a frame that was handed out has exactly one place.  It is free
\* again, or held once by one address space, or lost in a prepare that could
\* not write to its address space or for want of an entry in a full list of
\* tables; as long as the stack of returned frames never was full.  A runtime that exited holds no frame in any case.
FramesAccounted ==
    /\ ~mem.refused =>
        /\ \A r \in Runtimes :
             /\ IsInjective(HeldBy(r))
             /\ ToSet(HeldBy(r)) \cap (mem.returned \cup abandoned \cup mem.leaked) = {}
             /\ \A q \in Runtimes \ {r} : ToSet(HeldBy(r)) \cap ToSet(HeldBy(q)) = {}
        /\ InUse(mem) = abandoned \cup mem.leaked \cup UNION {ToSet(HeldBy(r)) : r \in Runtimes}
    /\ \A r \in Runtimes : runtimes[r].phase = "exited" => HeldBy(r) = <<>>

\* map_stack, grow_stack, unmap_page: the stack is the unbroken run of pages
\* between its guard and the top, and has at most its maximal size.
StackUnbroken(sp) ==
    sp.root # 0 =>
        /\ {sp.maps[s].page : s \in {s \in MapSlots(sp) : sp.maps[s].kind = "stack"}}
             = StackTop - sp.stack .. StackTop - 1
        /\ sp.stack # 0 => sp.guard = StackTop - sp.stack - 1
        /\ sp.stack <= MaxStackPages

\* The stack is unbroken.  alloc: the pages of a heap request are all mapped or
\* none is, so nothing anonymous lies at or above the end of the heap.
\* activate, map_page, unmap_page: an address space in use has exactly its
\* mapped pages in the hardware, any other has none there.
PagesInPlace ==
    \A r \in Runtimes : LET sp == runtimes[r].sp IN
        /\ StackUnbroken(sp)
        /\ ~mem.refused =>
            /\ \A s \in MapSlots(sp) :
                  sp.maps[s].kind = "anonymous" => sp.maps[s].page < runtimes[r].heap
            /\ sp.active <=> runtimes[r].phase = "user"
            /\ sp.hw = IF sp.active THEN Mapped(sp) ELSE {}

\* docs/exec.md:13, "Any failure before the commit returns the old runtime
\* unchanged": descriptors are closed only together with the old runtime.
ClosedOnlyByCommit ==
    [][cloexec' < cloexec =>
         \E r \in Runtimes : runtimes[r].phase = "started" /\ runtimes'[r].phase = "exited"
      ]_execVars
=============================================================================
