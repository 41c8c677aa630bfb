--------------------------- MODULE ProcessRuntime ---------------------------
(***************************************************************************)
(* The process runtime over the process table: the logical current process *)
(* and thread, the system calls that change them, and the kernel code that *)
(* launches a user image, enters it synchronously, and collects it         *)
(* (process.rs Runtime, syscall.rs dispatch, service.rs run_user_fixture   *)
(* and risky_driver_handoff).                                              *)
(*                                                                         *)
(* There is one flow of control, so pc says what really executes: the      *)
(* kernel on behalf of init, or the launched user image.  The runtime's    *)
(* own idea of that is currentThread; whether the two agree is what the    *)
(* properties are about.                                                   *)
(***************************************************************************)
EXTENDS ProcessTable

CONSTANTS
    MaxLaunches     \* bound: user images the kernel launches

\* The bound keeps every slot below its last generation.
ASSUME RuntimeAssumption ==
    MaxLaunches \in 1 .. MaxGen

VARIABLES
    currentProcess, \* Runtime.current_process
    currentThread,  \* Runtime.current_thread
    initThread,     \* Runtime.init_thread
    pc,             \* what executes, and how far the launch has come
    image,          \* identities of the launched user image
    launches,       \* images launched so far
    slept           \* history: some image has called sleep

current == <<currentProcess, currentThread>>
launchVars == <<initThread, image, launches>>
runtimeVars == <<tableVars, current, pc, launchVars, slept>>

\* Runtime::set_current.
SetCurrent(t) ==
    /\ currentThread' = t
    /\ currentProcess' = threads[t.slot].process

ClearCurrent == currentThread' = NoTid /\ currentProcess' = NoPid

-----------------------------------------------------------------------------
(* Boot and launch *)

\* init_runtime: create_init, then switch_to(None, its thread).  The calls
\* that syscall::runtime_contract_self_check makes right after find no other
\* thread and change nothing.
RuntimeInit ==
    LET t == [slot |-> 0, gen |-> 0] IN
    /\ processes = [s \in {0} |-> NewProcess(INIT, NoPid, t)]
    /\ threads = [s \in {0} |-> [NewThread(t, INIT) EXCEPT !.state = "Running"]]
    /\ processGen = [s \in PSlots |-> 0]
    /\ threadGen = [s \in TSlots |-> 0]
    /\ retiredP = {} /\ retiredT = {}
    /\ currentProcess = INIT /\ currentThread = t /\ initThread = t
    /\ pc = "kernel"
    /\ image = [process |-> NoPid, thread |-> NoTid]
    /\ launches = 0 /\ slept = FALSE

\* spawn_child_current.  The process stays in the table, Ready, both when the
\* image is then entered and when parsing or preparing it fails and the
\* function returns early.
Launch ==
    /\ pc = "kernel"
    /\ launches < MaxLaunches
    /\ SpawnChild(currentProcess)
    /\ LET p == processes'[FirstFree(PSlots, DOMAIN processes)] IN
       image' = [process |-> p.id, thread |-> p.thread]
    /\ launches' = launches + 1
    /\ pc' \in {"spawned", "kernel"}
    /\ UNCHANGED <<current, initThread, slept>>

\* switch_to_user and enter_user.  When entry is unavailable, the runtime is
\* left with the image as current: the fixture panics, the driver handoff
\* returns false and nothing is launched after it.
EnterUser ==
    /\ pc = "spawned"
    /\ threads[image.thread.slot].process = image.process
    /\ SwitchTo(currentThread, image.thread)
    /\ SetCurrent(image.thread)
    /\ pc' \in {"user", "aborted"}
    /\ UNCHANGED <<launchVars, slept>>

\* restore_init().unwrap() after the image has returned to the kernel.
RestoreInit ==
    /\ pc = "exited"
    /\ \/ /\ currentThread = NoTid
          /\ SwitchTo(NoTid, initThread)
          /\ currentThread' = initThread /\ currentProcess' = INIT
          /\ pc' = "restored"
       \/ /\ currentThread # NoTid \/ ~ThreadIn(initThread, {"Ready"})
          /\ pc' = "panic"
          /\ UNCHANGED <<tableVars, current>>
    /\ UNCHANGED <<launchVars, slept>>

\* wait_current(Some(image)).unwrap().
Collect ==
    /\ pc = "restored"
    /\ \/ WaitChild(currentProcess, image.process) /\ pc' = "kernel"
       \/ /\ ~(IsProcess(image.process)
               /\ image.process.slot \in ZombieChildren(currentProcess))
          /\ pc' = "panic"
          /\ UNCHANGED tableVars
    /\ UNCHANGED <<current, launchVars, slept>>

\* The driver handoff ends a service process that it never entered, as an injected
\* crash, and waits as init for a process that has exited.
KernelExit ==
    /\ pc = "kernel"
    /\ \E p \in ProcessId : Exit(p)
    /\ UNCHANGED <<current, pc, launchVars, slept>>

KernelReap ==
    /\ pc = "kernel"
    /\ \E p \in ProcessId : WaitChild(INIT, p)
    /\ UNCHANGED <<current, pc, launchVars, slept>>

-----------------------------------------------------------------------------
(* System calls of the user image *)

\* Mutation of ExitCurrent: the runtime keeps the exited pair as current.
ExitCurrentKeeps ==
    /\ \/ currentProcess = INIT /\ SetThread(currentThread, "Exited")
       \/ Exit(currentProcess)
    /\ UNCHANGED current

\* exit_current; the system call then leaves user mode for good.
ExitCurrent ==
    /\ \/ currentProcess = INIT /\ SetThread(currentThread, "Exited")
       \/ Exit(currentProcess)
    /\ ClearCurrent

UserExit ==
    /\ ExitCurrent
    /\ pc' = "exited"
    /\ UNCHANGED slept

\* wait_current with no child named, or with one.
UserWait ==
    /\ \/ WaitAny(currentProcess)
       \/ \E child \in ProcessId : WaitChild(currentProcess, child)
    /\ UNCHANGED <<current, pc, slept>>

UserClose ==
    /\ \E f \in FdSlots : CloseFd(currentProcess, f)
    /\ UNCHANGED <<current, pc, slept>>

\* yield_current: to the Ready thread in the lowest slot, but never from a
\* user process to init.
YieldCurrent ==
    /\ ReadySlots # {}
    /\ ~(currentProcess # INIT /\ PickReady = initThread)
    /\ SwitchTo(currentThread, PickReady)
    /\ SetCurrent(PickReady)

UserYield ==
    /\ YieldCurrent
    /\ UNCHANGED <<pc, slept>>

\* Mutation of SleepCurrent: the sleeping thread is not taken off the processor.
SleepStaysRunning ==
    /\ ReadySlots # {}
    /\ threads' = [threads EXCEPT ![PickReady.slot].state = "Running"]
    /\ SetCurrent(PickReady)
    /\ UNCHANGED <<processes, idVars>>

\* sleep_current: block, then run the Ready thread in the lowest slot.  With
\* nobody Ready the thread is woken and runs on: no change.
SleepCurrent ==
    /\ ReadySlots # {}
    /\ ThreadIn(currentThread, {"Ready", "Running"})
    /\ threads' = [threads EXCEPT ![currentThread.slot].state = "Sleeping",
                                  ![PickReady.slot].state = "Running"]
    /\ SetCurrent(PickReady)
    /\ UNCHANGED <<processes, idVars>>

UserSleep ==
    /\ SleepCurrent
    /\ slept' = TRUE
    /\ UNCHANGED pc

\* dispatch: every call acts on the runtime's current pair, whoever makes it.
Syscall ==
    /\ pc = "user"
    /\ UserExit \/ UserWait \/ UserClose \/ UserYield \/ UserSleep
    /\ UNCHANGED launchVars

-----------------------------------------------------------------------------
RuntimeNext ==
    \/ Launch
    \/ EnterUser
    \/ Syscall
    \/ RestoreInit
    \/ Collect
    \/ KernelExit
    \/ KernelReap

RuntimeSpec == RuntimeInit /\ [][RuntimeNext]_runtimeVars

-----------------------------------------------------------------------------
(* Properties *)

\* At most one thread is Running, and it is the runtime's current thread, with
\* its owner as the current process; with no current thread none is Running
\* (the switches of switch_to_user, yield_current, sleep_current, exit_current
\* and restore_init all keep the table and the runtime in step).
OneRunning ==
    /\ {s \in DOMAIN threads : threads[s].state = "Running"} =
          IF currentThread = NoTid THEN {} ELSE {currentThread.slot}
    /\ currentThread # NoTid =>
          IsThread(currentThread) /\ threads[currentThread.slot].process = currentProcess

\* While a user image executes, the runtime's current thread is that image's
\* thread: "Keep the logical current process aligned with the context that
\* will return from the syscall" (yield_current, process.rs).
AlignedWithContext == pc = "user" => currentThread = image.thread

\* As long as no image has slept: the runtime stays aligned with what executes,
\* around abandoned launches and processes that the supervisor ends; an image
\* that exits is restored from and collected, so the unwraps of
\* run_user_fixture never fail; switch_to_user is never refused; and "a process
\* is `Running` while it owns at least one non-exited user thread"
\* (docs/process-model.md): an image cannot end the thread of init, or of
\* another process, in place of its own.
ImageReturns ==
    ~slept =>
    /\ AlignedWithContext
    /\ pc # "panic"
    /\ pc = "spawned" => /\ ThreadIn(currentThread, {"Running"})
                         /\ ThreadIn(image.thread, {"Ready"})
    /\ \A s \in DOMAIN processes :
          processes[s].state = "Running" =>
              threads[processes[s].thread.slot].state # "Exited"

=============================================================================
