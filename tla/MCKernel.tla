------------------------------ MODULE MCKernel ------------------------------
(***************************************************************************)
(* Four parts of the kernel that share no state, on small instances: the    *)
(* IPC queues, the driver services, program images and the warm-reboot log. *)
(* A behaviour is one of its subject; the other parts stay as they are at    *)
(* the start, which is then fixed.                                           *)
(***************************************************************************)
EXTENDS IpcQueue, DriverService, ExecRuntime, WarmLog

VARIABLE subject

kernelVars == <<subject, ipcVars, serviceVars, execVars, warmVars>>

Init ==
    /\ subject \in {"ipc", "service", "exec", "warm"}
    /\ IpcInit /\ ServiceInit /\ ExecInit /\ WarmInit
    /\ subject # "ipc" => kind = "channel"
    /\ subject # "warm" => hasEfi /\ hasCmos

Next ==
    \/ /\ subject = "ipc" /\ IpcNext
       /\ UNCHANGED <<subject, serviceVars, execVars, warmVars>>
    \/ /\ subject = "service" /\ ServiceNext
       /\ UNCHANGED <<subject, ipcVars, execVars, warmVars>>
    \/ /\ subject = "exec" /\ ExecNext
       /\ UNCHANGED <<subject, ipcVars, serviceVars, warmVars>>
    \/ /\ subject = "warm" /\ WarmNext
       /\ UNCHANGED <<subject, ipcVars, serviceVars, execVars>>

Spec == Init /\ [][Next]_kernelVars

=============================================================================
