---------------------------- MODULE DriverService ----------------------------
(***************************************************************************)
(* The service supervisor of src/service.rs over the driver framework      *)
(* (Device.tla) and the processes the services run in.                     *)
(*                                                                         *)
(* The supervisor is called with a device and a driver; a device that has  *)
(* a service is reached through the supervisor only, as in                 *)
(* risky_driver_handoff, and one without a service through the framework.  *)
(* A process may exit, or be reaped by its parent, between any two calls.  *)
(* Process identities are never reused (ProcessTable, NoStaleIdentity), so *)
(* a process is Unborn, Running, Zombie and Reaped, in that order.  A call *)
(* that fails without an effect is a stuttering step.                      *)
(***************************************************************************)
EXTENDS Device, FiniteSets

CONSTANTS
    Devices, Processes,
    MaxServices,        \* service slots (MAX_SERVICES, 8)
    MaxServiceGen,      \* largest generation of a slot (u16::MAX)
    MaxRestarts         \* restart budget of a registration (MAX_RESTARTS, 3)

ASSUME ServiceAssumption ==
    /\ MaxServices \in Nat \ {0}
    /\ MaxServiceGen \in Nat
    /\ MaxRestarts \in Nat

VARIABLES
    devices,        \* device -> device record
    processes,      \* process -> state
    records,        \* occupied service slot -> service record
    generations,    \* service slot -> generation of its handles
    retired,        \* history: handles of services that were unregistered
    strained        \* history: devices whose controller once failed to halt
                    \*   or was given up by a revoke

serviceVars == <<devices, processes, records, generations, retired, strained>>

ServiceSlots == 0 .. MaxServices - 1
Handles == [slot : ServiceSlots, generation : 0 .. MaxServiceGen]

ServiceInit ==
    /\ devices = [d \in Devices |-> NewDevice]
    /\ processes = [p \in Processes |-> "Unborn"]
    /\ records = [s \in {} |-> {}]
    /\ generations = [s \in ServiceSlots |-> 0]
    /\ retired = {}
    /\ strained = {}

\* record: the handle is of the slot's generation and the slot is occupied.
Resolves(h) == h.slot \in DOMAIN records /\ generations[h.slot] = h.generation

Registered(d) == \E s \in DOMAIN records : records[s].device = d

PutRecord(s, r) ==
    records' = [x \in DOMAIN records \cup {s} |-> IF x = s THEN r ELSE records[x]]

SetDevice(d, dev) == devices' = [devices EXCEPT ![d] = dev]

\* A controller that fails to halt, or is never removed, is remembered.
Strain(d, outs) == strained' = IF outs \subseteq {"ok"} THEN strained ELSE strained \cup {d}

ValidProcess(p) == processes[p] = "Running"

ValidDeviceId(s, d, dr) == records[s].device = d /\ records[s].driver = dr

ValidDevice(s, d, dr) == ValidDeviceId(s, d, dr) /\ devices[d].driver = dr

-----------------------------------------------------------------------------
(* The framework, on a device that has no service *)

OnDevice(d, dev, outs) ==
    /\ ~Registered(d)
    /\ dev # devices[d]
    /\ SetDevice(d, dev)
    /\ Strain(d, outs)
    /\ UNCHANGED <<processes, records, generations, retired>>

\* Resources known before the probe are added right after discovery.
AddResourceCall(d) ==
    devices[d].state = "Discovered" /\ OnDevice(d, AddResource(devices[d]), {})
ProbeCall(d, dr, out) == OnDevice(d, Probe(devices[d], dr, out), {})
PublishCall(d) == OnDevice(d, Publish(devices[d]), {})
SuspendCall(d, dr, ok) == OnDevice(d, Suspend(devices[d], dr, ok), {})
ResumeCall(d, dr, ok) == OnDevice(d, Resume(devices[d], dr, ok), {})
QuiesceCall(d, dr, out) == OnDevice(d, Quiesce(devices[d], dr, out), {out})
RemoveCall(d, dr, out) == OnDevice(d, RemoveDevice(devices[d], dr, out), {out})
RevokeCall(d, dr) == OnDevice(d, Revoke(devices[d], dr), {"revoked"})
HotUnplugCall(d, dr, out1, out2) ==
    OnDevice(d, HotUnplug(devices[d], dr, out1, out2), {out1, out2})
RebindCall(d, old, new, out1, out2, out3) ==
    OnDevice(d, Rebind(devices[d], old, new, out1, out2, out3), {out1, out2})

-----------------------------------------------------------------------------
(* Processes *)

Spawn(p) ==
    /\ processes[p] = "Unborn"
    /\ processes' = [processes EXCEPT ![p] = "Running"]
    /\ UNCHANGED <<devices, records, generations, retired, strained>>

\* The service process returns, or crashes.
ExitProcess(p) ==
    /\ processes[p] = "Running"
    /\ processes' = [processes EXCEPT ![p] = "Zombie"]
    /\ UNCHANGED <<devices, records, generations, retired, strained>>

Reap(p) ==
    /\ processes[p] = "Zombie"
    /\ processes' = [processes EXCEPT ![p] = "Reaped"]
    /\ UNCHANGED <<devices, records, generations, retired, strained>>

-----------------------------------------------------------------------------
(* The supervisor *)

FirstFree == CHOOSE s \in ServiceSlots \ DOMAIN records :
                \A t \in ServiceSlots \ DOMAIN records : s <= t

Register(d, dr, p) ==
    /\ devices[d].state = "Ready" /\ devices[d].published
    /\ devices[d].driver = dr
    /\ ValidProcess(p)
    /\ ~Registered(d)
    /\ DOMAIN records # ServiceSlots
    /\ PutRecord(FirstFree, [device |-> d, driver |-> dr, process |-> p,
                       state |-> "Registered", active |-> FALSE, restarts |-> 0])
    /\ UNCHANGED <<devices, processes, generations, retired, strained>>

StartService(h, d, dr) ==
    LET s == h.slot IN
    /\ Resolves(h)
    /\ ValidDevice(s, d, dr)
    /\ records[s].state = "Registered"
    /\ ValidProcess(records[s].process)
    /\ PutRecord(s, [records[s] EXCEPT !.state = "Running", !.active = TRUE])
    /\ UNCHANGED <<devices, processes, generations, retired, strained>>

\* quiesce: Quiescing, or Failed when the framework refuses; either way the
\* endpoint is gone.
QuiesceService(h, d, dr, out) ==
    LET s == h.slot
        dev == Quiesce(devices[d], dr, out) IN
    /\ Resolves(h)
    /\ ValidDevice(s, d, dr)
    /\ records[s].state = "Running"
    /\ SetDevice(d, dev)
    /\ PutRecord(s, [records[s] EXCEPT
                 !.state = IF dev.state = "Quiescing" THEN "Quiescing" ELSE "Failed",
                 !.active = FALSE])
    /\ Strain(d, {out})
    /\ UNCHANGED <<processes, generations, retired>>

\* The device after stop: removed, or failing that revoked.
Stopped(dev, dr, out) ==
    LET removed == RemoveDevice(dev, dr, out) IN
    IF removed.state = "Removed" THEN removed ELSE Revoke(removed, dr)

\* Mutation: the error of a removal that was made good by revoke is dropped.
StateAfterRevoke(dev, dr, out) ==
    IF Stopped(dev, dr, out).state = "Removed" THEN "Stopped" ELSE "Failed"

\* The state of a service after stop; any failure on the way makes it Failed.
StateAfterStop(dev, dr, out) ==
    IF RemoveDevice(dev, dr, out).state = "Removed" THEN "Stopped" ELSE "Failed"

ExitIfRunning(p) ==
    processes' = [processes EXCEPT ![p] = IF @ = "Running" THEN "Zombie" ELSE @]

Stop(h, d, dr, out) ==
    LET s == h.slot IN
    /\ Resolves(h)
    /\ ValidDevice(s, d, dr)
    /\ records[s].state = "Quiescing"
    /\ SetDevice(d, Stopped(devices[d], dr, out))
    /\ ExitIfRunning(records[s].process)
    /\ PutRecord(s, [records[s] EXCEPT
                 !.state = StateAfterStop(devices[d], dr, out), !.active = FALSE])
    /\ Strain(d, {out})
    /\ UNCHANGED <<generations, retired>>

\* The device is probed and published again; a device that cannot be leaves
\* the service as it was.
Restart(h, d, dr, p, out) ==
    LET s == h.slot
        dev == Publish(Probe(devices[d], dr, out)) IN
    /\ Resolves(h)
    /\ ValidDeviceId(s, d, dr)
    /\ records[s].state \in {"Stopped", "Failed"}
    /\ records[s].restarts < MaxRestarts
    /\ ValidProcess(p)
    /\ CanGo(devices[d], "Probing")
    /\ SetDevice(d, dev)
    /\ IF dev.state = "Ready"
       THEN PutRecord(s, [records[s] EXCEPT !.process = p, !.state = "Registered",
                                      !.active = FALSE, !.restarts = @ + 1])
       ELSE UNCHANGED records
    /\ UNCHANGED <<processes, generations, retired, strained>>

\* recover_crash: quiesce, then stop; Failed however far it gets.  The exit
\* of a process that was already reaped is an error and changes nothing.
RecoverCrash(h, d, dr, out1, out2) ==
    LET s == h.slot
        quiesced == Quiesce(devices[d], dr, out1)
        done == quiesced.state = "Quiescing" IN
    /\ Resolves(h)
    /\ ValidDevice(s, d, dr)
    /\ records[s].state = "Running"
    /\ processes[records[s].process] = "Zombie"
    /\ SetDevice(d, IF done THEN Stopped(quiesced, dr, out2) ELSE quiesced)
    /\ PutRecord(s, [records[s] EXCEPT !.state = "Failed", !.active = FALSE])
    /\ Strain(d, IF done THEN {out1, out2} ELSE {out1})
    /\ UNCHANGED <<processes, generations, retired>>

\* Mutation of Unregister: the generation stays.
UnregisterNoBump(h) ==
    LET s == h.slot IN
    /\ Resolves(h)
    /\ records[s].state \notin {"Running", "Quiescing"}
    /\ records' = [x \in DOMAIN records \ {s} |-> records[x]]
    /\ retired' = retired \cup {h}
    /\ UNCHANGED <<devices, processes, generations, strained>>

\* The slot is emptied before the generation is found to be exhausted.
Unregister(h) ==
    LET s == h.slot IN
    /\ Resolves(h)
    /\ records[s].state \notin {"Running", "Quiescing"}
    /\ records' = [x \in DOMAIN records \ {s} |-> records[x]]
    /\ generations' = [generations EXCEPT ![s] = IF @ < MaxServiceGen THEN @ + 1 ELSE @]
    /\ retired' = retired \cup {h}
    /\ UNCHANGED <<devices, processes, strained>>

ServiceNext ==
    \/ \E d \in Devices : AddResourceCall(d) \/ PublishCall(d)
    \/ \E d \in Devices, dr \in Drivers :
         \/ RevokeCall(d, dr)
         \/ \E out \in ProbeOutcomes : ProbeCall(d, dr, out)
         \/ \E ok \in BOOLEAN : SuspendCall(d, dr, ok) \/ ResumeCall(d, dr, ok)
         \/ \E out \in StopOutcomes : QuiesceCall(d, dr, out) \/ RemoveCall(d, dr, out)
         \/ \E out1, out2 \in StopOutcomes :
              /\ devices[d].driver = dr
              /\ \/ HotUnplugCall(d, dr, out1, out2)
                 \/ \E new \in Drivers, out3 \in ProbeOutcomes :
                      RebindCall(d, dr, new, out1, out2, out3)
    \/ \E p \in Processes : Spawn(p) \/ ExitProcess(p) \/ Reap(p)
    \/ \E d \in Devices, dr \in Drivers, p \in Processes : Register(d, dr, p)
    \/ \E h \in Handles : Unregister(h)
    \/ \E h \in Handles, d \in Devices, dr \in Drivers :
         \/ StartService(h, d, dr)
         \/ \E out \in StopOutcomes : QuiesceService(h, d, dr, out) \/ Stop(h, d, dr, out)
         \/ \E out \in ProbeOutcomes, p \in Processes : Restart(h, d, dr, p, out)
         \/ \E out1, out2 \in StopOutcomes : RecoverCrash(h, d, dr, out1, out2)

ServiceSpec == ServiceInit /\ [][ServiceNext]_serviceVars

-----------------------------------------------------------------------------
(* Properties *)

\* register, start, quiesce, stop: an active endpoint is that of a running
\* service, the only one of its device, and the device is ready, published
\* and bound to the driver of the service.  probe, remove, revoke: a device that
\* no driver owns, however its probe or its teardown ended, is not published
\* and lists no resource but those added before its first probe.
EndpointBacked ==
    /\ \A s \in DOMAIN records : LET r == records[s] IN
        /\ r.active <=> r.state = "Running"
        /\ r.active =>
            /\ devices[r.device].state = "Ready"
            /\ devices[r.device].published
            /\ devices[r.device].driver = r.driver
            /\ \A t \in DOMAIN records \ {s} : records[t].device # r.device
    /\ \A d \in Devices : devices[d].driver = NoDriver =>
        /\ ~devices[d].published
        /\ devices[d].state # "Discovered" => devices[d].resources = 0

\* stop: a service that stopped cleanly has left nothing behind, neither a
\* lease nor a controller nor a process, even when a restart of it failed.
\* start, restart: the controller of a running service runs, provided that no
\* earlier teardown failed to halt it or gave it up (a controller that halted
\* and was not removed is taken over by the next probe as it is).
StoppedLeavesNothing ==
    \A s \in DOMAIN records : LET r == records[s] IN
        /\ r.state = "Stopped" =>
            /\ devices[r.device].driver = NoDriver
            /\ devices[r.device].resources = 0
            /\ devices[r.device].host = "none"
            /\ processes[r.process] \in {"Zombie", "Reaped"}
        /\ r.state = "Running" /\ r.device \notin strained =>
            devices[r.device].host = "running"

\* unregister: the handle of an unregistered service never resolves again, up
\* to the last generation of its slot, which unregister does not retire.
StaleHandlesRejected ==
    \A h \in retired : h.generation < MaxServiceGen => ~Resolves(h)

\* docs/service-boundary.md:26, "A service cannot retain a resource after
\* `quiesce`": once a service is stopped or has failed its device lists none.
QuiescedHoldsNothing ==
    \A s \in DOMAIN records :
        records[s].state \in {"Stopped", "Failed"} => devices[records[s].device].resources = 0
=============================================================================
