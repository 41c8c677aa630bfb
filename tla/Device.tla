------------------------------- MODULE Device -------------------------------
(***************************************************************************)
(* The driver framework of src/drivers/framework.rs: what each operation   *)
(* does to the Device it is given.  An operation is a function of the      *)
(* device, the driver and the outcome of the driver's callback; where it   *)
(* returns an error and changes nothing it is the identity.                *)
(*                                                                         *)
(* The field host stands for the controller behind the device, the RUNTIME *)
(* and STATUS of src/drivers/usb/xhci.rs: there is none, it runs, or it    *)
(* was told to halt.  Only driver callbacks change it.                     *)
(***************************************************************************)
EXTENDS Naturals

CONSTANTS
    Drivers, NoDriver,
    Unmatched,          \* drivers of another class or bus
    NoOps,              \* drivers registered without callbacks
    MaxResources,       \* resources a device can list (MAX_RESOURCES)
    ProbeResources      \* resources a probe callback adds (MMIO and DMA: 2)

ASSUME DeviceAssumption ==
    /\ NoDriver \notin Drivers
    /\ MaxResources \in Nat
    /\ ProbeResources \in 1 .. MaxResources

NewDevice ==
    [state |-> "Discovered", resources |-> 0, driver |-> NoDriver,
     published |-> FALSE, host |-> "none"]

Transitions ==
    ({"Discovered", "Failed", "Removed", "Deferred", "Unsupported", "Busy"}
        \X {"Probing"})
    \cup ({"Probing"} \X {"Ready", "Deferred", "Unsupported", "Busy", "Failed"})
    \cup ({"Ready"} \X {"Suspended", "Quiescing"})
    \cup ({"Suspended"} \X {"Ready", "Quiescing"})
    \cup ({"Quiescing"} \X {"Removed", "Failed"})
    \cup {<<"Failed", "Removed">>}

CanGo(dev, next) == <<dev.state, next>> \in Transitions

\* transition: to the next state if the table allows it.
Go(dev, next) == IF CanGo(dev, next) THEN [dev EXCEPT !.state = next] ELSE dev

\* release_resources is refused in the states that use the resources.
Release(dev) ==
    IF dev.state \in {"Failed", "Deferred", "Unsupported", "Busy", "Removed"}
    THEN [dev EXCEPT !.resources = 0] ELSE dev

AddResource(dev) ==
    IF dev.resources < MaxResources
    THEN [dev EXCEPT !.resources = @ + 1] ELSE dev

Publish(dev) ==
    IF dev.state = "Ready" THEN [dev EXCEPT !.published = TRUE] ELSE dev

-----------------------------------------------------------------------------
(* probe *)

\* How a probe callback ends: "ok", or with an error that decides the state.
ProbeOutcomes == {"ok", "absent", "deferred", "busy", "error"}

StateAfterProbe(out) ==
    CASE out = "absent" -> "Unsupported"
      [] out = "deferred" -> "Deferred"
      [] out = "busy" -> "Busy"
      [] OTHER -> "Failed"

\* The xHCI callback: a controller that is still there is taken as it is,
\* otherwise it is initialised, and both resources are added.
Probed(dev) ==
    [dev EXCEPT !.host = IF @ = "none" THEN "running" ELSE @,
                !.resources = @ + ProbeResources]

Probe(dev, driver, out) ==
    LET probing == Go(dev, "Probing")
        fits == probing.resources + ProbeResources <= MaxResources IN
    IF driver \in Unmatched \/ ~CanGo(dev, "Probing") THEN dev
    ELSE IF driver \in NoOps THEN Release(Go(probing, "Unsupported"))
    ELSE IF out # "ok" THEN Release(Go(probing, StateAfterProbe(out)))
    ELSE IF ~fits \/ dev.driver # NoDriver THEN
        Release([Go(probing, "Failed") EXCEPT !.host = Probed(dev).host])
    ELSE Go([Probed(probing) EXCEPT !.driver = driver], "Ready")

-----------------------------------------------------------------------------
(* suspend, resume, quiesce, remove, revoke, hot_unplug, rebind *)

Suspend(dev, driver, ok) ==
    IF dev.driver = driver /\ dev.state = "Ready" /\ ok
    THEN Go(dev, "Suspended") ELSE dev

Resume(dev, driver, ok) ==
    IF dev.driver = driver /\ dev.state = "Suspended" /\ ok
    THEN Go(dev, "Ready") ELSE dev

\* How stop_host ends: the controller halts, the register access fails and it
\* goes on, or it was told to halt and the wait for it timed out.
StopOutcomes == {"ok", "refused", "timeout"}

HostAfterStop(host, out) == IF host = "running" /\ out # "refused" THEN "halted" ELSE host

Quiesce(dev, driver, out) ==
    LET stopped == [dev EXCEPT !.host = HostAfterStop(@, out)] IN
    IF dev.driver # driver \/ dev.state \notin {"Ready", "Suspended"} THEN dev
    ELSE IF out # "ok" \/ dev.host = "none" THEN stopped
    ELSE Go(stopped, "Quiescing")

\* Mutation of Detach: the state changes only after the release, which is then refused.
DetachLate(dev) ==
    Go(Release([dev EXCEPT !.published = FALSE, !.driver = NoDriver]), "Removed")

\* What remove and revoke end with: unpublished, unbound, nothing left.
Detach(dev) ==
    Release(Go([dev EXCEPT !.published = FALSE, !.driver = NoDriver], "Removed"))

RemoveDevice(dev, driver, out) ==
    IF dev.driver # driver \/ dev.state # "Quiescing" THEN dev
    ELSE IF out # "ok" \/ dev.host = "none"
    THEN [Go(dev, "Failed") EXCEPT !.host = HostAfterStop(@, out)]
    ELSE [Detach(dev) EXCEPT !.host = "none"]

Revoke(dev, driver) ==
    IF dev.driver = driver /\ dev.state \in {"Quiescing", "Failed"}
    THEN Detach(dev) ELSE dev

\* hot_unplug and rebind take each step only if the one before it succeeded.
HotUnplug(dev, driver, out1, out2) ==
    LET quiesced == Quiesce(dev, driver, out1) IN
    IF dev.state # "Quiescing" THEN RemoveDevice(quiesced, driver, out2) ELSE dev

Rebind(dev, old, new, out1, out2, out3) ==
    LET removed == HotUnplug(dev, old, out1, out2) IN
    IF dev.driver = old /\ removed.state = "Removed"
    THEN Probe(removed, new, out3) ELSE removed
=============================================================================
