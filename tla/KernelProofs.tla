---------------------------- MODULE KernelProofs ----------------------------
(***************************************************************************)
(* Proofs about the service supervisor (DriverService.tla) and the driver  *)
(* framework below it (Device.tla), for every set of devices, drivers and  *)
(* processes and every size of the service table.  The argument has two    *)
(* layers.  DeviceOK and CleanHost are facts about one device that every   *)
(* framework operation keeps; they are proved operation by operation.      *)
(* ServiceInv relates the service records to the devices and processes     *)
(* they name.                                                              *)
(*                                                                         *)
(* Then about the IPC queues (IpcQueue.tla), for every capacity, every     *)
(* number of wait slots and every set of threads: the circular buffer with *)
(* its head, tail and length is a bounded FIFO, and no wakeup is lost.     *)
(***************************************************************************)
EXTENDS IpcQueue, DriverService, Sequences, FiniteSetTheorems, WellFoundedInduction, TLAPS

(* Driver services *)

DeviceStates ==
    {"Discovered", "Ready", "Suspended", "Quiescing", "Removed", "Failed",
     "Deferred", "Unsupported", "Busy"}

DeviceRecords ==
    [state : DeviceStates, resources : 0 .. MaxResources,
     driver : Drivers \cup {NoDriver}, published : BOOLEAN,
     host : {"none", "running", "halted"}]

\* Between two calls no device is Probing; the states that use resources have
\* a driver; a device without one is unpublished and, once probed, empty.
DeviceOK(dev) ==
    /\ dev \in DeviceRecords
    /\ dev.state \in {"Ready", "Suspended", "Quiescing"} => dev.driver # NoDriver
    /\ dev.state = "Discovered" => dev.driver = NoDriver
    /\ dev.driver = NoDriver =>
        /\ ~dev.published
        /\ dev.state # "Discovered" => dev.resources = 0

\* As long as every teardown halts the controller and removes it.
CleanHost(dev) ==
    /\ dev.state \in {"Ready", "Suspended"} => dev.host = "running"
    /\ dev.state = "Quiescing" => dev.host = "halted"
    /\ dev.host = "halted" => dev.state = "Quiescing"

RecordStates == {"Registered", "Running", "Quiescing", "Stopped", "Failed"}

ServiceRecords ==
    [device : Devices, driver : Drivers, process : Processes,
     state : RecordStates, active : BOOLEAN, restarts : 0 .. MaxRestarts]

TypeOK ==
    /\ devices \in [Devices -> DeviceRecords]
    /\ processes \in [Processes -> {"Unborn", "Running", "Zombie", "Reaped"}]
    /\ DOMAIN records \subseteq ServiceSlots
    /\ records \in [DOMAIN records -> ServiceRecords]
    /\ generations \in [ServiceSlots -> 0 .. MaxServiceGen]
    /\ retired \subseteq Handles
    /\ strained \subseteq Devices

DevicesOK ==
    \A d \in Devices :
        /\ DeviceOK(devices[d])
        /\ d \notin strained => CleanHost(devices[d])

OneServicePerDevice ==
    \A s, t \in DOMAIN records : records[s].device = records[t].device => s = t

\* What the state of a service says of its device dev and its process,
\* whose state is proc.
RecordOK(r, dev, proc) ==
    /\ proc # "Unborn"
    /\ r.active <=> r.state = "Running"
    /\ r.state \in {"Registered", "Running"} =>
        dev.state = "Ready" /\ dev.published /\ dev.driver = r.driver
    /\ r.state = "Quiescing" => dev.state = "Quiescing" /\ dev.driver = r.driver
    /\ r.state = "Stopped" =>
        /\ dev.driver = NoDriver /\ dev.resources = 0 /\ dev.host = "none"
        /\ proc \in {"Zombie", "Reaped"}

RecordsOK ==
    \A s \in DOMAIN records :
        RecordOK(records[s], devices[records[s].device], processes[records[s].process])

RetiredOK ==
    \A h \in retired : h.generation < MaxServiceGen => h.generation < generations[h.slot]

\* The inductive invariant.
ServiceInv ==
    TypeOK /\ DevicesOK /\ OneServicePerDevice /\ RecordsOK /\ RetiredOK

-----------------------------------------------------------------------------
(* The transition table *)

\* transition: which states each step of the framework leads from.
LEMMA TransitionTable ==
    ASSUME NEW dev
    PROVE  /\ CanGo(dev, "Probing") <=> dev.state \in
                {"Discovered", "Failed", "Removed", "Deferred", "Unsupported", "Busy"}
           /\ CanGo(dev, "Ready") <=> dev.state \in {"Probing", "Suspended"}
           /\ CanGo(dev, "Suspended") <=> dev.state = "Ready"
           /\ CanGo(dev, "Quiescing") <=> dev.state \in {"Ready", "Suspended"}
           /\ CanGo(dev, "Removed") <=> dev.state \in {"Quiescing", "Failed"}
           /\ CanGo(dev, "Failed") <=> dev.state \in {"Probing", "Quiescing"}
           /\ CanGo(dev, "Deferred") <=> dev.state = "Probing"
           /\ CanGo(dev, "Unsupported") <=> dev.state = "Probing"
           /\ CanGo(dev, "Busy") <=> dev.state = "Probing"
  BY Zenon DEF CanGo, Transitions

-----------------------------------------------------------------------------
(* What each framework operation keeps of one device *)

\* A released device lists no resource, which is within the limit.
LEMMA NoneListed == 0 \in 0 .. MaxResources
  BY DeviceAssumption

\* probe keeps the device in order however its callback ends.  A controller
\* that was clean stays clean.  A device that ends Ready is bound to the driver,
\* and one that had nothing and does not end Ready still has nothing.
LEMMA ProbeKeeps ==
    ASSUME NEW dev, DeviceOK(dev), NEW dr \in Drivers, NEW out \in ProbeOutcomes,
           NEW new, new = Probe(dev, dr, out)
    PROVE  /\ DeviceOK(new)
           /\ CleanHost(dev) => CleanHost(new)
           /\ new.state = "Ready" /\ dev.state # "Ready" => new.driver = dr
           /\ /\ dev.driver = NoDriver /\ dev.resources = 0 /\ dev.host = "none"
              /\ new.state # "Ready"
              => new.driver = NoDriver /\ new.resources = 0 /\ new.host = "none"
  <1> DEFINE probing == [dev EXCEPT !.state = "Probing"]
  <1>1. CASE dr \in Unmatched \/ ~CanGo(dev, "Probing")
    BY Zenon, <1>1 DEF Probe
  <1>2. CASE dr \notin Unmatched /\ CanGo(dev, "Probing")
    <2>1. /\ dev.state \in {"Discovered", "Failed", "Removed", "Deferred",
                            "Unsupported", "Busy"}
          /\ dev \in DeviceRecords
          /\ Go(dev, "Probing") = probing
      BY Zenon, <1>2, TransitionTable DEF Go, DeviceOK
    <2>2. /\ probing.state = "Probing"
          /\ probing.resources = dev.resources
          /\ \A st \in {"Ready", "Failed", "Deferred", "Unsupported", "Busy"} :
                 Go(probing, st) = [dev EXCEPT !.state = st]
      <3>1. probing.state = "Probing" /\ probing.resources = dev.resources
        BY Zenon, <2>1 DEF DeviceRecords
      <3>2. \A st \in {"Ready", "Failed", "Deferred", "Unsupported", "Busy"} :
                CanGo(probing, st)
        BY Zenon, <3>1, TransitionTable
      <3>3. \A st : [probing EXCEPT !.state = st] = [dev EXCEPT !.state = st]
        BY Zenon, <2>1 DEF DeviceRecords
      <3> QED
        BY Zenon, <3>1, <3>2, <3>3 DEF Go
    <2> HIDE DEF probing
    <2>3. CASE dr \in NoOps \/ out # "ok"
      <3>1. PICK st \in {"Failed", "Deferred", "Unsupported", "Busy"} :
                new = Release([dev EXCEPT !.state = st])
        BY Zenon, <1>2, <2>1, <2>2, <2>3 DEF Probe, StateAfterProbe, ProbeOutcomes
      <3>2. new = [dev EXCEPT !.state = st, !.resources = 0]
        BY Zenon, <2>1, <3>1 DEF Release, DeviceRecords
      <3>3. /\ new \in DeviceRecords /\ new.state = st /\ new.resources = 0
            /\ new.driver = dev.driver /\ new.published = dev.published
            /\ new.host = dev.host
        BY Zenon, <2>1, <3>2, NoneListed DEF DeviceRecords, DeviceStates
      <3> QED
        BY Zenon, <2>1, <3>3 DEF DeviceOK, CleanHost
    <2>4. CASE dr \notin NoOps /\ out = "ok"
      <3> DEFINE host == IF dev.host = "none" THEN "running" ELSE dev.host
      <3>1. CASE dev.resources + ProbeResources > MaxResources \/ dev.driver # NoDriver
        <4>1. ~(probing.resources + ProbeResources <= MaxResources)
                \/ dev.driver # NoDriver
          BY <2>1, <2>2, <3>1, DeviceAssumption DEF DeviceRecords
        <4>2. new = Release([[dev EXCEPT !.state = "Failed"] EXCEPT !.host = Probed(dev).host])
          BY Zenon, <1>2, <2>1, <2>2, <2>4, <4>1 DEF Probe
        <4>3. Probed(dev).host = host
          BY Zenon, <2>1 DEF Probed, DeviceRecords
        <4>4. new = [dev EXCEPT !.state = "Failed", !.resources = 0, !.host = host]
          BY Zenon, <2>1, <4>2, <4>3 DEF Release, DeviceRecords
        <4>5. /\ new \in DeviceRecords /\ new.state = "Failed" /\ new.resources = 0
              /\ new.driver = dev.driver /\ new.published = dev.published
              /\ new.host = host
          BY Zenon, <2>1, <4>4, NoneListed DEF DeviceRecords, DeviceStates
        <4>6. dev.driver # NoDriver \/ dev.resources # 0
          BY <3>1, DeviceAssumption
        <4> QED
          BY Zenon, <2>1, <4>5, <4>6 DEF DeviceOK, CleanHost
      <3>2. CASE dev.resources + ProbeResources <= MaxResources /\ dev.driver = NoDriver
        <4>1. new = Go([Probed(probing) EXCEPT !.driver = dr], "Ready")
          BY Zenon, <1>2, <2>1, <2>2, <2>4, <3>2 DEF Probe
        <4>2. [Probed(probing) EXCEPT !.driver = dr] =
                  [dev EXCEPT !.state = "Probing", !.driver = dr,
                              !.resources = dev.resources + ProbeResources, !.host = host]
          BY Zenon, <2>1 DEF Probed, DeviceRecords, probing
        <4>3. [Probed(probing) EXCEPT !.driver = dr].state = "Probing"
          BY Zenon, <2>1, <4>2 DEF DeviceRecords
        <4>4. new = [[Probed(probing) EXCEPT !.driver = dr] EXCEPT !.state = "Ready"]
          BY Zenon, <4>1, <4>3, TransitionTable DEF Go
        <4>5. new = [dev EXCEPT !.state = "Ready", !.driver = dr,
                                !.resources = dev.resources + ProbeResources, !.host = host]
          BY Zenon, <2>1, <4>2, <4>4 DEF DeviceRecords
        <4>6. dev.resources + ProbeResources \in 0 .. MaxResources
          BY <2>1, <3>2, DeviceAssumption DEF DeviceRecords
        <4>7. /\ new \in DeviceRecords /\ new.state = "Ready" /\ new.driver = dr
              /\ new.host = host
          BY Zenon, <2>1, <4>5, <4>6 DEF DeviceRecords, DeviceStates
        <4> QED
          BY Zenon, <2>1, <4>7, DeviceAssumption DEF DeviceOK, CleanHost, DeviceRecords
      <3> QED
        BY <2>1, <3>1, <3>2, DeviceAssumption DEF DeviceRecords
    <2> QED
      BY Zenon, <2>3, <2>4
  <1> QED
    BY Zenon, <1>1, <1>2

\* add_resource keeps a device that was just discovered in order.
LEMMA AddResourceKeeps ==
    ASSUME NEW dev, DeviceOK(dev), dev.state = "Discovered",
           NEW new, new = AddResource(dev)
    PROVE  DeviceOK(new) /\ (CleanHost(dev) => CleanHost(new))
  <1>1. CASE dev.resources < MaxResources
    <2>1. dev.resources + 1 \in 0 .. MaxResources
      BY <1>1, DeviceAssumption DEF DeviceOK, DeviceRecords
    <2>2. /\ new \in DeviceRecords /\ new.state = dev.state
          /\ new.driver = dev.driver /\ new.published = dev.published
          /\ new.host = dev.host
      BY Zenon, <1>1, <2>1 DEF AddResource, DeviceOK, DeviceRecords
    <2> QED
      BY Zenon, <2>2 DEF DeviceOK, CleanHost
  <1> QED
    BY Zenon, <1>1 DEF AddResource

\* publish needs a Ready device, which has a driver.
LEMMA PublishKeeps ==
    ASSUME NEW dev, DeviceOK(dev), NEW new, new = Publish(dev)
    PROVE  /\ DeviceOK(new) /\ (CleanHost(dev) => CleanHost(new))
           /\ new.state = dev.state /\ new.driver = dev.driver
           /\ new.resources = dev.resources /\ new.host = dev.host
           /\ new.state = "Ready" => new.published
  <1>1. CASE dev.state = "Ready"
    <2>1. /\ new \in DeviceRecords /\ new.state = dev.state
          /\ new.driver = dev.driver /\ new.published = TRUE
          /\ new.host = dev.host /\ new.resources = dev.resources
      BY Zenon, <1>1 DEF Publish, DeviceOK, DeviceRecords
    <2> QED
      BY Zenon, <1>1, <2>1 DEF DeviceOK, CleanHost
  <1> QED
    BY Zenon, <1>1 DEF Publish

\* suspend and resume move a bound device between Ready and Suspended.
LEMMA SuspendResumeKeep ==
    ASSUME NEW dev, DeviceOK(dev), NEW dr \in Drivers, NEW ok \in BOOLEAN,
           NEW new, new = Suspend(dev, dr, ok) \/ new = Resume(dev, dr, ok)
    PROVE  DeviceOK(new) /\ (CleanHost(dev) => CleanHost(new))
  <1>1. CASE new = dev
    BY Zenon, <1>1
  <1>2. CASE new # dev
    <2>1. /\ dev.state \in {"Ready", "Suspended"}
          /\ \E st \in {"Ready", "Suspended"} : new = [dev EXCEPT !.state = st]
      BY Zenon, <1>2 DEF Suspend, Resume, Go
    <2>2. /\ new \in DeviceRecords /\ new.state \in {"Ready", "Suspended"}
          /\ new.driver = dev.driver /\ new.published = dev.published
          /\ new.host = dev.host
      BY Zenon, <2>1 DEF DeviceOK, DeviceRecords, DeviceStates
    <2> QED
      BY Zenon, <2>1, <2>2 DEF DeviceOK, CleanHost
  <1> QED
    BY Zenon, <1>1, <1>2

\* quiesce changes the state to Quiescing, if anything, and may halt the
\* controller; a clean controller that halts as told is clean.
LEMMA QuiesceKeeps ==
    ASSUME NEW dev, DeviceOK(dev), NEW dr \in Drivers, NEW out \in StopOutcomes,
           NEW new, new = Quiesce(dev, dr, out)
    PROVE  /\ DeviceOK(new)
           /\ CleanHost(dev) /\ out = "ok" => CleanHost(new)
           /\ new.driver = dev.driver /\ new.published = dev.published
           /\ new.state = dev.state \/ (new.state = "Quiescing" /\ dev.driver = dr)
  <1> DEFINE host == HostAfterStop(dev.host, out)
             stopped == [dev EXCEPT !.host = HostAfterStop(@, out)]
  <1>1. CASE dev.driver # dr \/ dev.state \notin {"Ready", "Suspended"}
    <2>1. new = dev
      BY Zenon, <1>1 DEF Quiesce
    <2> QED
      BY Zenon, <2>1
  <1>2. CASE dev.driver = dr /\ dev.state \in {"Ready", "Suspended"}
    <2>1. dev \in DeviceRecords /\ host \in {"none", "running", "halted"}
      BY Zenon DEF DeviceOK, DeviceRecords, HostAfterStop
    <2>2. /\ stopped \in DeviceRecords /\ stopped.state = dev.state
          /\ stopped.driver = dev.driver /\ stopped.published = dev.published
          /\ stopped.host = host
      BY Zenon, <2>1 DEF DeviceRecords
    <2>3. stopped.state = dev.state => CanGo(stopped, "Quiescing")
      BY Zenon, <1>2, TransitionTable
    <2> HIDE DEF stopped
    <2>4. CASE out # "ok" \/ dev.host = "none"
      <3>1. new = stopped
        BY Zenon, <1>2, <2>4 DEF Quiesce, stopped
      <3>2. CleanHost(dev) => out # "ok"
        BY Zenon, <1>2, <2>4 DEF CleanHost
      <3> QED
        BY Zenon, <1>2, <2>2, <3>1, <3>2, DeviceAssumption DEF DeviceOK
    <2>5. CASE out = "ok" /\ dev.host # "none"
      <3>1. new = Go(stopped, "Quiescing")
        BY Zenon, <1>2, <2>5 DEF Quiesce, stopped
      <3>2. new = [stopped EXCEPT !.state = "Quiescing"]
        BY Zenon, <2>2, <2>3, <3>1 DEF Go
      <3>3. /\ new \in DeviceRecords /\ new.state = "Quiescing"
            /\ new.driver = dev.driver /\ new.published = dev.published
            /\ new.host = host
        BY Zenon, <2>2, <3>2 DEF DeviceRecords, DeviceStates
      <3>4. CleanHost(dev) => host = "halted"
        BY Zenon, <1>2, <2>5 DEF CleanHost, HostAfterStop
      <3> QED
        BY Zenon, <1>2, <3>3, <3>4, DeviceAssumption DEF DeviceOK, CleanHost
    <2> QED
      BY Zenon, <2>4, <2>5
  <1> QED
    BY Zenon, <1>1, <1>2

\* What remove and revoke end with: the device is unpublished, unbound and
\* empty, because its state changed before its resources are released.
LEMMA DetachIs ==
    ASSUME NEW dev \in DeviceRecords, dev.state \in {"Quiescing", "Failed"},
           NEW new, new = Detach(dev)
    PROVE  /\ new \in DeviceRecords /\ new.state = "Removed" /\ new.resources = 0
           /\ new.driver = NoDriver /\ ~new.published /\ new.host = dev.host
  <1> DEFINE unbound == [dev EXCEPT !.published = FALSE, !.driver = NoDriver]
             removed == [unbound EXCEPT !.state = "Removed"]
  <1>1. unbound.state = dev.state
    BY Zenon DEF DeviceRecords
  <1>2. Go(unbound, "Removed") = removed
    BY Zenon, <1>1, TransitionTable DEF Go
  <1>3. removed = [dev EXCEPT !.published = FALSE, !.driver = NoDriver, !.state = "Removed"]
    BY Zenon DEF DeviceRecords
  <1>4. removed.state = "Removed"
    BY Zenon, <1>3 DEF DeviceRecords
  <1>5. new = [removed EXCEPT !.resources = 0]
    BY Zenon, <1>2, <1>4 DEF Detach, Release
  <1>6. new = [dev EXCEPT !.published = FALSE, !.driver = NoDriver, !.state = "Removed",
                          !.resources = 0]
    BY Zenon, <1>3, <1>5 DEF DeviceRecords
  <1> QED
    BY Zenon, <1>6, NoneListed DEF DeviceRecords, DeviceStates

\* remove takes a Quiescing device to Removed, with its controller gone, or to
\* Failed, still bound; it fails only if the controller does not halt.
LEMMA RemoveKeeps ==
    ASSUME NEW dev, DeviceOK(dev), NEW dr \in Drivers, NEW out \in StopOutcomes,
           NEW new, new = RemoveDevice(dev, dr, out)
    PROVE  /\ DeviceOK(new)
           /\ CleanHost(dev) /\ out = "ok" => CleanHost(new)
           /\ new # dev => dev.driver = dr /\ dev.state = "Quiescing"
           /\ dev.driver = dr /\ dev.state = "Quiescing" =>
                \/ /\ new.state = "Removed" /\ new.driver = NoDriver
                   /\ new.resources = 0 /\ new.host = "none"
                \/ /\ new.state = "Failed" /\ new.driver = dr
                   /\ out # "ok" \/ ~CleanHost(dev)
  <1>1. CASE dev.driver # dr \/ dev.state # "Quiescing"
    <2>1. new = dev
      BY Zenon, <1>1 DEF RemoveDevice
    <2> QED
      BY Zenon, <1>1, <2>1
  <1>2. CASE /\ dev.driver = dr /\ dev.state = "Quiescing"
             /\ out # "ok" \/ dev.host = "none"
    <2> DEFINE host == HostAfterStop(dev.host, out)
               failed == [dev EXCEPT !.state = "Failed"]
    <2>1. dev \in DeviceRecords /\ host \in {"none", "running", "halted"}
      BY Zenon DEF DeviceOK, DeviceRecords, HostAfterStop
    <2>2. Go(dev, "Failed") = failed
      BY Zenon, <1>2, TransitionTable DEF Go
    <2>3. new = [failed EXCEPT !.host = HostAfterStop(@, out)]
      BY Zenon, <1>2, <2>2 DEF RemoveDevice
    <2>4. new = [dev EXCEPT !.state = "Failed", !.host = host]
      BY Zenon, <2>1, <2>3 DEF DeviceRecords
    <2>5. /\ new \in DeviceRecords /\ new.state = "Failed" /\ new.driver = dr
          /\ new.host = host
      BY Zenon, <1>2, <2>1, <2>4 DEF DeviceRecords, DeviceStates
    <2>6. CleanHost(dev) => out # "ok"
      BY Zenon, <1>2 DEF CleanHost
    <2> QED
      BY Zenon, <1>2, <2>5, <2>6, DeviceAssumption DEF DeviceOK
  <1>3. CASE /\ dev.driver = dr /\ dev.state = "Quiescing"
             /\ out = "ok" /\ dev.host # "none"
    <2>1. dev \in DeviceRecords
      BY Zenon DEF DeviceOK
    <2>2. PICK det : det = Detach(dev)
      BY Zenon
    <2>3. new = [det EXCEPT !.host = "none"]
      BY Zenon, <1>3, <2>2 DEF RemoveDevice
    <2>4. /\ det \in DeviceRecords /\ det.state = "Removed" /\ det.resources = 0
          /\ det.driver = NoDriver /\ ~det.published
      BY Zenon, <1>3, <2>1, <2>2, DetachIs
    <2>5. /\ new \in DeviceRecords /\ new.state = "Removed" /\ new.resources = 0
          /\ new.driver = NoDriver /\ ~new.published /\ new.host = "none"
      BY Zenon, <2>3, <2>4 DEF DeviceRecords
    <2> QED
      BY Zenon, <1>3, <2>5 DEF DeviceOK, CleanHost
  <1> QED
    BY Zenon, <1>1, <1>2, <1>3

\* revoke detaches a device of its driver that quiesce or remove left behind.
LEMMA RevokeKeeps ==
    ASSUME NEW dev, DeviceOK(dev), NEW dr \in Drivers,
           NEW new, new = Revoke(dev, dr)
    PROVE  DeviceOK(new)
  <1>1. CASE dev.driver = dr /\ dev.state \in {"Quiescing", "Failed"}
    <2>1. new = Detach(dev) /\ dev \in DeviceRecords
      BY Zenon, <1>1 DEF Revoke, DeviceOK
    <2>2. /\ new \in DeviceRecords /\ new.state = "Removed" /\ new.resources = 0
          /\ new.driver = NoDriver /\ ~new.published
      BY Zenon, <1>1, <2>1, DetachIs
    <2> QED
      BY Zenon, <2>2 DEF DeviceOK
  <1> QED
    BY Zenon, <1>1 DEF Revoke

\* The teardown of stop: a Quiescing device is Removed with nothing left, or
\* its removal failed and revoke unbinds it; the controller of a clean device
\* that halts as told is clean.
LEMMA StoppedKeeps ==
    ASSUME NEW dev, DeviceOK(dev), NEW dr \in Drivers, NEW out \in StopOutcomes,
           dev.driver = dr, dev.state = "Quiescing",
           NEW new, new = Stopped(dev, dr, out)
    PROVE  /\ DeviceOK(new)
           /\ CleanHost(dev) /\ out = "ok" => CleanHost(new)
           /\ StateAfterStop(dev, dr, out) = "Stopped" =>
                new.driver = NoDriver /\ new.resources = 0 /\ new.host = "none"
  <1>1. PICK removed : removed = RemoveDevice(dev, dr, out)
    BY Zenon
  <1>2. /\ DeviceOK(removed)
        /\ CleanHost(dev) /\ out = "ok" => CleanHost(removed)
        /\ \/ /\ removed.state = "Removed" /\ removed.driver = NoDriver
              /\ removed.resources = 0 /\ removed.host = "none"
           \/ /\ removed.state = "Failed"
              /\ out # "ok" \/ ~CleanHost(dev)
    BY <1>1, RemoveKeeps
  <1>3. CASE removed.state = "Removed"
    BY Zenon, <1>1, <1>2, <1>3 DEF Stopped
  <1>4. CASE removed.state # "Removed"
    <2>1. new = Revoke(removed, dr)
      BY Zenon, <1>1, <1>4 DEF Stopped
    <2>2. DeviceOK(new)
      BY Zenon, <1>2, <2>1, RevokeKeeps
    <2> QED
      BY Zenon, <1>1, <1>2, <1>4, <2>2 DEF StateAfterStop
  <1> QED
    BY Zenon, <1>3, <1>4

\* hot_unplug and rebind are chains of the operations above.
LEMMA UnplugKeeps ==
    ASSUME NEW dev, DeviceOK(dev), NEW dr \in Drivers,
           NEW out1 \in StopOutcomes, NEW out2 \in StopOutcomes,
           NEW new, new = HotUnplug(dev, dr, out1, out2)
    PROVE  /\ DeviceOK(new)
           /\ CleanHost(dev) /\ out1 = "ok" /\ out2 = "ok" => CleanHost(new)
  <1>1. PICK quiesced : quiesced = Quiesce(dev, dr, out1)
    BY Zenon
  <1>2. PICK removed : removed = RemoveDevice(quiesced, dr, out2)
    BY Zenon
  <1>3. DeviceOK(quiesced) /\ (CleanHost(dev) /\ out1 = "ok" => CleanHost(quiesced))
    BY <1>1, QuiesceKeeps
  <1>4. DeviceOK(removed) /\ (CleanHost(quiesced) /\ out2 = "ok" => CleanHost(removed))
    BY <1>2, <1>3, RemoveKeeps
  <1>5. new = dev \/ new = removed
    BY Zenon, <1>1, <1>2 DEF HotUnplug
  <1> QED
    BY Zenon, <1>3, <1>4, <1>5

\* rebind: an unplug and a probe by another driver, each of which may fail.
LEMMA RebindKeeps ==
    ASSUME NEW dev, DeviceOK(dev), NEW old \in Drivers, NEW to \in Drivers,
           NEW out1 \in StopOutcomes, NEW out2 \in StopOutcomes,
           NEW out3 \in ProbeOutcomes,
           NEW new, new = Rebind(dev, old, to, out1, out2, out3)
    PROVE  /\ DeviceOK(new)
           /\ CleanHost(dev) /\ out1 = "ok" /\ out2 = "ok" => CleanHost(new)
  <1>1. PICK removed : removed = HotUnplug(dev, old, out1, out2)
    BY Zenon
  <1>2. PICK probed : probed = Probe(removed, to, out3)
    BY Zenon
  <1>3. /\ DeviceOK(removed)
        /\ CleanHost(dev) /\ out1 = "ok" /\ out2 = "ok" => CleanHost(removed)
    BY Zenon, <1>1, UnplugKeeps
  <1>4. DeviceOK(probed) /\ (CleanHost(removed) => CleanHost(probed))
    BY Zenon, <1>2, <1>3, ProbeKeeps
  <1>5. new = removed \/ new = probed
    BY Zenon, <1>1, <1>2 DEF Rebind
  <1> QED
    BY Zenon, <1>3, <1>4, <1>5

-----------------------------------------------------------------------------
(* The supervisor *)

\* A framework call on a device without a service touches no record.
LEMMA OnDeviceStep ==
    ASSUME ServiceInv, NEW d \in Devices, NEW dev, NEW outs, OnDevice(d, dev, outs),
           DeviceOK(dev),
           CleanHost(devices[d]) /\ outs \subseteq {"ok"} => CleanHost(dev)
    PROVE  ServiceInv'
  <1>1. /\ devices' = [devices EXCEPT ![d] = dev]
        /\ UNCHANGED <<processes, records, generations, retired>>
        /\ strained' = IF outs \subseteq {"ok"} THEN strained ELSE strained \cup {d}
        /\ \A s \in DOMAIN records : records[s].device # d
    BY Zenon DEF OnDevice, SetDevice, Strain, Registered
  <1>2. TypeOK'
    BY Zenon, <1>1 DEF ServiceInv, TypeOK, DeviceOK
  <1>3. DevicesOK'
    BY Zenon, <1>1 DEF ServiceInv, TypeOK, DevicesOK
  <1>4. OneServicePerDevice' /\ RetiredOK'
    BY Zenon, <1>1 DEF ServiceInv, OneServicePerDevice, RetiredOK
  <1>5. RecordsOK'
    <2>1. \A s \in DOMAIN records :
              devices'[records[s].device] = devices[records[s].device]
      BY <1>1 DEF ServiceInv, TypeOK
    <2> QED
      BY Zenon, <1>1, <2>1 DEF ServiceInv, RecordsOK
  <1> QED
    BY Zenon, <1>2, <1>3, <1>4, <1>5 DEF ServiceInv

\* What the calls of the supervisor have in common: one slot gets a record of
\* a device that no other slot has, its device changes, and processes exit.
LEMMA RecordStep ==
    ASSUME ServiceInv, NEW s \in ServiceSlots, NEW r \in ServiceRecords, NEW dev,
           PutRecord(s, r), SetDevice(r.device, dev),
           \A t \in DOMAIN records : t # s => records[t].device # r.device,
           DeviceOK(dev),
           strained' = strained \/ strained' = strained \cup {r.device},
           r.device \notin strained' => CleanHost(dev),
           processes' \in [Processes -> {"Unborn", "Running", "Zombie", "Reaped"}],
           \A p \in Processes : \/ processes'[p] = processes[p]
                                \/ processes[p] = "Running" /\ processes'[p] = "Zombie",
           RecordOK(r, dev, processes'[r.process]),
           UNCHANGED <<generations, retired>>
    PROVE  ServiceInv'
  <1>1. /\ DOMAIN records' = DOMAIN records \cup {s}
        /\ records'[s] = r
        /\ \A t \in DOMAIN records : t # s => records'[t] = records[t]
        /\ r.device \in Devices /\ r.process \in Processes
    BY Zenon DEF PutRecord, ServiceRecords
  <1>2. /\ devices'[r.device] = dev
        /\ \A d \in Devices : d # r.device => devices'[d] = devices[d]
        /\ devices' \in [Devices -> DeviceRecords]
    BY Zenon, <1>1 DEF SetDevice, DeviceOK, ServiceInv, TypeOK
  <1>3. TypeOK'
    <2>1. records' \in [DOMAIN records' -> ServiceRecords]
      <3>1. \A t \in DOMAIN records : records[t] \in ServiceRecords
        BY Zenon DEF ServiceInv, TypeOK
      <3> QED
        BY Zenon, <3>1 DEF PutRecord
    <2>2. DOMAIN records' \subseteq ServiceSlots
      BY Zenon, <1>1 DEF ServiceInv, TypeOK
    <2> QED
      BY Zenon, <1>1, <1>2, <2>1, <2>2 DEF ServiceInv, TypeOK
  <1>4. DevicesOK'
    <2>1. \A d \in Devices : d # r.device /\ d \notin strained' => d \notin strained
      BY Zenon
    <2> QED
      BY Zenon, <1>1, <1>2, <2>1 DEF ServiceInv, DevicesOK
  <1>5. OneServicePerDevice'
    BY Zenon, <1>1 DEF ServiceInv, OneServicePerDevice
  <1>6. RecordsOK'
    <2> SUFFICES ASSUME NEW t \in DOMAIN records'
                 PROVE  RecordOK(records'[t], devices'[records'[t].device],
                                 processes'[records'[t].process])
      BY Zenon DEF RecordsOK
    <2>1. CASE t = s
      BY Zenon, <1>1, <1>2, <2>1
    <2>2. CASE t # s
      <3>1. /\ t \in DOMAIN records /\ records'[t] = records[t]
            /\ records[t].device \in Devices /\ records[t].process \in Processes
            /\ devices'[records[t].device] = devices[records[t].device]
        BY Zenon, <1>1, <1>2, <2>2 DEF ServiceInv, TypeOK, ServiceRecords
      <3>2. RecordOK(records[t], devices[records[t].device], processes[records[t].process])
        BY Zenon, <3>1 DEF ServiceInv, RecordsOK
      <3> QED
        BY <3>1, <3>2 DEF RecordOK
    <2> QED
      BY Zenon, <2>1, <2>2
  <1>7. RetiredOK'
    BY Zenon DEF ServiceInv, RetiredOK
  <1> QED
    BY Zenon, <1>3, <1>4, <1>5, <1>6, <1>7 DEF ServiceInv

\* A handle that resolves names an occupied slot whose device is its own.
LEMMA ResolvedSlot ==
    ASSUME ServiceInv, NEW h \in Handles, Resolves(h),
           NEW r, r = records[h.slot]
    PROVE  /\ h.slot \in ServiceSlots /\ h.slot \in DOMAIN records
           /\ r \in ServiceRecords /\ r.device \in Devices /\ r.process \in Processes
           /\ \A t \in DOMAIN records : t # h.slot => records[t].device # r.device
           /\ RecordOK(r, devices[r.device], processes[r.process])
           /\ DeviceOK(devices[r.device])
           /\ r.device \notin strained => CleanHost(devices[r.device])
  <1>1. h.slot \in ServiceSlots /\ h.slot \in DOMAIN records
    BY Zenon DEF Resolves, Handles
  <1>2. r \in ServiceRecords /\ r.device \in Devices /\ r.process \in Processes
    BY Zenon, <1>1 DEF ServiceInv, TypeOK, ServiceRecords
  <1>3. \A t \in DOMAIN records : t # h.slot => records[t].device # r.device
    BY Zenon, <1>1 DEF ServiceInv, OneServicePerDevice
  <1>4. RecordOK(r, devices[r.device], processes[r.process])
    BY Zenon, <1>1 DEF ServiceInv, RecordsOK
  <1>5. DeviceOK(devices[r.device])
        /\ (r.device \notin strained => CleanHost(devices[r.device]))
    BY Zenon, <1>2 DEF ServiceInv, DevicesOK
  <1> QED
    BY Zenon, <1>1, <1>2, <1>3, <1>4, <1>5

\* The slot a registration takes is a free one.
LEMMA FirstFreeIsFree ==
    ASSUME ServiceInv, DOMAIN records # ServiceSlots
    PROVE  FirstFree \in ServiceSlots \ DOMAIN records
  <1> DEFINE F == ServiceSlots \ DOMAIN records
  <1>1. F \subseteq Nat /\ F # {}
    BY ServiceAssumption DEF ServiceInv, TypeOK, ServiceSlots
  <1>2. \E x \in F : \A y \in F : x <= y
    <2>1. IsWellFoundedOn(OpToRel(<, Nat), Nat)
      BY Zenon, NatLessThanWellFounded
    <2>2. PICK x \in F : \A y \in F : ~(<<y, x>> \in OpToRel(<, Nat))
      BY Zenon, <1>1, <2>1, WFMin
    <2>3. \A y \in F : ~(y < x)
      BY Zenon, <1>1, <2>2 DEF OpToRel
    <2> QED
      BY <1>1, <2>3
  <1> QED
    BY Zenon, <1>2 DEF FirstFree

\* register: a ready, published device without a service and a live process.
LEMMA RegisterStep ==
    ASSUME ServiceInv, NEW d \in Devices, NEW dr \in Drivers, NEW p \in Processes,
           Register(d, dr, p)
    PROVE  ServiceInv'
  <1> DEFINE r == [device |-> d, driver |-> dr, process |-> p,
                   state |-> "Registered", active |-> FALSE, restarts |-> 0]
  <1>1. FirstFree \in ServiceSlots
    BY Zenon, FirstFreeIsFree DEF Register
  <1>2. /\ r \in ServiceRecords
        /\ r.device = d /\ r.driver = dr /\ r.process = p
        /\ r.state = "Registered" /\ r.active = FALSE
    BY ServiceAssumption DEF ServiceRecords, RecordStates
  <1>3. PutRecord(FirstFree, r)
    BY Zenon DEF Register
  <1> HIDE DEF r
  <1>4. SetDevice(r.device, devices[d])
    BY Zenon, <1>2 DEF Register, SetDevice, ServiceInv, TypeOK
  <1>5. RecordOK(r, devices[d], processes[p])
    BY Zenon, <1>2 DEF Register, ValidProcess, RecordOK
  <1>6. \A t \in DOMAIN records : records[t].device # r.device
    BY Zenon, <1>2 DEF Register, Registered
  <1>7. /\ DeviceOK(devices[d])
        /\ d \notin strained => CleanHost(devices[d])
        /\ processes \in [Processes -> {"Unborn", "Running", "Zombie", "Reaped"}]
        /\ UNCHANGED <<processes, generations, retired, strained>>
    BY Zenon DEF ServiceInv, DevicesOK, TypeOK, Register
  <1> QED
    BY Zenon, <1>1, <1>2, <1>3, <1>4, <1>5, <1>6, <1>7, RecordStep

\* start: the record becomes active; the device has been ready since register.
LEMMA StartStep ==
    ASSUME ServiceInv, NEW h \in Handles, NEW d \in Devices, NEW dr \in Drivers,
           StartService(h, d, dr)
    PROVE  ServiceInv'
  <1>1. PICK r : r = records[h.slot]
    BY Zenon
  <1>2. PICK new : new = [r EXCEPT !.state = "Running", !.active = TRUE]
    BY Zenon
  <1>3. /\ h.slot \in ServiceSlots /\ h.slot \in DOMAIN records
        /\ r \in ServiceRecords /\ r.device \in Devices /\ r.process \in Processes
        /\ \A t \in DOMAIN records : t # h.slot => records[t].device # r.device
        /\ RecordOK(r, devices[r.device], processes[r.process])
        /\ DeviceOK(devices[r.device])
        /\ r.device \notin strained => CleanHost(devices[r.device])
    BY Zenon, <1>1, ResolvedSlot DEF StartService
  <1>4. /\ r.state = "Registered" /\ r.device = d /\ r.driver = dr
        /\ PutRecord(h.slot, new)
        /\ UNCHANGED <<devices, processes, generations, retired, strained>>
    BY Zenon, <1>1, <1>2 DEF StartService, ValidDevice, ValidDeviceId
  <1>5. /\ new \in ServiceRecords
        /\ new.device = r.device /\ new.driver = r.driver /\ new.process = r.process
        /\ new.state = "Running" /\ new.active = TRUE
    BY Zenon, <1>2, <1>3 DEF ServiceRecords, RecordStates
  <1>6. RecordOK(new, devices[r.device], processes[r.process])
    BY Zenon, <1>3, <1>4, <1>5 DEF RecordOK
  <1>7. /\ SetDevice(new.device, devices[r.device])
        /\ processes \in [Processes -> {"Unborn", "Running", "Zombie", "Reaped"}]
    BY Zenon, <1>4, <1>5 DEF SetDevice, ServiceInv, TypeOK
  <1> QED
    BY <1>3, <1>4, <1>5, <1>6, <1>7, RecordStep

\* quiesce: whether or not the device ends Quiescing, the endpoint is gone.
LEMMA QuiesceStep ==
    ASSUME ServiceInv, NEW h \in Handles, NEW d \in Devices, NEW dr \in Drivers,
           NEW out \in StopOutcomes, QuiesceService(h, d, dr, out)
    PROVE  ServiceInv'
  <1>1. PICK r : r = records[h.slot]
    BY Zenon
  <1>2. PICK dev : dev = Quiesce(devices[d], dr, out)
    BY Zenon
  <1>3. PICK new : new = [r EXCEPT
             !.state = IF dev.state = "Quiescing" THEN "Quiescing" ELSE "Failed",
             !.active = FALSE]
    BY Zenon
  <1>4. /\ h.slot \in ServiceSlots /\ h.slot \in DOMAIN records
        /\ r \in ServiceRecords /\ r.device \in Devices /\ r.process \in Processes
        /\ \A t \in DOMAIN records : t # h.slot => records[t].device # r.device
        /\ RecordOK(r, devices[r.device], processes[r.process])
        /\ DeviceOK(devices[r.device])
        /\ r.device \notin strained => CleanHost(devices[r.device])
    BY Zenon, <1>1, ResolvedSlot DEF QuiesceService
  <1>5. /\ r.state = "Running" /\ r.device = d /\ r.driver = dr
        /\ devices[d].driver = dr
        /\ PutRecord(h.slot, new) /\ SetDevice(d, dev)
        /\ strained' = IF {out} \subseteq {"ok"} THEN strained ELSE strained \cup {d}
        /\ UNCHANGED <<processes, generations, retired>>
    BY Zenon, <1>1, <1>2, <1>3 DEF QuiesceService, ValidDevice, ValidDeviceId, Strain
  <1>6. /\ DeviceOK(dev) /\ (CleanHost(devices[d]) /\ out = "ok" => CleanHost(dev))
        /\ dev.driver = dr
    BY <1>2, <1>4, <1>5, QuiesceKeeps
  <1>7. /\ new \in ServiceRecords
        /\ new.device = d /\ new.driver = dr /\ new.process = r.process
        /\ new.state = IF dev.state = "Quiescing" THEN "Quiescing" ELSE "Failed"
        /\ new.active = FALSE
    BY Zenon, <1>3, <1>4, <1>5 DEF ServiceRecords, RecordStates
  <1>8. RecordOK(new, dev, processes[r.process])
    BY Zenon, <1>4, <1>5, <1>6, <1>7 DEF RecordOK
  <1>9. /\ processes' \in [Processes -> {"Unborn", "Running", "Zombie", "Reaped"}]
        /\ processes' = processes
        /\ d \notin strained' => CleanHost(dev)
        /\ strained' = strained \/ strained' = strained \cup {d}
    BY Zenon, <1>4, <1>5, <1>6 DEF ServiceInv, TypeOK
  <1> QED
    BY <1>4, <1>5, <1>6, <1>7, <1>8, <1>9, RecordStep

\* stop: a service that ends Stopped has left nothing behind.
LEMMA StopStep ==
    ASSUME ServiceInv, NEW h \in Handles, NEW d \in Devices, NEW dr \in Drivers,
           NEW out \in StopOutcomes, Stop(h, d, dr, out)
    PROVE  ServiceInv'
  <1>1. PICK r : r = records[h.slot]
    BY Zenon
  <1>2. PICK dev : dev = Stopped(devices[d], dr, out)
    BY Zenon
  <1>3. PICK st : st = StateAfterStop(devices[d], dr, out)
    BY Zenon
  <1>4. PICK new : new = [r EXCEPT !.state = st, !.active = FALSE]
    BY Zenon
  <1>5. /\ h.slot \in ServiceSlots /\ h.slot \in DOMAIN records
        /\ r \in ServiceRecords /\ r.device \in Devices /\ r.process \in Processes
        /\ \A t \in DOMAIN records : t # h.slot => records[t].device # r.device
        /\ RecordOK(r, devices[r.device], processes[r.process])
        /\ DeviceOK(devices[r.device])
        /\ r.device \notin strained => CleanHost(devices[r.device])
    BY Zenon, <1>1, ResolvedSlot DEF Stop
  <1>6. /\ r.state = "Quiescing" /\ r.device = d /\ r.driver = dr
        /\ devices[d].driver = dr
        /\ PutRecord(h.slot, new) /\ SetDevice(d, dev)
        /\ ExitIfRunning(r.process)
        /\ strained' = IF {out} \subseteq {"ok"} THEN strained ELSE strained \cup {d}
        /\ UNCHANGED <<generations, retired>>
    BY Zenon, <1>1, <1>2, <1>3, <1>4 DEF Stop, ValidDevice, ValidDeviceId, Strain
  <1>7. devices[d].state = "Quiescing"
    BY Zenon, <1>5, <1>6 DEF RecordOK
  <1>8. /\ DeviceOK(dev) /\ (CleanHost(devices[d]) /\ out = "ok" => CleanHost(dev))
        /\ st = "Stopped" => dev.driver = NoDriver /\ dev.resources = 0 /\ dev.host = "none"
    BY <1>2, <1>3, <1>5, <1>6, <1>7, StoppedKeeps
  <1>9. st \in {"Stopped", "Failed"}
    BY Zenon, <1>3 DEF StateAfterStop
  <1>10. /\ new \in ServiceRecords
         /\ new.device = d /\ new.driver = dr /\ new.process = r.process
         /\ new.state = st /\ new.active = FALSE
    BY Zenon, <1>4, <1>5, <1>6, <1>9 DEF ServiceRecords, RecordStates
  <1>11. /\ processes' \in [Processes -> {"Unborn", "Running", "Zombie", "Reaped"}]
         /\ \A p \in Processes : \/ processes'[p] = processes[p]
                                 \/ processes[p] = "Running" /\ processes'[p] = "Zombie"
         /\ processes'[r.process] # "Running"
    BY Zenon, <1>5, <1>6 DEF ServiceInv, TypeOK, ExitIfRunning
  <1>12. RecordOK(new, dev, processes'[r.process])
    <2>1. processes'[r.process] \in {"Zombie", "Reaped"}
      BY Zenon, <1>5, <1>11 DEF RecordOK
    <2> QED
      BY Zenon, <1>8, <1>9, <1>10, <2>1 DEF RecordOK
  <1>13. /\ d \notin strained' => CleanHost(dev)
         /\ strained' = strained \/ strained' = strained \cup {d}
    BY Zenon, <1>5, <1>6, <1>8
  <1> QED
    BY <1>5, <1>6, <1>8, <1>10, <1>11, <1>12, <1>13, RecordStep

\* restart: the service is registered again with its device ready and
\* published, or it stays as it was, and a stopped one still has nothing.
LEMMA RestartStep ==
    ASSUME ServiceInv, NEW h \in Handles, NEW d \in Devices, NEW dr \in Drivers,
           NEW p \in Processes, NEW out \in ProbeOutcomes, Restart(h, d, dr, p, out)
    PROVE  ServiceInv'
  <1>1. PICK r : r = records[h.slot]
    BY Zenon
  <1>2. PICK probed : probed = Probe(devices[d], dr, out)
    BY Zenon
  <1>3. PICK dev : dev = Publish(probed)
    BY Zenon
  <1>4. PICK new : new = [r EXCEPT !.process = p, !.state = "Registered",
                                   !.active = FALSE, !.restarts = @ + 1]
    BY Zenon
  <1>5. /\ h.slot \in ServiceSlots /\ h.slot \in DOMAIN records
        /\ r \in ServiceRecords /\ r.device \in Devices /\ r.process \in Processes
        /\ \A t \in DOMAIN records : t # h.slot => records[t].device # r.device
        /\ RecordOK(r, devices[r.device], processes[r.process])
        /\ DeviceOK(devices[r.device])
        /\ r.device \notin strained => CleanHost(devices[r.device])
    BY Zenon, <1>1, ResolvedSlot DEF Restart
  <1>6. /\ r.state \in {"Stopped", "Failed"} /\ r.device = d /\ r.driver = dr
        /\ r.restarts < MaxRestarts
        /\ processes[p] = "Running"
        /\ CanGo(devices[d], "Probing")
        /\ SetDevice(d, dev)
        /\ dev.state = "Ready" => PutRecord(h.slot, new)
        /\ dev.state # "Ready" => UNCHANGED records
        /\ UNCHANGED <<processes, generations, retired, strained>>
    BY Zenon, <1>1, <1>2, <1>3, <1>4 DEF Restart, ValidDeviceId, ValidProcess
  <1>7. devices[d].state # "Ready"
    BY Zenon, <1>6, TransitionTable
  <1>8. /\ DeviceOK(probed) /\ (CleanHost(devices[d]) => CleanHost(probed))
        /\ probed.state = "Ready" => probed.driver = dr
        /\ /\ devices[d].driver = NoDriver /\ devices[d].resources = 0
           /\ devices[d].host = "none" /\ probed.state # "Ready"
           => probed.driver = NoDriver /\ probed.resources = 0 /\ probed.host = "none"
    <2>1. DeviceOK(devices[d])
      BY Zenon, <1>5, <1>6
    <2> QED
      BY <1>2, <1>7, <2>1, ProbeKeeps
  <1>9. /\ DeviceOK(dev) /\ (CleanHost(probed) => CleanHost(dev))
        /\ dev.state = probed.state /\ dev.driver = probed.driver
        /\ dev.resources = probed.resources /\ dev.host = probed.host
        /\ dev.state = "Ready" => dev.published
    BY Zenon, <1>3, <1>8, PublishKeeps
  <1>10. /\ processes' \in [Processes -> {"Unborn", "Running", "Zombie", "Reaped"}]
         /\ processes' = processes
         /\ d \notin strained' => CleanHost(dev)
         /\ strained' = strained
    <2>1. processes' \in [Processes -> {"Unborn", "Running", "Zombie", "Reaped"}]
      BY Zenon, <1>6 DEF ServiceInv, TypeOK
    <2>2. d \notin strained => CleanHost(devices[d])
      BY Zenon, <1>5, <1>6
    <2> QED
      BY Zenon, <1>6, <1>8, <1>9, <2>1, <2>2
  <1>11. CASE dev.state = "Ready"
    <2>1. r.restarts + 1 \in 0 .. MaxRestarts
      BY <1>5, <1>6, ServiceAssumption DEF ServiceRecords
    <2>2. /\ new \in ServiceRecords
          /\ new.device = d /\ new.driver = dr /\ new.process = p
          /\ new.state = "Registered" /\ new.active = FALSE
      BY Zenon, <1>4, <1>5, <1>6, <2>1 DEF ServiceRecords, RecordStates
    <2>3. RecordOK(new, dev, processes[p])
      BY Zenon, <1>6, <1>8, <1>9, <1>11, <2>2 DEF RecordOK
    <2> QED
      BY <1>5, <1>6, <1>9, <1>10, <1>11, <2>2, <2>3, RecordStep
  <1>12. CASE dev.state # "Ready"
    <2>1. PutRecord(h.slot, r)
      BY Zenon, <1>1, <1>5, <1>6, <1>12 DEF PutRecord, ServiceInv, TypeOK
    <2>2. RecordOK(r, dev, processes[r.process])
      BY Zenon, <1>5, <1>6, <1>8, <1>9, <1>12 DEF RecordOK
    <2> QED
      BY Zenon, <1>5, <1>6, <1>9, <1>10, <2>1, <2>2, RecordStep
  <1> QED
    BY Zenon, <1>11, <1>12

\* recover_crash: the service is Failed, however far the teardown got.
LEMMA RecoverCrashStep ==
    ASSUME ServiceInv, NEW h \in Handles, NEW d \in Devices, NEW dr \in Drivers,
           NEW out1 \in StopOutcomes, NEW out2 \in StopOutcomes,
           RecoverCrash(h, d, dr, out1, out2)
    PROVE  ServiceInv'
  <1>1. PICK r : r = records[h.slot]
    BY Zenon
  <1>2. PICK quiesced : quiesced = Quiesce(devices[d], dr, out1)
    BY Zenon
  <1>3. PICK stopped : stopped = Stopped(quiesced, dr, out2)
    BY Zenon
  <1>4. PICK dev : dev = IF quiesced.state = "Quiescing" THEN stopped ELSE quiesced
    BY Zenon
  <1>5. PICK new : new = [r EXCEPT !.state = "Failed", !.active = FALSE]
    BY Zenon
  <1>6. /\ h.slot \in ServiceSlots /\ h.slot \in DOMAIN records
        /\ r \in ServiceRecords /\ r.device \in Devices /\ r.process \in Processes
        /\ \A t \in DOMAIN records : t # h.slot => records[t].device # r.device
        /\ RecordOK(r, devices[r.device], processes[r.process])
        /\ DeviceOK(devices[r.device])
        /\ r.device \notin strained => CleanHost(devices[r.device])
    BY Zenon, <1>1, ResolvedSlot DEF RecoverCrash
  <1>7. /\ r.state = "Running" /\ r.device = d /\ r.driver = dr
        /\ devices[d].driver = dr
        /\ PutRecord(h.slot, new) /\ SetDevice(d, dev)
        /\ Strain(d, IF quiesced.state = "Quiescing" THEN {out1, out2} ELSE {out1})
        /\ UNCHANGED <<processes, generations, retired>>
    BY Zenon, <1>1, <1>2, <1>3, <1>4, <1>5 DEF RecoverCrash, ValidDevice, ValidDeviceId
  <1>8. /\ DeviceOK(quiesced)
        /\ CleanHost(devices[d]) /\ out1 = "ok" => CleanHost(quiesced)
        /\ quiesced.driver = dr
    BY <1>2, <1>6, <1>7, QuiesceKeeps
  <1>9. quiesced.state = "Quiescing" =>
            DeviceOK(stopped) /\ (CleanHost(quiesced) /\ out2 = "ok" => CleanHost(stopped))
    BY Zenon, <1>3, <1>8, StoppedKeeps
  <1>10. /\ DeviceOK(dev)
         /\ d \notin strained' => CleanHost(dev)
         /\ strained' = strained \/ strained' = strained \cup {d}
    <2>1. CASE quiesced.state = "Quiescing"
      <3>1. strained' = IF {out1, out2} \subseteq {"ok"} THEN strained
                        ELSE strained \cup {d}
        BY Zenon, <1>7, <2>1 DEF Strain
      <3> QED
        BY Zenon, <1>4, <1>6, <1>7, <1>8, <1>9, <2>1, <3>1
    <2>2. CASE quiesced.state # "Quiescing"
      <3>1. strained' = IF {out1} \subseteq {"ok"} THEN strained ELSE strained \cup {d}
        BY Zenon, <1>7, <2>2 DEF Strain
      <3> QED
        BY Zenon, <1>4, <1>6, <1>7, <1>8, <2>2, <3>1
    <2> QED
      BY Zenon, <2>1, <2>2
  <1>11. /\ new \in ServiceRecords
         /\ new.device = d /\ new.driver = dr /\ new.process = r.process
         /\ new.state = "Failed" /\ new.active = FALSE
    BY Zenon, <1>5, <1>6, <1>7 DEF ServiceRecords, RecordStates
  <1>12. RecordOK(new, dev, processes[r.process])
    BY Zenon, <1>6, <1>11 DEF RecordOK
  <1>13. /\ processes' \in [Processes -> {"Unborn", "Running", "Zombie", "Reaped"}]
         /\ processes' = processes
    BY Zenon, <1>7 DEF ServiceInv, TypeOK
  <1> QED
    BY <1>6, <1>7, <1>10, <1>11, <1>12, <1>13, RecordStep

\* unregister: the generation moves on with the slot, up to the last one.
LEMMA UnregisterStep ==
    ASSUME ServiceInv, NEW h \in Handles, Unregister(h)
    PROVE  ServiceInv'
  <1>1. /\ h.slot \in ServiceSlots /\ generations[h.slot] = h.generation
        /\ h.slot \in DOMAIN records
        /\ DOMAIN records' = DOMAIN records \ {h.slot}
        /\ \A t \in DOMAIN records' : records'[t] = records[t]
        /\ records' \in [DOMAIN records' -> ServiceRecords]
        /\ retired' = retired \cup {h}
        /\ UNCHANGED <<devices, processes, strained>>
    BY Zenon DEF Unregister, Resolves, Handles, ServiceInv, TypeOK
  <1>2. generations' = [generations EXCEPT ![h.slot] = IF @ < MaxServiceGen THEN @ + 1 ELSE @]
    BY Zenon DEF Unregister
  <1>3. /\ generations' \in [ServiceSlots -> 0 .. MaxServiceGen]
        /\ \A s \in ServiceSlots : generations[s] <= generations'[s]
        /\ h.generation < MaxServiceGen => h.generation < generations'[h.slot]
    BY <1>1, <1>2, ServiceAssumption DEF ServiceInv, TypeOK
  <1>4. TypeOK'
    BY Zenon, <1>1, <1>3 DEF ServiceInv, TypeOK
  <1>5. RetiredOK'
    <2>1. \A g \in retired : /\ g.slot \in ServiceSlots /\ g.generation \in Nat
                             /\ generations[g.slot] \in Nat /\ generations'[g.slot] \in Nat
      BY <1>3, ServiceAssumption DEF ServiceInv, TypeOK, Handles
    <2> QED
      BY <1>1, <1>3, <2>1 DEF ServiceInv, RetiredOK
  <1>6. DevicesOK' /\ OneServicePerDevice' /\ RecordsOK'
    BY Zenon, <1>1 DEF ServiceInv, DevicesOK, OneServicePerDevice, RecordsOK
  <1> QED
    BY Zenon, <1>4, <1>5, <1>6 DEF ServiceInv

\* A process is spawned, exits or is reaped; no service has an unborn one.
LEMMA ProcessStep ==
    ASSUME ServiceInv, NEW p \in Processes, Spawn(p) \/ ExitProcess(p) \/ Reap(p)
    PROVE  ServiceInv'
  <1>1. /\ UNCHANGED <<devices, records, generations, retired, strained>>
        /\ processes' \in [Processes -> {"Unborn", "Running", "Zombie", "Reaped"}]
        /\ \A q \in Processes :
              \/ processes'[q] = processes[q]
              \/ processes[q] = "Unborn"
              \/ processes[q] = "Running" /\ processes'[q] = "Zombie"
              \/ processes[q] = "Zombie" /\ processes'[q] = "Reaped"
    BY Zenon DEF Spawn, ExitProcess, Reap, ServiceInv, TypeOK
  <1>2. RecordsOK'
    <2> SUFFICES ASSUME NEW s \in DOMAIN records
                 PROVE  RecordOK(records[s], devices[records[s].device],
                                 processes'[records[s].process])
      BY Zenon, <1>1 DEF RecordsOK
    <2>1. /\ records[s].process \in Processes
          /\ RecordOK(records[s], devices[records[s].device], processes[records[s].process])
      BY Zenon DEF ServiceInv, TypeOK, RecordsOK, ServiceRecords
    <2> QED
      BY Zenon, <1>1, <2>1 DEF RecordOK
  <1> QED
    BY Zenon, <1>1, <1>2
    DEF ServiceInv, TypeOK, DevicesOK, OneServicePerDevice, RetiredOK

\* The calls that reach the framework without the supervisor.
LEMMA FrameworkStep ==
    ASSUME ServiceInv, NEW d \in Devices,
           \/ AddResourceCall(d) \/ PublishCall(d)
           \/ \E dr \in Drivers :
                \/ RevokeCall(d, dr)
                \/ \E out \in ProbeOutcomes : ProbeCall(d, dr, out)
                \/ \E ok \in BOOLEAN : SuspendCall(d, dr, ok) \/ ResumeCall(d, dr, ok)
                \/ \E out \in StopOutcomes : QuiesceCall(d, dr, out) \/ RemoveCall(d, dr, out)
                \/ \E out1, out2 \in StopOutcomes :
                     \/ HotUnplugCall(d, dr, out1, out2)
                     \/ \E new \in Drivers, out3 \in ProbeOutcomes :
                          RebindCall(d, dr, new, out1, out2, out3)
    PROVE  ServiceInv'
  <1>0. DeviceOK(devices[d])
    BY Zenon DEF ServiceInv, DevicesOK
  <1>1. CASE AddResourceCall(d)
    <2>1. PICK dev : dev = AddResource(devices[d])
      BY Zenon
    <2>2. DeviceOK(dev) /\ (CleanHost(devices[d]) => CleanHost(dev))
      BY Zenon, <1>0, <1>1, <2>1, AddResourceKeeps DEF AddResourceCall
    <2>3. OnDevice(d, dev, {})
      BY Zenon, <1>1, <2>1 DEF AddResourceCall
    <2> QED
      BY Zenon, <2>2, <2>3, OnDeviceStep
  <1>2. CASE PublishCall(d)
    <2>1. PICK dev : dev = Publish(devices[d])
      BY Zenon
    <2>2. DeviceOK(dev) /\ (CleanHost(devices[d]) => CleanHost(dev))
      BY Zenon, <1>0, <2>1, PublishKeeps
    <2>3. OnDevice(d, dev, {})
      BY Zenon, <1>2, <2>1 DEF PublishCall
    <2> QED
      BY Zenon, <2>2, <2>3, OnDeviceStep
  <1>3. ASSUME NEW dr \in Drivers, RevokeCall(d, dr) PROVE ServiceInv'
    <2>1. PICK dev : dev = Revoke(devices[d], dr)
      BY Zenon
    <2>2. DeviceOK(dev)
      BY Zenon, <1>0, <2>1, RevokeKeeps
    <2>3. OnDevice(d, dev, {"revoked"})
      BY Zenon, <1>3, <2>1 DEF RevokeCall
    <2>4. ~({"revoked"} \subseteq {"ok"})
      BY Zenon
    <2> QED
      BY Zenon, <2>2, <2>3, <2>4, OnDeviceStep
  <1>4. ASSUME NEW dr \in Drivers, NEW out \in ProbeOutcomes, ProbeCall(d, dr, out)
        PROVE  ServiceInv'
    <2>1. PICK dev : dev = Probe(devices[d], dr, out)
      BY Zenon
    <2>2. DeviceOK(dev) /\ (CleanHost(devices[d]) => CleanHost(dev))
      BY <1>0, <2>1, ProbeKeeps
    <2>3. OnDevice(d, dev, {})
      BY Zenon, <1>4, <2>1 DEF ProbeCall
    <2> QED
      BY Zenon, <2>2, <2>3, OnDeviceStep
  <1>5. ASSUME NEW dr \in Drivers, NEW ok \in BOOLEAN,
               SuspendCall(d, dr, ok) \/ ResumeCall(d, dr, ok)
        PROVE  ServiceInv'
    <2>1. PICK dev : /\ dev = Suspend(devices[d], dr, ok) \/ dev = Resume(devices[d], dr, ok)
                     /\ OnDevice(d, dev, {})
      BY Zenon, <1>5 DEF SuspendCall, ResumeCall
    <2>2. DeviceOK(dev) /\ (CleanHost(devices[d]) => CleanHost(dev))
      BY Zenon, <1>0, <2>1, SuspendResumeKeep
    <2> QED
      BY Zenon, <2>1, <2>2, OnDeviceStep
  <1>6. ASSUME NEW dr \in Drivers, NEW out \in StopOutcomes, QuiesceCall(d, dr, out)
        PROVE  ServiceInv'
    <2>1. PICK dev : dev = Quiesce(devices[d], dr, out)
      BY Zenon
    <2>2. DeviceOK(dev) /\ (CleanHost(devices[d]) /\ {out} \subseteq {"ok"} => CleanHost(dev))
      <3>1. {out} \subseteq {"ok"} => out = "ok"
        BY Zenon
      <3> QED
        BY <1>0, <2>1, <3>1, QuiesceKeeps
    <2>3. OnDevice(d, dev, {out})
      BY Zenon, <1>6, <2>1 DEF QuiesceCall
    <2> QED
      BY Zenon, <2>2, <2>3, OnDeviceStep
  <1>7. ASSUME NEW dr \in Drivers, NEW out \in StopOutcomes, RemoveCall(d, dr, out)
        PROVE  ServiceInv'
    <2>1. PICK dev : dev = RemoveDevice(devices[d], dr, out)
      BY Zenon
    <2>2. DeviceOK(dev) /\ (CleanHost(devices[d]) /\ {out} \subseteq {"ok"} => CleanHost(dev))
      <3>1. {out} \subseteq {"ok"} => out = "ok"
        BY Zenon
      <3> QED
        BY <1>0, <2>1, <3>1, RemoveKeeps
    <2>3. OnDevice(d, dev, {out})
      BY Zenon, <1>7, <2>1 DEF RemoveCall
    <2> QED
      BY Zenon, <2>2, <2>3, OnDeviceStep
  <1>8. ASSUME NEW dr \in Drivers, NEW out1 \in StopOutcomes, NEW out2 \in StopOutcomes,
               HotUnplugCall(d, dr, out1, out2)
        PROVE  ServiceInv'
    <2>1. PICK dev : dev = HotUnplug(devices[d], dr, out1, out2)
      BY Zenon
    <2>2. /\ DeviceOK(dev)
          /\ CleanHost(devices[d]) /\ {out1, out2} \subseteq {"ok"} => CleanHost(dev)
      BY <1>0, <2>1, UnplugKeeps
    <2>3. OnDevice(d, dev, {out1, out2})
      BY Zenon, <1>8, <2>1 DEF HotUnplugCall
    <2> QED
      BY Zenon, <2>2, <2>3, OnDeviceStep
  <1>9. ASSUME NEW dr \in Drivers, NEW out1 \in StopOutcomes, NEW out2 \in StopOutcomes,
               NEW new \in Drivers, NEW out3 \in ProbeOutcomes,
               RebindCall(d, dr, new, out1, out2, out3)
        PROVE  ServiceInv'
    <2>1. PICK dev : dev = Rebind(devices[d], dr, new, out1, out2, out3)
      BY Zenon
    <2>2. /\ DeviceOK(dev)
          /\ CleanHost(devices[d]) /\ {out1, out2} \subseteq {"ok"} => CleanHost(dev)
      BY <1>0, <2>1, RebindKeeps
    <2>3. OnDevice(d, dev, {out1, out2})
      BY Zenon, <1>9, <2>1 DEF RebindCall
    <2> QED
      BY Zenon, <2>2, <2>3, OnDeviceStep
  <1> QED
    BY Zenon, <1>1, <1>2, <1>3, <1>4, <1>5, <1>6, <1>7, <1>8, <1>9

-----------------------------------------------------------------------------
(* The theorems *)

\* No service is registered and no device is owned at boot.
LEMMA ServiceInitInv == ServiceInit => ServiceInv
  <1> SUFFICES ASSUME ServiceInit PROVE ServiceInv
    BY Zenon
  <1>1. DeviceOK(NewDevice) /\ CleanHost(NewDevice)
    BY Zenon, NoneListed DEF NewDevice, DeviceOK, CleanHost, DeviceRecords, DeviceStates
  <1>2. TypeOK
    BY <1>1, ServiceAssumption DEF ServiceInit, TypeOK, DeviceOK, ServiceSlots
  <1> QED
    BY Zenon, <1>1, <1>2
    DEF ServiceInit, ServiceInv, DevicesOK, OneServicePerDevice, RecordsOK, RetiredOK

\* Every operation of the registry and of the device manager keeps ServiceInv.
LEMMA ServiceNextInv == ServiceInv /\ [ServiceNext]_serviceVars => ServiceInv'
  <1> SUFFICES ASSUME ServiceInv, ServiceNext PROVE ServiceInv'
    BY Zenon DEF serviceVars, ServiceInv, TypeOK, DevicesOK, OneServicePerDevice, RecordsOK,
           RetiredOK
  <1>1. ASSUME NEW d \in Devices,
           \/ AddResourceCall(d) \/ PublishCall(d)
           \/ \E dr \in Drivers :
                \/ RevokeCall(d, dr)
                \/ \E out \in ProbeOutcomes : ProbeCall(d, dr, out)
                \/ \E ok \in BOOLEAN : SuspendCall(d, dr, ok) \/ ResumeCall(d, dr, ok)
                \/ \E out \in StopOutcomes : QuiesceCall(d, dr, out) \/ RemoveCall(d, dr, out)
                \/ \E out1, out2 \in StopOutcomes :
                     \/ HotUnplugCall(d, dr, out1, out2)
                     \/ \E new \in Drivers, out3 \in ProbeOutcomes :
                          RebindCall(d, dr, new, out1, out2, out3)
        PROVE  ServiceInv'
    BY Zenon, <1>1, FrameworkStep
  <1>2. CASE \E p \in Processes : Spawn(p) \/ ExitProcess(p) \/ Reap(p)
    BY Zenon, <1>2, ProcessStep
  <1>3. CASE \E d \in Devices, dr \in Drivers, p \in Processes : Register(d, dr, p)
    BY Zenon, <1>3, RegisterStep
  <1>4. CASE \E h \in Handles : Unregister(h)
    BY Zenon, <1>4, UnregisterStep
  <1>5. ASSUME NEW h \in Handles, NEW d \in Devices, NEW dr \in Drivers,
           \/ StartService(h, d, dr)
           \/ \E out \in StopOutcomes : QuiesceService(h, d, dr, out) \/ Stop(h, d, dr, out)
           \/ \E out \in ProbeOutcomes, p \in Processes : Restart(h, d, dr, p, out)
           \/ \E out1, out2 \in StopOutcomes : RecoverCrash(h, d, dr, out1, out2)
        PROVE  ServiceInv'
    BY Zenon, <1>5, StartStep, QuiesceStep, StopStep, RestartStep, RecoverCrashStep
  <1> QED
    BY Zenon, <1>1, <1>2, <1>3, <1>4, <1>5 DEF ServiceNext

\* ServiceInv is an invariant.
LEMMA ServiceInvHolds == ServiceSpec => []ServiceInv
  BY ServiceInitInv, ServiceNextInv, PTL DEF ServiceSpec

\* register, start, quiesce, stop and the framework below them: an endpoint is
\* active only while its device is ready, published and bound to the driver of
\* its service, for which no other service stands; a device without a driver
\* is unpublished and empty.
THEOREM EndpointsAreBacked == ServiceSpec => []EndpointBacked
  <1>1. ServiceInv => EndpointBacked
    BY Zenon DEF ServiceInv, EndpointBacked, DevicesOK, DeviceOK, OneServicePerDevice,
           RecordsOK, RecordOK
  <1> QED
    BY <1>1, ServiceInvHolds, PTL

\* stop: a service that stopped cleanly has left no lease, controller or live
\* process, even after restarts that failed; the controller of a running
\* service runs, unless a teardown failed to halt it or gave it up.
THEOREM NothingIsLeft == ServiceSpec => []StoppedLeavesNothing
  <1>1. ServiceInv => StoppedLeavesNothing
    BY Zenon DEF ServiceInv, StoppedLeavesNothing, DevicesOK, CleanHost, RecordsOK, RecordOK,
           TypeOK, ServiceRecords
  <1> QED
    BY <1>1, ServiceInvHolds, PTL

\* unregister: the handle of an unregistered service never resolves again, as
\* long as its generation is not the last of its slot.
THEOREM HandlesGoStale == ServiceSpec => []StaleHandlesRejected
  <1>1. ServiceInv => StaleHandlesRejected
    BY ServiceAssumption
    DEF ServiceInv, StaleHandlesRejected, RetiredOK, Resolves, TypeOK, Handles
  <1> QED
    BY <1>1, ServiceInvHolds, PTL

-----------------------------------------------------------------------------
(* IPC queues *)

Slots == 0 .. Capacity - 1

\* The slot that is i steps after slot h.
At(h, i) == (h + i) % Capacity

\* tail is length steps after head and the slots between them hold messages.
RingOK(r) ==
    /\ r \in [slots : {r.slots}, head : Slots, tail : Slots, length : 0 .. Capacity]
    /\ r.tail = At(r.head, r.length)
    /\ \A i \in 0 .. r.length - 1 :
        At(r.head, i) \in DOMAIN r.slots /\ r.slots[At(r.head, i)] \in Lengths

\* A wait queue holds distinct threads of one side.
QueueOK(q, S) ==
    /\ DOMAIN q \subseteq 0 .. WaitSlots - 1
    /\ q \in [DOMAIN q -> S]
    /\ \A s, t \in DOMAIN q : q[s] = q[t] => s = t

\* The inductive invariant: besides the ring and the counts of NoLostWakeup,
\* the blocked threads of a side are those of its wait queue, and nobody waits
\* for room in an event queue.
IpcInv ==
    /\ kind \in {"channel", "ring", "event"}
    /\ RingOK(ring)
    /\ senders \in BOOLEAN /\ receivers \in BOOLEAN /\ gaveUp \in BOOLEAN
    /\ client \in [Putters \cup Takers -> {"runs", "blocked", "woken"}]
    /\ QueueOK(putWaiters, Putters) /\ QueueOK(takeWaiters, Takers)
    /\ \A c \in Putters : client[c] = "blocked" <=> c \in Waiting(putWaiters)
    /\ \A c \in Takers : client[c] = "blocked" <=> c \in Waiting(takeWaiters)
    /\ kind = "event" => DOMAIN putWaiters = {}
    /\ NoLostWakeup

-----------------------------------------------------------------------------
(* The circular buffer is a queue *)

\* Steps around the ring: at most one turn, no slot twice within a turn.
LEMMA AtIs ==
    ASSUME NEW h \in Slots, NEW i \in 0 .. Capacity
    PROVE  /\ At(h, i) = IF h + i >= Capacity THEN h + i - Capacity ELSE h + i
           /\ At(h, i) \in Slots
  BY IpcAssumption DEF At, Slots

\* Places less than a turn apart are different slots of the ring.
LEMMA AtDistinct ==
    ASSUME NEW h \in Slots, NEW i \in 0 .. Capacity - 1, NEW j \in 0 .. Capacity,
           At(h, i) = At(h, j)
    PROVE  i = j \/ (i = 0 /\ j = Capacity)
  <1>1. h \in 0 .. Capacity - 1 /\ i \in 0 .. Capacity /\ Capacity \in Nat \ {0}
    BY IpcAssumption DEF Slots
  <1>2. At(h, i) = IF h + i >= Capacity THEN h + i - Capacity ELSE h + i
    BY Zenon, <1>1, AtIs
  <1>3. At(h, j) = IF h + j >= Capacity THEN h + j - Capacity ELSE h + j
    BY Zenon, AtIs
  <1>4. (IF h + i >= Capacity THEN h + i - Capacity ELSE h + i)
          = (IF h + j >= Capacity THEN h + j - Capacity ELSE h + j)
    BY Zenon, <1>2, <1>3
  <1> QED
    BY <1>1, <1>4

\* Stepping a slot, or the head of the ring, by one.
LEMMA AtNext ==
    ASSUME NEW h \in Slots, NEW i \in 0 .. Capacity - 1
    PROVE  (At(h, i) + 1) % Capacity = At(h, i + 1) /\ At(At(h, 1), i) = At(h, i + 1)
  <1>1. /\ h \in 0 .. Capacity - 1 /\ Capacity \in Nat \ {0}
        /\ i \in 0 .. Capacity /\ i + 1 \in 0 .. Capacity /\ 1 \in 0 .. Capacity
    BY IpcAssumption DEF Slots
  <1>2. /\ At(h, i) = IF h + i >= Capacity THEN h + i - Capacity ELSE h + i
        /\ At(h, i) \in Slots
    BY Zenon, <1>1, AtIs
  <1>3. At(h, i + 1) = IF h + (i + 1) >= Capacity THEN h + (i + 1) - Capacity
                       ELSE h + (i + 1)
    BY Zenon, <1>1, AtIs
  <1>4. /\ At(h, 1) = IF h + 1 >= Capacity THEN h + 1 - Capacity ELSE h + 1
        /\ At(h, 1) \in Slots
    BY Zenon, <1>1, AtIs
  <1>5. At(At(h, 1), i) = IF At(h, 1) + i >= Capacity THEN At(h, 1) + i - Capacity
                          ELSE At(h, 1) + i
    BY Zenon, <1>1, <1>4, AtIs
  <1>6. At(At(h, i), 1) = IF At(h, i) + 1 >= Capacity THEN At(h, i) + 1 - Capacity
                          ELSE At(h, i) + 1
    BY Zenon, <1>1, <1>2, AtIs
  <1>7. At(At(h, i), 1) = At(h, i + 1)
    BY <1>1, <1>2, <1>3, <1>6
  <1>8. At(At(h, 1), i) = At(h, i + 1)
    BY <1>1, <1>3, <1>4, <1>5
  <1> QED
    BY Zenon, <1>7, <1>8 DEF At

\* The unread messages are a sequence as long as the ring says.
LEMMA ContentsIs ==
    ASSUME NEW r, RingOK(r)
    PROVE  /\ Contents(r) \in Seq(Lengths) /\ Len(Contents(r)) = r.length
           /\ \A i \in 1 .. r.length : Contents(r)[i] = r.slots[At(r.head, i - 1)]
  <1>1. r.length \in Nat /\ r.head \in Nat
    BY IpcAssumption DEF RingOK, Slots
  <1>2. \A i \in 1 .. r.length : r.head + i - 1 = r.head + (i - 1) /\ i - 1 \in 0 .. r.length - 1
    BY <1>1
  <1>3. Contents(r) = [i \in 1 .. r.length |-> r.slots[At(r.head, i - 1)]]
    BY Zenon, <1>2 DEF Contents, At
  <1>4. \A i \in 1 .. r.length : r.slots[At(r.head, i - 1)] \in Lengths
    BY Zenon, <1>2 DEF RingOK
  <1> QED
    BY <1>1, <1>3, <1>4

\* Sequences of one length with the same elements are the same.
LEMMA SeqEqual ==
    ASSUME NEW S, NEW a \in Seq(S), NEW b \in Seq(S), Len(a) = Len(b),
           \A i \in 1 .. Len(a) : a[i] = b[i]
    PROVE  a = b
  OBVIOUS

\* send, publish, push: the message goes behind the others, which stay.
LEMMA PushedIs ==
    ASSUME NEW r, RingOK(r), ~Full(r), NEW m \in Lengths
    PROVE  RingOK(Pushed(r, m)) /\ Contents(Pushed(r, m)) = Append(Contents(r), m)
  <1> DEFINE C == Capacity
             n == Pushed(r, m)
  <1>1. /\ r.head \in Slots /\ r.tail \in Slots /\ r.length \in 0 .. C - 1
        /\ C \in Nat \ {0} /\ r.tail = At(r.head, r.length)
    BY IpcAssumption DEF RingOK, Full
  <1>2. /\ n.head = r.head /\ n.tail = (r.tail + 1) % C /\ n.length = r.length + 1
        /\ n.slots = [s \in DOMAIN r.slots \cup {r.tail} |->
                         IF s = r.tail THEN m ELSE r.slots[s]]
        /\ n \in [slots : {n.slots}, head : {n.head}, tail : {n.tail}, length : {n.length}]
    BY Zenon DEF RingOK, Pushed
  <1>3. n.tail = At(n.head, n.length)
    BY <1>1, <1>2, AtNext
  <1>4. n.length \in 0 .. C /\ n.tail \in Slots
    BY <1>1, <1>2, <1>3, AtIs
  <1>5. \A i \in 0 .. r.length - 1 : At(r.head, i) # r.tail
    BY <1>1, AtDistinct
  <1>6. \A i \in 0 .. r.length - 1 :
            At(r.head, i) \in DOMAIN n.slots /\ n.slots[At(r.head, i)] = r.slots[At(r.head, i)]
    BY Zenon, <1>2, <1>5 DEF RingOK
  <1>7. r.tail \in DOMAIN n.slots /\ n.slots[r.tail] = m
    BY Zenon, <1>2
  <1>8. \A i \in 0 .. n.length - 1 : i = r.length \/ i \in 0 .. r.length - 1
    BY <1>1, <1>2
  <1>9. RingOK(n)
    BY <1>1, <1>2, <1>3, <1>4, <1>6, <1>7, <1>8 DEF RingOK
  <1> HIDE DEF n
  <1>10. \A i \in 1 .. n.length : Contents(n)[i] = Append(Contents(r), m)[i]
    <2> SUFFICES ASSUME NEW i \in 1 .. n.length
                 PROVE  Contents(n)[i] = Append(Contents(r), m)[i]
      BY Zenon
    <2>1. Contents(n)[i] = n.slots[At(r.head, i - 1)]
      <3>1. \A k \in 1 .. n.length : Contents(n)[k] = n.slots[At(n.head, k - 1)]
        BY Zenon, <1>9, ContentsIs
      <3> QED
        BY Zenon, <1>2, <3>1
    <2>2. CASE i = r.length + 1
      BY <1>1, <1>7, <2>1, <2>2, ContentsIs
    <2>3. CASE i \in 1 .. r.length
      <3>1. i - 1 \in 0 .. r.length - 1
        BY <1>1, <2>3
      <3>2. Contents(r)[i] = r.slots[At(r.head, i - 1)]
        BY Zenon, <2>3, ContentsIs
      <3> QED
        BY <1>1, <1>6, <2>1, <2>3, <3>1, <3>2, ContentsIs
    <2>4. n.length = r.length + 1 /\ r.length \in Nat
      BY <1>1, <1>2
    <2>5. i = r.length + 1 \/ i \in 1 .. r.length
      BY <2>4
    <2> QED
      BY Zenon, <2>2, <2>3, <2>5
  <1>11. /\ Contents(n) \in Seq(Lengths) /\ Len(Contents(n)) = n.length
         /\ Contents(r) \in Seq(Lengths) /\ Len(Contents(r)) = r.length
    BY Zenon, <1>9, ContentsIs
  <1>12. /\ Append(Contents(r), m) \in Seq(Lengths)
         /\ Len(Append(Contents(r), m)) = r.length + 1
    BY <1>11
  <1>13. Len(Append(Contents(r), m)) = n.length
    BY Zenon, <1>2, <1>12
  <1>14. Contents(n) = Append(Contents(r), m)
    BY Zenon, <1>10, <1>11, <1>12, <1>13, SeqEqual
  <1> QED
    BY Zenon, <1>9, <1>14 DEF n

\* receive, consume, pop: the oldest message leaves, the others stay.
LEMMA PoppedIs ==
    ASSUME NEW r, RingOK(r), r.length > 0
    PROVE  /\ RingOK(Popped(r)) /\ Contents(Popped(r)) = Tail(Contents(r))
           /\ Contents(r) # <<>> /\ Popped(r).length = r.length - 1
  <1> DEFINE C == Capacity
             n == Popped(r)
  <1>1. /\ r.head \in Slots /\ r.tail \in Slots /\ r.length \in 1 .. C
        /\ C \in Nat \ {0} /\ r.tail = At(r.head, r.length)
    BY IpcAssumption DEF RingOK
  <1>2. /\ n.head = At(r.head, 1) /\ n.tail = r.tail /\ n.length = r.length - 1
        /\ n.slots = [s \in DOMAIN r.slots \ {r.head} |-> r.slots[s]]
        /\ n \in [slots : {n.slots}, head : {n.head}, tail : {n.tail}, length : {n.length}]
    BY Zenon DEF RingOK, Popped, At
  <1>3. n.head \in Slots /\ n.length \in 0 .. C /\ n.length \in 0 .. C - 1
    BY SMTT(30), <1>1, <1>2, AtIs
  <1>4. \A i \in 0 .. n.length : At(n.head, i) = At(r.head, i + 1)
    BY <1>1, <1>2, AtNext
  <1>5. n.length \in 0 .. n.length /\ n.length + 1 = r.length
    BY <1>1, <1>2
  <1>6. n.tail = At(n.head, n.length)
    BY Zenon, <1>1, <1>2, <1>4, <1>5
  <1>7. r.head = At(r.head, 0)
    BY <1>1 DEF Slots, At
  <1>8. \A i \in 1 .. r.length - 1 : At(r.head, i) # r.head
    BY <1>1, <1>7, AtDistinct
  <1>9. \A i \in 0 .. n.length - 1 :
            /\ At(n.head, i) \in DOMAIN n.slots
            /\ n.slots[At(n.head, i)] = r.slots[At(r.head, i + 1)]
            /\ n.slots[At(n.head, i)] \in Lengths
    <2> SUFFICES ASSUME NEW i \in 0 .. n.length - 1
                 PROVE  /\ At(n.head, i) \in DOMAIN n.slots
                        /\ n.slots[At(n.head, i)] = r.slots[At(r.head, i + 1)]
                        /\ n.slots[At(n.head, i)] \in Lengths
      BY Zenon
    <2>1. /\ i + 1 \in 1 .. r.length - 1 /\ i + 1 \in 0 .. r.length - 1
          /\ i \in 0 .. n.length
      BY <1>1, <1>2
    <2>2. /\ At(r.head, i + 1) \in DOMAIN r.slots
          /\ r.slots[At(r.head, i + 1)] \in Lengths
      BY Zenon, <2>1 DEF RingOK
    <2> QED
      BY <1>2, <1>4, <1>8, <2>1, <2>2
  <1>10. RingOK(n)
    BY Zenon, <1>1, <1>2, <1>3, <1>6, <1>9 DEF RingOK
  <1> HIDE DEF n
  <1>11. /\ Contents(n) \in Seq(Lengths) /\ Len(Contents(n)) = n.length
         /\ \A i \in 1 .. n.length : Contents(n)[i] = n.slots[At(n.head, i - 1)]
    BY Zenon, <1>10, ContentsIs
  <1>12. /\ Contents(r) \in Seq(Lengths) /\ Len(Contents(r)) = r.length
         /\ \A i \in 1 .. r.length : Contents(r)[i] = r.slots[At(r.head, i - 1)]
    BY Zenon, ContentsIs
  <1>13. /\ Contents(r) # <<>> /\ Tail(Contents(r)) \in Seq(Lengths)
         /\ Len(Tail(Contents(r))) = n.length
         /\ \A i \in 1 .. n.length : Tail(Contents(r))[i] = Contents(r)[i + 1]
    BY <1>1, <1>2, <1>12
  <1>14. \A i \in 1 .. n.length : Contents(n)[i] = Tail(Contents(r))[i]
    <2> SUFFICES ASSUME NEW i \in 1 .. n.length
                 PROVE  Contents(n)[i] = Tail(Contents(r))[i]
      BY Zenon
    <2>1. /\ i - 1 \in 0 .. n.length - 1 /\ (i - 1) + 1 = i
          /\ i + 1 \in 1 .. r.length /\ (i + 1) - 1 = i
      BY <1>1, <1>2
    <2> QED
      BY <1>9, <1>11, <1>12, <1>13, <2>1
  <1>15. Contents(n) = Tail(Contents(r))
    BY Zenon, <1>11, <1>13, <1>14, SeqEqual
  <1> QED
    BY Zenon, <1>2, <1>10, <1>13, <1>15 DEF n

-----------------------------------------------------------------------------
(* The wait queues *)

\* Least is the least element of a set of slots.
LEMMA LeastIs ==
    ASSUME NEW F \in SUBSET Nat, F # {}
    PROVE  Least(F) \in F /\ \A y \in F : Least(F) <= y
  <1>1. \E x \in F : \A y \in F : x <= y
    <2>1. IsWellFoundedOn(OpToRel(<, Nat), Nat)
      BY Zenon, NatLessThanWellFounded
    <2>2. PICK x \in F : \A y \in F : ~(<<y, x>> \in OpToRel(<, Nat))
      BY Zenon, <2>1, WFMin
    <2>3. \A y \in F : ~(y < x)
      BY Zenon, <2>2 DEF OpToRel
    <2> QED
      BY <2>3
  <1> QED
    BY Zenon, <1>1 DEF Least

\* wake_one: exactly one thread leaves a queue that is not empty.
LEMMA WakeOneIs ==
    ASSUME NEW S, NEW q, QueueOK(q, S)
    PROVE  /\ QueueOK(WakeOne(q), S)
           /\ Waiting(WakeOne(q)) = Waiting(q) \ Woken(q)
           /\ DOMAIN q = {} => Woken(q) = {} /\ DOMAIN WakeOne(q) = {}
           /\ DOMAIN q # {} => \E w \in Waiting(q) : Woken(q) = {w}
  <1>1. CASE DOMAIN q = {}
    BY Zenon, <1>1 DEF QueueOK, WakeOne, Waiting, Woken
  <1>2. CASE DOMAIN q # {}
    <2>1. DOMAIN q \in SUBSET Nat
      BY WaitAssumption DEF QueueOK
    <2>2. PICK l \in DOMAIN q : l = Least(DOMAIN q) /\ \A y \in DOMAIN q : l <= y
      BY Zenon, <1>2, <2>1, LeastIs
    <2>3. {x \in DOMAIN q : \E y \in DOMAIN q : y < x} = DOMAIN q \ {l}
      BY <2>1, <2>2
    <2>4. WakeOne(q) = [s \in DOMAIN q \ {l} |-> q[s]] /\ Woken(q) = {q[l]}
      BY Zenon, <1>2, <2>2, <2>3 DEF WakeOne, Woken
    <2> QED
      BY <1>2, <2>4 DEF QueueOK, Waiting
  <1> QED
    BY Zenon, <1>1, <1>2

\* enqueue: the thread takes a free slot.
LEMMA EnqueueIs ==
    ASSUME NEW S, NEW q, QueueOK(q, S), NEW w \in S, CanEnqueue(q, w)
    PROVE  /\ QueueOK(Enqueue(q, w), S)
           /\ Waiting(Enqueue(q, w)) = Waiting(q) \cup {w}
           /\ DOMAIN Enqueue(q, w) # {}
  <1> DEFINE F == (0 .. WaitSlots - 1) \ DOMAIN q
  <1>1. F \in SUBSET Nat /\ F # {}
    <2>1. DOMAIN q \subseteq 0 .. WaitSlots - 1 /\ DOMAIN q # 0 .. WaitSlots - 1
      BY Zenon DEF QueueOK, CanEnqueue
    <2>2. 0 .. WaitSlots - 1 \subseteq Nat
      BY WaitAssumption
    <2> QED
      BY Zenon, <2>1, <2>2
  <1>2. PICK l \in F : l = Least(F)
    BY Zenon, <1>1, LeastIs
  <1>3. Enqueue(q, w) = [s \in DOMAIN q \cup {l} |-> IF s = l THEN w ELSE q[s]]
    BY Zenon, <1>2 DEF Enqueue
  <1>4. /\ l \in 0 .. WaitSlots - 1 /\ l \notin DOMAIN q
        /\ \A s \in DOMAIN q : q[s] # w /\ q[s] \in S
    BY Zenon, <1>2 DEF CanEnqueue, Waiting, QueueOK
  <1>5. QueueOK(Enqueue(q, w), S)
    BY <1>3, <1>4 DEF QueueOK
  <1>6. Waiting(Enqueue(q, w)) = Waiting(q) \cup {w}
    BY <1>3, <1>4 DEF Waiting
  <1> QED
    BY Zenon, <1>3, <1>5, <1>6

\* How the number of woken threads changes when one thread stops being woken,
\* and when one more is.
LEMMA CountDrops ==
    ASSUME NEW A, NEW B, NEW c, IsFiniteSet(B), A \subseteq B \cup {c}
    PROVE  /\ Cardinality(A) \in Nat /\ Cardinality(B) \in Nat
           /\ Cardinality(A) <= Cardinality(B) + 1
  <1>1. /\ IsFiniteSet(B \cup {c})
        /\ Cardinality(B \cup {c}) = Cardinality(B) \/ Cardinality(B \cup {c}) = Cardinality(B) + 1
    BY Zenon, FS_AddElement
  <1>2. IsFiniteSet(A) /\ Cardinality(A) <= Cardinality(B \cup {c})
    BY Zenon, <1>1, FS_Subset
  <1>3. Cardinality(A) \in Nat /\ Cardinality(B) \in Nat
    BY Zenon, <1>2, FS_CardinalityType
  <1> QED
    BY <1>1, <1>2, <1>3

\* A set with one more member is larger.
LEMMA CountGrows ==
    ASSUME NEW A, NEW B, NEW w, IsFiniteSet(B), A \cup {w} \subseteq B, w \notin A
    PROVE  /\ Cardinality(A) \in Nat /\ Cardinality(B) \in Nat
           /\ Cardinality(A) + 1 <= Cardinality(B)
  <1>1. IsFiniteSet(A) /\ IsFiniteSet(A \cup {w})
    BY Zenon, FS_Subset
  <1>2. Cardinality(A \cup {w}) = Cardinality(A) + 1
    BY Zenon, <1>1, FS_AddElement
  <1>3. Cardinality(A \cup {w}) <= Cardinality(B)
    BY Zenon, FS_Subset
  <1>4. Cardinality(A) \in Nat /\ Cardinality(B) \in Nat
    BY Zenon, <1>1, FS_CardinalityType
  <1> QED
    BY Zenon, <1>2, <1>3, <1>4

-----------------------------------------------------------------------------
(* The calls keep the invariant *)

\* The states of the threads after a call.
LEMMA AfterType ==
    ASSUME client \in [Putters \cup Takers -> {"runs", "blocked", "woken"}],
           NEW c, NEW st \in {"runs", "blocked", "woken"}, NEW woken,
           client' = After(client, c, st, woken)
    PROVE  client' \in [Putters \cup Takers -> {"runs", "blocked", "woken"}]
  BY Zenon DEF After

\* A side whose queue is woken once: its blocked threads stay those of the
\* queue, and if anybody was waiting one more thread is woken.
LEMMA WakeSide ==
    ASSUME NEW S, IsFiniteSet(S), S \subseteq Putters \cup Takers,
           NEW q, QueueOK(q, S), NEW c, c \notin S,
           client \in [Putters \cup Takers -> {"runs", "blocked", "woken"}],
           \A x \in S : client[x] = "blocked" <=> x \in Waiting(q),
           client' = After(client, c, "runs", Woken(q))
    PROVE  /\ \A x \in S : client'[x] = "blocked" <=> x \in Waiting(WakeOne(q))
           /\ WokenAmong(S) \in Nat /\ WokenAmong(S)' \in Nat
           /\ WokenAmong(S) <= WokenAmong(S)'
           /\ DOMAIN q # {} => WokenAmong(S) + 1 <= WokenAmong(S)'
  <1> DEFINE A == {x \in S : client[x] = "woken"}
             B == {x \in S : client'[x] = "woken"}
  <1>1. \A x \in S : client'[x] = IF x \in Woken(q) THEN "woken" ELSE client[x]
    <2>1. \A x \in Putters \cup Takers :
              client'[x] = IF x \in Woken(q) THEN "woken" ELSE IF x = c THEN "runs" ELSE client[x]
      BY Zenon DEF After
    <2> QED
      BY Zenon, <2>1
  <1>2. \A x \in S : client'[x] = "blocked" <=> x \in Waiting(WakeOne(q))
    BY Zenon, <1>1, WakeOneIs
  <1>3. IsFiniteSet(A) /\ IsFiniteSet(B) /\ A \subseteq B
    BY Zenon, <1>1, FS_Subset
  <1>4. /\ Cardinality(A) \in Nat /\ Cardinality(B) \in Nat
        /\ Cardinality(A) <= Cardinality(B)
    BY Zenon, <1>3, FS_Subset, FS_CardinalityType
  <1>5. ASSUME DOMAIN q # {} PROVE Cardinality(A) + 1 <= Cardinality(B)
    <2>1. PICK w \in Waiting(q) : Woken(q) = {w}
      BY Zenon, <1>5, WakeOneIs
    <2>2. w \in S
      BY <2>1 DEF Waiting, QueueOK
    <2>3. w \notin A /\ w \in B
      BY Zenon, <1>1, <2>1, <2>2
    <2> QED
      BY <1>3, <2>3, CountGrows
  <1> QED
    BY Zenon, <1>2, <1>4, <1>5 DEF WokenAmong

\* A side one of whose threads calls, and none of whose threads is woken.
LEMMA CallSide ==
    ASSUME NEW S, IsFiniteSet(S), S \subseteq Putters \cup Takers,
           NEW c, NEW st \in {"runs", "blocked"}, NEW woken, woken \cap S = {},
           client \in [Putters \cup Takers -> {"runs", "blocked", "woken"}],
           client' = After(client, c, st, woken)
    PROVE  /\ \A x \in S : client'[x] = IF x = c THEN st ELSE client[x]
           /\ WokenAmong(S) \in Nat /\ WokenAmong(S)' \in Nat
           /\ WokenAmong(S) <= WokenAmong(S)' + 1
           /\ c \notin S => WokenAmong(S)' = WokenAmong(S)
  <1> DEFINE A == {x \in S : client[x] = "woken"}
             B == {x \in S : client'[x] = "woken"}
  <1>1. \A x \in S : client'[x] = IF x = c THEN st ELSE client[x]
    <2>1. \A x \in Putters \cup Takers :
              client'[x] = IF x \in woken THEN "woken" ELSE IF x = c THEN st ELSE client[x]
      BY Zenon DEF After
    <2>2. \A x \in S : x \notin woken
      BY Zenon
    <2> QED
      BY Zenon, <2>1, <2>2
  <1>2. IsFiniteSet(B) /\ A \subseteq B \cup {c} /\ (c \notin S => A = B)
    BY Zenon, <1>1, FS_Subset
  <1>3. /\ Cardinality(A) \in Nat /\ Cardinality(B) \in Nat
        /\ Cardinality(A) <= Cardinality(B) + 1
    BY Zenon, <1>2, CountDrops
  <1> QED
    BY SMTT(30), <1>1, <1>2, <1>3 DEF WokenAmong

\* The assumptions on threads and capacity, as the steps use them.
LEMMA Sides ==
    /\ IsFiniteSet(Putters) /\ IsFiniteSet(Takers)
    /\ Putters \cap Takers = {} /\ NoThread \notin Putters /\ NoThread \notin Takers
    /\ Capacity \in Nat \ {0}
  BY Zenon, IpcAssumption

\* send, publish, push: one more item, one more woken receiver if any waits.
LEMMA PutStep ==
    ASSUME IpcInv, NEW c \in Putters, NEW m \in Lengths, Put(c, m)
    PROVE  IpcInv'
  <1>1. /\ client[c] # "blocked" /\ ~Full(ring) /\ ring' = Pushed(ring, m)
        /\ takeWaiters' = WakeOne(takeWaiters)
        /\ client' = After(client, c, "runs", Woken(takeWaiters))
        /\ UNCHANGED <<kind, senders, receivers, putWaiters, gaveUp>>
    BY Zenon DEF Put, ends
  <1>2. RingOK(ring') /\ ring'.length = ring.length + 1 /\ ring.length \in 0 .. Capacity
    <2>1. Pushed(ring, m).length = ring.length + 1 /\ ring.length \in 0 .. Capacity
      BY Zenon DEF IpcInv, RingOK, Pushed
    <2> QED
      BY Zenon, <1>1, <2>1, PushedIs DEF IpcInv
  <1>3. Woken(takeWaiters) \subseteq Takers /\ QueueOK(takeWaiters', Takers)
    <2>1. Woken(takeWaiters) \subseteq Waiting(takeWaiters) /\ QueueOK(takeWaiters', Takers)
      BY Zenon, <1>1, WakeOneIs DEF IpcInv
    <2> QED
      BY <2>1 DEF IpcInv, Waiting, QueueOK
  <1>4. client' \in [Putters \cup Takers -> {"runs", "blocked", "woken"}]
    BY Zenon, <1>1, AfterType DEF IpcInv
  <1>5. /\ \A x \in Takers : client'[x] = "blocked" <=> x \in Waiting(takeWaiters')
        /\ WokenAmong(Takers) \in Nat /\ WokenAmong(Takers)' \in Nat
        /\ DOMAIN takeWaiters # {} => WokenAmong(Takers) + 1 <= WokenAmong(Takers)'
    BY <1>1, Sides, WakeSide DEF IpcInv
  <1>6. /\ \A x \in Putters : client'[x] = IF x = c THEN "runs" ELSE client[x]
        /\ WokenAmong(Putters) \in Nat /\ WokenAmong(Putters)' \in Nat
        /\ WokenAmong(Putters) <= WokenAmong(Putters)' + 1
    BY <1>1, <1>3, Sides, CallSide DEF IpcInv
  <1>7. \A x \in Putters : client'[x] = "blocked" <=> x \in Waiting(putWaiters')
    BY Zenon, <1>1, <1>6 DEF IpcInv
  <1>8. DOMAIN takeWaiters' # {} => DOMAIN takeWaiters # {}
    BY Zenon, <1>1, WakeOneIs DEF IpcInv
  <1>9. NoLostWakeup'
    <2>1. NoLostWakeup
      BY Zenon DEF IpcInv
    <2> SUFFICES ASSUME receivers', ~gaveUp'
                 PROVE  /\ DOMAIN takeWaiters' # {} => ring'.length <= WokenAmong(Takers)'
                        /\ DOMAIN putWaiters' # {} =>
                             Capacity - ring'.length <= WokenAmong(Putters)'
      BY Zenon DEF NoLostWakeup
    <2>2. DOMAIN takeWaiters' # {} => ring.length <= WokenAmong(Takers)
      BY Zenon, <1>1, <1>8, <2>1 DEF NoLostWakeup
    <2>3. DOMAIN putWaiters' # {} => Capacity - ring.length <= WokenAmong(Putters)
      BY Zenon, <1>1, <2>1 DEF NoLostWakeup
    <2> QED
      BY <1>2, <1>5, <1>6, <1>8, <2>2, <2>3, Sides
  <1> QED
    BY Zenon, <1>1, <1>2, <1>3, <1>4, <1>5, <1>7, <1>9 DEF IpcInv

\* receive, consume, pop: one more free slot, one more woken sender if any
\* waits; the receiver that took the item may have been a woken one.
LEMMA TakeStep ==
    ASSUME IpcInv, NEW c \in Takers, NEW size \in Buffers, Take(c, size)
    PROVE  IpcInv'
  <1>0. DEFINE woken == IF kind = "event" THEN {} ELSE Woken(putWaiters)
  <1>1. /\ client[c] # "blocked" /\ ring.length > 0 /\ ring' = Popped(ring)
        /\ client' = After(client, c, "runs", woken)
        /\ UNCHANGED <<kind, senders, receivers, takeWaiters, gaveUp>>
    BY Zenon DEF Take, ends
  <1>2. RingOK(ring') /\ ring'.length = ring.length - 1 /\ ring.length \in 0 .. Capacity
    BY Zenon, <1>1, PoppedIs DEF IpcInv, RingOK
  <1>3. /\ putWaiters' = WakeOne(putWaiters) /\ woken = Woken(putWaiters)
        /\ kind = "event" => DOMAIN putWaiters' = {}
    <2>1. CASE kind = "event"
      <3>1. putWaiters' = putWaiters /\ DOMAIN putWaiters = {}
        BY Zenon, <2>1 DEF Take, IpcInv
      <3>2. WakeOne(putWaiters) = putWaiters
        BY Zenon, <3>1 DEF WakeOne, IpcInv, QueueOK
      <3> QED
        BY Zenon, <2>1, <3>1, <3>2 DEF Woken
    <2>2. CASE kind # "event"
      BY Zenon, <2>2 DEF Take
    <2> QED
      BY Zenon, <2>1, <2>2
  <1> HIDE DEF woken
  <1>4. woken \subseteq Putters /\ QueueOK(putWaiters', Putters)
    <2>1. Woken(putWaiters) \subseteq Waiting(putWaiters) /\ QueueOK(putWaiters', Putters)
      BY Zenon, <1>3, WakeOneIs DEF IpcInv
    <2> QED
      BY <1>3, <2>1 DEF IpcInv, Waiting, QueueOK
  <1>5. client' \in [Putters \cup Takers -> {"runs", "blocked", "woken"}]
    BY SMTT(30), <1>1, AfterType DEF IpcInv
  <1>6. /\ \A x \in Putters : client'[x] = "blocked" <=> x \in Waiting(putWaiters')
        /\ WokenAmong(Putters) \in Nat /\ WokenAmong(Putters)' \in Nat
        /\ DOMAIN putWaiters # {} => WokenAmong(Putters) + 1 <= WokenAmong(Putters)'
    BY <1>1, <1>3, Sides, WakeSide DEF IpcInv
  <1>7. /\ \A x \in Takers : client'[x] = IF x = c THEN "runs" ELSE client[x]
        /\ WokenAmong(Takers) \in Nat /\ WokenAmong(Takers)' \in Nat
        /\ WokenAmong(Takers) <= WokenAmong(Takers)' + 1
    BY <1>1, <1>4, Sides, CallSide DEF IpcInv
  <1>8. \A x \in Takers : client'[x] = "blocked" <=> x \in Waiting(takeWaiters')
    BY Zenon, <1>1, <1>7 DEF IpcInv
  <1>9. DOMAIN putWaiters' # {} => DOMAIN putWaiters # {}
    BY Zenon, <1>3, WakeOneIs DEF IpcInv
  <1>10. NoLostWakeup'
    <2>1. NoLostWakeup
      BY Zenon DEF IpcInv
    <2> SUFFICES ASSUME receivers', ~gaveUp'
                 PROVE  /\ DOMAIN takeWaiters' # {} => ring'.length <= WokenAmong(Takers)'
                        /\ DOMAIN putWaiters' # {} =>
                             Capacity - ring'.length <= WokenAmong(Putters)'
      BY Zenon DEF NoLostWakeup
    <2>2. DOMAIN takeWaiters' # {} => ring.length <= WokenAmong(Takers)
      BY Zenon, <1>1, <2>1 DEF NoLostWakeup
    <2>3. DOMAIN putWaiters' # {} => Capacity - ring.length <= WokenAmong(Putters)
      BY Zenon, <1>1, <1>9, <2>1 DEF NoLostWakeup
    <2> QED
      BY <1>2, <1>6, <1>7, <1>9, <2>2, <2>3, Sides
  <1> QED
    BY Zenon, <1>1, <1>2, <1>3, <1>4, <1>5, <1>6, <1>8, <1>10 DEF IpcInv

\* A sender blocks on a full queue: no free slot needs a woken sender.
LEMMA PutBlocksStep ==
    ASSUME IpcInv, NEW c \in Putters, NEW m \in Lengths, PutBlocks(c, m)
    PROVE  IpcInv'
  <1>1. /\ kind # "event" /\ Full(ring) /\ CanEnqueue(putWaiters, c)
        /\ putWaiters' = Enqueue(putWaiters, c)
        /\ client' = After(client, c, "blocked", {})
        /\ UNCHANGED <<kind, ring, senders, receivers, takeWaiters, gaveUp>>
    BY Zenon DEF PutBlocks, ends
  <1>2. /\ QueueOK(putWaiters', Putters)
        /\ Waiting(putWaiters') = Waiting(putWaiters) \cup {c}
    BY <1>1, EnqueueIs DEF IpcInv
  <1>3. client' \in [Putters \cup Takers -> {"runs", "blocked", "woken"}]
    BY Zenon, <1>1, AfterType DEF IpcInv
  <1>4. /\ \A x \in Putters : client'[x] = IF x = c THEN "blocked" ELSE client[x]
        /\ WokenAmong(Putters)' \in Nat
    BY <1>1, Sides, CallSide DEF IpcInv
  <1>5. /\ \A x \in Takers : client'[x] = client[x]
        /\ WokenAmong(Takers)' = WokenAmong(Takers)
    <2>1. c \notin Takers
      BY Zenon, Sides
    <2>2. /\ \A x \in Takers : client'[x] = IF x = c THEN "blocked" ELSE client[x]
          /\ c \notin Takers => WokenAmong(Takers)' = WokenAmong(Takers)
      BY <1>1, Sides, CallSide DEF IpcInv
    <2> QED
      BY Zenon, <2>1, <2>2
  <1>6. NoLostWakeup'
    <2>1. NoLostWakeup
      BY Zenon DEF IpcInv
    <2>2. ring'.length = Capacity
      BY Zenon, <1>1 DEF Full
    <2>3. Capacity - ring'.length <= WokenAmong(Putters)'
      BY <1>4, <2>2, Sides
    <2> QED
      BY Zenon, <1>1, <1>5, <2>1, <2>3 DEF NoLostWakeup
  <1> QED
    BY Zenon, <1>1, <1>2, <1>3, <1>4, <1>5, <1>6 DEF IpcInv

\* A receiver blocks on an empty queue: no item needs a woken receiver.
LEMMA TakeBlocksStep ==
    ASSUME IpcInv, NEW c \in Takers, TakeBlocks(c)
    PROVE  IpcInv'
  <1>1. /\ ring.length = 0 /\ CanEnqueue(takeWaiters, c)
        /\ takeWaiters' = Enqueue(takeWaiters, c)
        /\ client' = After(client, c, "blocked", {})
        /\ UNCHANGED <<kind, ring, senders, receivers, putWaiters, gaveUp>>
    BY Zenon DEF TakeBlocks, ends
  <1>2. /\ QueueOK(takeWaiters', Takers)
        /\ Waiting(takeWaiters') = Waiting(takeWaiters) \cup {c}
    BY <1>1, EnqueueIs DEF IpcInv
  <1>3. client' \in [Putters \cup Takers -> {"runs", "blocked", "woken"}]
    BY Zenon, <1>1, AfterType DEF IpcInv
  <1>4. /\ \A x \in Takers : client'[x] = IF x = c THEN "blocked" ELSE client[x]
        /\ WokenAmong(Takers)' \in Nat
    BY <1>1, Sides, CallSide DEF IpcInv
  <1>5. /\ \A x \in Putters : client'[x] = client[x]
        /\ WokenAmong(Putters)' = WokenAmong(Putters)
    <2>1. c \notin Putters
      BY Zenon, Sides
    <2>2. /\ \A x \in Putters : client'[x] = IF x = c THEN "blocked" ELSE client[x]
          /\ c \notin Putters => WokenAmong(Putters)' = WokenAmong(Putters)
      BY <1>1, Sides, CallSide DEF IpcInv
    <2> QED
      BY Zenon, <2>1, <2>2
  <1>6. NoLostWakeup'
    <2>1. NoLostWakeup
      BY Zenon DEF IpcInv
    <2>2. ring'.length <= WokenAmong(Takers)'
      BY <1>1, <1>4
    <2> QED
      BY Zenon, <1>1, <1>5, <2>1, <2>2 DEF NoLostWakeup
  <1> QED
    BY Zenon, <1>1, <1>2, <1>3, <1>4, <1>5, <1>6 DEF IpcInv

\* A woken sender gives up: the queue is shut, or it is full.
LEMMA PutFailsStep ==
    ASSUME IpcInv, NEW c \in Putters, PutFails(c)
    PROVE  IpcInv'
  <1>1. /\ client[c] = "woken"
        /\ ~receivers \/ Full(ring)
        /\ client' = After(client, c, "runs", {})
        /\ UNCHANGED <<kind, ring, senders, receivers, putWaiters, takeWaiters, gaveUp>>
    BY Zenon DEF PutFails, ends, waiters
  <1>2. client' \in [Putters \cup Takers -> {"runs", "blocked", "woken"}]
    BY Zenon, <1>1, AfterType DEF IpcInv
  <1>3. /\ \A x \in Putters : client'[x] = IF x = c THEN "runs" ELSE client[x]
        /\ WokenAmong(Putters)' \in Nat
    BY <1>1, Sides, CallSide DEF IpcInv
  <1>4. /\ \A x \in Takers : client'[x] = client[x]
        /\ WokenAmong(Takers)' = WokenAmong(Takers)
    <2>1. c \notin Takers
      BY Zenon, Sides
    <2>2. /\ \A x \in Takers : client'[x] = IF x = c THEN "runs" ELSE client[x]
          /\ c \notin Takers => WokenAmong(Takers)' = WokenAmong(Takers)
      BY <1>1, Sides, CallSide DEF IpcInv
    <2> QED
      BY Zenon, <2>1, <2>2
  <1>5. NoLostWakeup'
    <2>1. NoLostWakeup
      BY Zenon DEF IpcInv
    <2>2. CASE ~receivers
      BY Zenon, <1>1, <2>2 DEF NoLostWakeup
    <2>3. CASE Full(ring)
      <3>1. ring'.length = Capacity
        BY Zenon, <1>1, <2>3 DEF Full
      <3>2. Capacity - ring'.length <= WokenAmong(Putters)'
        BY <1>3, <3>1, Sides
      <3> QED
        BY Zenon, <1>1, <1>4, <2>1, <3>2 DEF NoLostWakeup
    <2> QED
      BY Zenon, <1>1, <2>2, <2>3
  <1>6. \A x \in Putters : client'[x] = "blocked" <=> x \in Waiting(putWaiters)
    <2>1. client[c] # "blocked"
      BY Zenon, <1>1
    <2> QED
      BY Zenon, <1>3, <2>1 DEF IpcInv
  <1> QED
    BY Zenon, <1>1, <1>2, <1>4, <1>5, <1>6 DEF IpcInv

\* A woken receiver gives up: the queue is shut, it is empty, or the receiver's
\* buffer is too short, which gaveUp remembers.
LEMMA TakeFailsStep ==
    ASSUME IpcInv, NEW c \in Takers, NEW size \in Buffers, TakeFails(c, size)
    PROVE  IpcInv'
  <1>1. /\ client[c] = "woken"
        /\ client' = After(client, c, "runs", {})
        /\ UNCHANGED <<kind, ring, senders, receivers, putWaiters, takeWaiters>>
        /\ gaveUp' = gaveUp \/ gaveUp' = TRUE
        /\ \/ ~receivers
           \/ ring.length = 0
           \/ gaveUp' = TRUE
    BY Zenon DEF TakeFails, MayTake, ends, waiters
  <1>2. client' \in [Putters \cup Takers -> {"runs", "blocked", "woken"}]
    BY Zenon, <1>1, AfterType DEF IpcInv
  <1>3. /\ \A x \in Takers : client'[x] = IF x = c THEN "runs" ELSE client[x]
        /\ WokenAmong(Takers)' \in Nat
    BY <1>1, Sides, CallSide DEF IpcInv
  <1>4. /\ \A x \in Putters : client'[x] = client[x]
        /\ WokenAmong(Putters)' = WokenAmong(Putters)
    <2>1. c \notin Putters
      BY Zenon, Sides
    <2>2. /\ \A x \in Putters : client'[x] = IF x = c THEN "runs" ELSE client[x]
          /\ c \notin Putters => WokenAmong(Putters)' = WokenAmong(Putters)
      BY <1>1, Sides, CallSide DEF IpcInv
    <2> QED
      BY Zenon, <2>1, <2>2
  <1>5. gaveUp' \in BOOLEAN /\ (gaveUp => gaveUp')
    <2>1. CASE gaveUp' = gaveUp
      BY Zenon, <2>1 DEF IpcInv
    <2>2. CASE gaveUp' = TRUE
      BY Zenon, <2>2
    <2> QED
      BY Zenon, <1>1, <2>1, <2>2
  <1>6. NoLostWakeup'
    <2>1. NoLostWakeup
      BY Zenon DEF IpcInv
    <2>2. CASE ~receivers \/ gaveUp' = TRUE
      BY Zenon, <1>1, <2>2 DEF NoLostWakeup
    <2>3. CASE ring.length = 0
      <3>1. ring'.length <= WokenAmong(Takers)'
        BY <1>1, <1>3, <2>3
      <3> QED
        BY Zenon, <1>1, <1>4, <1>5, <2>1, <3>1 DEF NoLostWakeup
    <2> QED
      BY Zenon, <1>1, <2>2, <2>3
  <1>7. \A x \in Takers : client'[x] = "blocked" <=> x \in Waiting(takeWaiters)
    <2>1. client[c] # "blocked"
      BY Zenon, <1>1
    <2> QED
      BY Zenon, <1>3, <2>1 DEF IpcInv
  <1> QED
    BY Zenon, <1>1, <1>2, <1>4, <1>5, <1>6, <1>7 DEF IpcInv

\* close_sender, close: a receiver is woken although no item came.
LEMMA CloseSenderStep ==
    ASSUME IpcInv, CloseSender
    PROVE  IpcInv'
  <1>1. /\ senders' = FALSE /\ receivers' \in BOOLEAN /\ (receivers' => receivers)
        /\ takeWaiters' = WakeOne(takeWaiters)
        /\ client' = After(client, NoThread, "runs", Woken(takeWaiters))
        /\ UNCHANGED <<kind, ring, putWaiters, gaveUp>>
    BY Zenon DEF CloseSender, IpcInv
  <1>2. Woken(takeWaiters) \subseteq Takers /\ QueueOK(takeWaiters', Takers)
    <2>1. Woken(takeWaiters) \subseteq Waiting(takeWaiters) /\ QueueOK(takeWaiters', Takers)
      BY Zenon, <1>1, WakeOneIs DEF IpcInv
    <2> QED
      BY <2>1 DEF IpcInv, Waiting, QueueOK
  <1>3. client' \in [Putters \cup Takers -> {"runs", "blocked", "woken"}]
    BY SMTT(30), <1>1, AfterType DEF IpcInv
  <1>4. /\ \A x \in Takers : client'[x] = "blocked" <=> x \in Waiting(takeWaiters')
        /\ WokenAmong(Takers) \in Nat /\ WokenAmong(Takers)' \in Nat
        /\ WokenAmong(Takers) <= WokenAmong(Takers)'
    BY <1>1, Sides, WakeSide DEF IpcInv
  <1>5. /\ \A x \in Putters : client'[x] = IF x = NoThread THEN "runs" ELSE client[x]
        /\ NoThread \notin Putters => WokenAmong(Putters)' = WokenAmong(Putters)
    BY <1>1, <1>2, Sides, CallSide DEF IpcInv
  <1>6. \A x \in Putters : client'[x] = client[x]
    BY Zenon, <1>5, Sides
  <1>7. DOMAIN takeWaiters' # {} => DOMAIN takeWaiters # {}
    BY Zenon, <1>1, WakeOneIs DEF IpcInv
  <1>8. NoLostWakeup'
    <2>1. NoLostWakeup
      BY Zenon DEF IpcInv
    <2>2. ring.length \in Nat
      BY Sides DEF IpcInv, RingOK
    <2>3. ring.length <= WokenAmong(Takers) => ring.length <= WokenAmong(Takers)'
      BY <1>4, <2>2
    <2> QED
      BY Zenon, <1>1, <1>5, <1>7, <2>1, <2>3, Sides DEF NoLostWakeup
  <1> QED
    BY Zenon, <1>1, <1>2, <1>3, <1>4, <1>6, <1>8 DEF IpcInv

\* close_receiver: from here on nothing is promised to the threads that wait.
LEMMA CloseReceiverStep ==
    ASSUME IpcInv, CloseReceiver
    PROVE  IpcInv'
  <1>1. /\ receivers' = FALSE /\ kind = "channel"
        /\ putWaiters' = WakeOne(putWaiters)
        /\ client' = After(client, NoThread, "runs", Woken(putWaiters))
        /\ UNCHANGED <<kind, ring, senders, takeWaiters, gaveUp>>
    BY Zenon DEF CloseReceiver
  <1>2. Woken(putWaiters) \subseteq Putters /\ QueueOK(putWaiters', Putters)
    <2>1. Woken(putWaiters) \subseteq Waiting(putWaiters) /\ QueueOK(putWaiters', Putters)
      BY Zenon, <1>1, WakeOneIs DEF IpcInv
    <2> QED
      BY <2>1 DEF IpcInv, Waiting, QueueOK
  <1>3. client' \in [Putters \cup Takers -> {"runs", "blocked", "woken"}]
    BY Zenon, <1>1, AfterType DEF IpcInv
  <1>4. \A x \in Putters : client'[x] = "blocked" <=> x \in Waiting(putWaiters')
    BY <1>1, Sides, WakeSide DEF IpcInv
  <1>5. \A x \in Takers : client'[x] = IF x = NoThread THEN "runs" ELSE client[x]
    BY <1>1, <1>2, Sides, CallSide DEF IpcInv
  <1>6. \A x \in Takers : client'[x] = client[x]
    BY Zenon, <1>5, Sides
  <1>7. NoLostWakeup'
    BY Zenon, <1>1 DEF NoLostWakeup
  <1> QED
    BY Zenon, <1>1, <1>2, <1>3, <1>4, <1>6, <1>7 DEF IpcInv

-----------------------------------------------------------------------------
(* The theorems *)

\* An empty ring that nobody waits for.
LEMMA IpcInitInv == IpcInit => IpcInv
  <1> SUFFICES ASSUME IpcInit PROVE IpcInv
    BY Zenon
  <1>1. RingOK(ring) /\ ring.length = 0
    <2>1. 0 \in Slots /\ 0 \in 0 .. Capacity /\ At(0, 0) = 0 /\ 0 .. 0 - 1 = {}
      BY IpcAssumption DEF Slots, At
    <2> QED
      BY Zenon, <2>1 DEF IpcInit, EmptyRing, RingOK
  <1>2. QueueOK(EmptyQueue, Putters) /\ QueueOK(EmptyQueue, Takers)
        /\ Waiting(EmptyQueue) = {} /\ DOMAIN EmptyQueue = {}
    BY Zenon DEF EmptyQueue, QueueOK, Waiting
  <1> QED
    BY Zenon, <1>1, <1>2, IpcAssumption DEF IpcInit, IpcInv, NoLostWakeup

\* Every system call and every wake-up keeps IpcInv.
LEMMA IpcNextInv == IpcInv /\ [IpcNext]_ipcVars => IpcInv'
  <1> SUFFICES ASSUME IpcInv, [IpcNext]_ipcVars PROVE IpcInv'
    BY Zenon
  <1>1. CASE UNCHANGED ipcVars
    BY Zenon, <1>1 DEF ipcVars, ends, waiters, IpcInv, NoLostWakeup, WokenAmong
  <1>2. CASE RevokeRing
    BY Zenon, <1>2 DEF RevokeRing, waiters, IpcInv, NoLostWakeup
  <1>3. CASE \E c \in Putters : PutCall(c)
    BY Zenon, <1>3, PutStep, PutBlocksStep, PutFailsStep DEF PutCall
  <1>4. CASE \E c \in Takers : TakeCall(c)
    BY Zenon, <1>4, TakeStep, TakeBlocksStep, TakeFailsStep DEF TakeCall
  <1> QED
    BY Zenon, <1>1, <1>2, <1>3, <1>4, CloseSenderStep, CloseReceiverStep DEF IpcNext

\* IpcInv is an invariant.
LEMMA IpcInvHolds == IpcSpec => []IpcInv
  BY IpcInitInv, IpcNextInv, PTL DEF IpcSpec

\* send, publish, push, receive, consume, pop and the wait queues: while the
\* queue is open, a thread that stays blocked has nothing to be woken for that
\* another woken thread is not coming for.
THEOREM NoWakeupIsLost == IpcSpec => []NoLostWakeup
  <1>1. IpcInv => NoLostWakeup
    BY Zenon DEF IpcInv
  <1> QED
    BY <1>1, IpcInvHolds, PTL

\* The empty ring is the empty queue.
LEMMA FifoInitMaps == IpcInit => Fifo!FifoInit
  <1> SUFFICES ASSUME IpcInit PROVE Fifo!FifoInit
    BY Zenon
  <1>1. Contents(ring) = <<>>
    <2>1. RingOK(ring) /\ ring.length = 0
      BY Zenon, IpcInitInv DEF IpcInv, IpcInit, EmptyRing
    <2>2. Contents(ring) \in Seq(Lengths) /\ Len(Contents(ring)) = 0
      BY Zenon, <2>1, ContentsIs
    <2> QED
      BY <2>2
  <1> QED
    BY Zenon, <1>1 DEF IpcInit, Fifo!FifoInit, MayTake

\* Every step of a queue is a step of the bounded FIFO or leaves it alone.
LEMMA FifoNextMaps == IpcInv /\ [IpcNext]_ipcVars => [Fifo!FifoNext]_(Fifo!FifoVars)
  <1> SUFFICES ASSUME IpcInv, [IpcNext]_ipcVars PROVE [Fifo!FifoNext]_(Fifo!FifoVars)
    BY Zenon
  <1>1. ASSUME NEW c \in Putters, NEW m \in Lengths, Put(c, m) PROVE Fifo!Put(m)
    <2>1. /\ receivers /\ ~Full(ring) /\ ring' = Pushed(ring, m)
          /\ UNCHANGED <<kind, receivers>>
      BY Zenon, <1>1 DEF Put, MayPut, ends
    <2>2. Contents(ring') = Append(Contents(ring), m)
      BY Zenon, <2>1, PushedIs DEF IpcInv
    <2>3. Len(Contents(ring)) < Capacity
      <3>1. ring.length \in 0 .. Capacity /\ ring.length # Capacity
        BY Zenon, <2>1 DEF IpcInv, RingOK, Full
      <3>2. Len(Contents(ring)) = ring.length
        BY Zenon, ContentsIs DEF IpcInv
      <3> QED
        BY <3>1, <3>2, Sides
    <2> QED
      BY Zenon, <2>1, <2>2, <2>3 DEF Fifo!Put, MayTake
  <1>2. ASSUME NEW c \in Takers, NEW size \in Buffers, Take(c, size) PROVE Fifo!Take
    <2>1. /\ MayTake /\ ring.length > 0 /\ ring' = Popped(ring)
          /\ UNCHANGED <<kind, receivers>>
      BY Zenon, <1>2 DEF Take, ends
    <2>2. Contents(ring) # <<>> /\ Contents(ring') = Tail(Contents(ring))
      BY Zenon, <2>1, PoppedIs DEF IpcInv
    <2> QED
      BY Zenon, <2>1, <2>2 DEF Fifo!Take, MayTake
  <1>3. CASE CloseSender \/ CloseReceiver \/ RevokeRing
    <2>1. /\ UNCHANGED <<kind, ring>> /\ receivers' \in BOOLEAN
          /\ receivers' = FALSE \/ receivers' = receivers
      BY Zenon, <1>3 DEF CloseSender, CloseReceiver, RevokeRing, IpcInv
    <2>2. UNCHANGED Contents(ring)
      BY Zenon, <2>1
    <2>3. CASE receivers' = receivers
      BY Zenon, <2>1, <2>2, <2>3 DEF Fifo!FifoVars, MayTake
    <2>4. CASE receivers' = FALSE
      <3>1. MayTake' = MayTake \/ MayTake' = FALSE
        BY Zenon, <2>1, <2>4 DEF MayTake, IpcInv
      <3> QED
        BY Zenon, <2>2, <2>4, <3>1 DEF Fifo!FifoNext, Fifo!Shut
    <2> QED
      BY Zenon, <2>1, <2>3, <2>4
  <1>4. ASSUME UNCHANGED <<kind, ring, receivers>> PROVE UNCHANGED Fifo!FifoVars
    BY Zenon, <1>4 DEF Fifo!FifoVars, MayTake
  <1>5. ASSUME NEW c \in Putters, PutFails(c) \/ \E m \in Lengths : PutBlocks(c, m)
        PROVE  UNCHANGED <<kind, ring, receivers>>
    BY Zenon, <1>5 DEF PutFails, PutBlocks, ends
  <1>6. ASSUME NEW c \in Takers, TakeBlocks(c) \/ \E size \in Buffers : TakeFails(c, size)
        PROVE  UNCHANGED <<kind, ring, receivers>>
    BY Zenon, <1>6 DEF TakeFails, TakeBlocks, ends
  <1>7. CASE UNCHANGED ipcVars
    BY Zenon, <1>4, <1>7 DEF ipcVars, ends
  <1>8. CASE \E c \in Putters : PutCall(c)
    BY Zenon, <1>1, <1>4, <1>5, <1>8 DEF PutCall, Fifo!FifoNext
  <1>9. CASE \E c \in Takers : TakeCall(c)
    BY Zenon, <1>2, <1>4, <1>6, <1>9 DEF TakeCall, Fifo!FifoNext
  <1> QED
    BY Zenon, <1>3, <1>7, <1>8, <1>9 DEF IpcNext

\* The circular buffer of every queue, whatever the threads do, is the bounded
\* FIFO of docs/ipc.md: no item is lost, duplicated, reordered or overwritten,
\* and what is shut stays shut.
THEOREM QueuesImplementFifo == IpcSpec => ImplementsFifo
  BY FifoInitMaps, FifoNextMaps, IpcInvHolds, PTL DEF IpcSpec, ImplementsFifo, Fifo!FifoSpec
=============================================================================
