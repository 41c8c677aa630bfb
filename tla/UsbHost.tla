------------------------------ MODULE UsbHost -------------------------------
(***************************************************************************)
(* The xHCI runtime (drivers/usb/xhci.rs) with its controller and a device  *)
(* that is plugged, used and unplugged.  The driver makes one request at a   *)
(* time, a command or a transfer, and polls the event ring for its           *)
(* completion until it comes or POLL_LIMIT polls are over.  The controller   *)
(* answers at any time, also too late.                                       *)
(*                                                                         *)
(* Left out: register values, the layout of contexts and descriptors, DMA    *)
(* synchronisation.  A register access or an allocation that fails counts as *)
(* a failure of the step it belongs to.                                      *)
(***************************************************************************)
EXTENDS XhciRings, UsbHid

CONSTANTS
    MaxSlots,        \* device slots of the controller
    Models, Replugs, \* what may be plugged at the start, and later: names of DeviceModel
    QueueCapacity,   \* input events that wait to be read
    MaxStimuli, MaxStarts   \* bounds: plugs, unplugs and changes of keys; starts

ASSUME HostAssumption ==
    /\ {MaxSlots, QueueCapacity, MaxStimuli, MaxStarts} \subseteq Nat
    /\ Models \cup Replugs \subseteq {"keyboard", "mouse", "storage", "serial", "hub", "broken", "verbose", "bare"}

VARIABLES
    rt,        \* Runtime: slot, ports seen, first_device, hid, interrupt pending
    rings,     \* command ring, ep0, and the rings of the other endpoints
    doorbell,  \* transfer rings the controller was told of and has not stopped
    events,    \* the event ring
    host,      \* the controller: enabled slots, what is plugged, keys held, keys reported
    pc,        \* what the driver waits for
    job,       \* the request and those after it, what they are for
    input,     \* events in the input queue
    seen,      \* history: keys of the last report, keys down by the events, an event was dropped
    timedOut,  \* history: a command was given up
    budget     \* what is left of the bounds

vars == <<rt, rings, doorbell, events, host, pc, job, input, seen, timedOut, budget>>

-----------------------------------------------------------------------------
(* parse_configuration: interfaces and endpoints in a row.                   *)
Interface(class) == [item |-> "interface", class |-> class]
HidItem(length) == [item |-> "hid", length |-> length]
Endpoint(type) == [item |-> "endpoint", type |-> type]   \* of known number and packet size
BadItem == [item |-> "bad"]

NewConfiguration ==
    [error |-> FALSE, class |-> "none", hub |-> FALSE, hid |-> FALSE, serial |-> FALSE,
     storage |-> FALSE, report |-> 0, endpoints |-> {}]
SerialClass(class) == class \in {"cdc", "data"}   \* FTDI, known by its vendor, is left out
ConfigurationItem(c, i) ==
    CASE c.error \/ i.item = "bad" -> [c EXCEPT !.error = TRUE]
      [] ~c.error /\ i.item = "interface" ->
            [c EXCEPT !.class = i.class, !.hub = @ \/ i.class = "hub", !.hid = @ \/ i.class = "hid",
                      !.serial = @ \/ SerialClass(i.class), !.storage = @ \/ i.class = "storage"]
      [] ~c.error /\ i.item = "hid" ->
            [c EXCEPT !.report = IF c.class = "hid" THEN i.length ELSE @]
      [] ~c.error /\ i.item = "endpoint" ->
            [c EXCEPT !.endpoints = @ \cup
                {e \in {"interrupt", "in", "out"} :
                    e = i.type /\ IF e = "interrupt" THEN c.class = "hid"
                                  ELSE SerialClass(c.class) \/ c.class = "storage"}]
ParseConfiguration(items) == FoldLeft(ConfigurationItem, NewConfiguration, items)

(* What a device answers: its configuration and its report descriptor.       *)
KeyboardReport ==
    <<[item |-> "page", value |-> Keyboard], [item |-> "min", value |-> 224],
      [item |-> "max", value |-> 231], [item |-> "size", value |-> 1],
      [item |-> "count", value |-> 8], [item |-> "input"],
      [item |-> "min", value |-> 0], [item |-> "max", value |-> 101],
      [item |-> "size", value |-> 8], [item |-> "count", value |-> 3], [item |-> "input"]>>
MouseReport ==
    <<[item |-> "page", value |-> Button], [item |-> "min", value |-> 1],
      [item |-> "max", value |-> 3], [item |-> "size", value |-> 1],
      [item |-> "count", value |-> 3], [item |-> "input"], [item |-> "size", value |-> 5],
      [item |-> "count", value |-> 1], [item |-> "input"],
      [item |-> "page", value |-> GenericDesktop], [item |-> "logicalMin", value |-> -127],
      [item |-> "usage", value |-> UsageX], [item |-> "usage", value |-> UsageY],
      [item |-> "size", value |-> 8], [item |-> "count", value |-> 2], [item |-> "input"]>>
DeviceModel(name) ==
    CASE name = "keyboard" -> <<Interface("hid"), HidItem(11), Endpoint("interrupt")>>
      [] name = "mouse" -> <<Interface("hid"), HidItem(17), Endpoint("interrupt")>>
      [] name = "storage" -> <<Interface("storage"), Endpoint("in"), Endpoint("out")>>
      [] name = "serial" -> <<Interface("cdc"), Endpoint("interrupt"), Interface("data"),
                              Endpoint("in"), Endpoint("out")>>
      [] name = "hub" -> <<Interface("hub"), Endpoint("interrupt")>>
      [] name = "broken" -> <<Interface("hid"), BadItem>>
      [] name = "verbose" -> <<Interface("hid"), HidItem(MaxDescriptor + 1), Endpoint("interrupt")>>
      [] name = "bare" -> <<>>              \* nothing after the header
ReportDescriptor(name) == IF name = "keyboard" THEN KeyboardReport ELSE MouseReport
AllModels == {"keyboard", "mouse", "storage", "serial", "hub", "broken", "verbose", "bare"}
Configurations == [name \in AllModels |-> ParseConfiguration(DeviceModel(name))]
HidDevices == [name \in AllModels |-> FromDescriptor(ReportDescriptor(name))]

-----------------------------------------------------------------------------
(* enumerate_first as the requests it makes, in order: first those up to the *)
(* configuration, which is read only when it is longer than its header, then *)
(* those that depend on it.                                                  *)
Command(name) == [kind |-> "command", name |-> name, ring |-> "command"]
Control(name, data) == [kind |-> "transfer", name |-> name, ring |-> "ep0", data |-> data]
Bulk(name, ring) == [kind |-> "transfer", name |-> name, ring |-> ring]
FirstRequests ==
    <<Command("enable"), Command("address"), Control("device", TRUE), Control("header", TRUE),
      Control("configuration", TRUE)>>
SerialRequests == <<Control("coding", TRUE), Control("line", FALSE)>>          \* configure_serial
StorageRequests == <<Bulk("cbw", "out"), Bulk("data", "in"), Bulk("csw", "in")>> \* probe_storage
OtherRequests(c) ==
    <<Control("set", FALSE)>>
    \o (IF c.hub THEN <<Control("hub", TRUE)>> ELSE <<>>)
    \o (IF c.hid THEN <<Control("report", TRUE)>> ELSE <<>>)
    \o (IF c.endpoints # {} THEN <<Command("configure")>> ELSE <<>>)
    \o (IF c.serial THEN SerialRequests ELSE <<>>)
    \o (IF c.storage THEN StorageRequests ELSE <<>>)

(* Transfer descriptors: setup, data and status, or one normal entry.        *)
Stages(request) ==
    IF request.ring # "ep0" THEN <<"normal">>
    ELSE IF request.data THEN <<"setup", "data", "status">> ELSE <<"setup", "status">>

TagMod == 3
Pushed(ring, stages, slot, tag) ==
    FoldLeft(LAMBDA r, stage : Push(r, [name |-> stage, slot |-> slot], tag), ring, stages)

-----------------------------------------------------------------------------
(* Runtime::new *)
NewRuntime ==
    [slot |-> 0, connected |-> 0, device |-> "none", hid |-> Absent,
     interrupt |-> FALSE, pending |-> FALSE]
NewRings == [r \in {"command", "ep0", "interrupt", "in", "out"} |-> NewRing]
NoJob == [for |-> "none", request |-> Command("none"), todo |-> <<>>, connected |-> 0,
          configuration |-> NewConfiguration, name |-> "none", hid |-> Absent, tag |-> 0]
NotSeen == [report |-> <<>>, pressed |-> {}, dropped |-> FALSE]
Connected == IF host.plugged = "none" THEN 0 ELSE 1     \* connected_ports

Init ==
    /\ rt = NewRuntime /\ rings = NewRings /\ doorbell = {} /\ events = NewEvents
    /\ host \in [slots : {{}}, plugged : Models \cup {"none"}, addressed : {0}, held : {<<>>}, reported : {<<>>}]
    /\ pc = "off" /\ job = NoJob /\ input = 0 /\ seen = NotSeen /\ timedOut = FALSE
    /\ budget = [stimuli |-> MaxStimuli, starts |-> MaxStarts]

(* command, control_transfer and data_transfer: the first of the requests    *)
(* goes on its ring, with the slot r has.  Address Device starts ep0 afresh,  *)
(* Configure Endpoint the rings of the other endpoints.                      *)
Make(requests, j, r) ==
    LET request == Head(requests)
        tag == (job.tag + 1) % TagMod
        fresh == CASE request.name = "address" -> [rings EXCEPT !.ep0 = NewRing]
                   [] request.name = "configure" ->
                        [rings EXCEPT !.interrupt = NewRing, !["in"] = NewRing, !.out = NewRing]
                   [] OTHER -> rings
        stages == IF request.kind = "command" THEN <<request.name>> ELSE Stages(request)
    IN  /\ rings' = [fresh EXCEPT ![request.ring] = Pushed(@, stages, r.slot, tag)]
        /\ doorbell' = IF request.kind = "command" THEN doorbell ELSE doorbell \cup {request.ring}
        /\ job' = [j EXCEPT !.request = request, !.todo = Tail(requests), !.tag = tag]
        /\ pc' = request.kind /\ rt' = r

(* The end of enumerate_first, for the caller: probe drops the runtime after *)
(* an error; poll remembers the ports and goes on.                           *)
Failed(j) ==
    /\ IF j.for = "boot"
       THEN pc' = "off" /\ rt' = NewRuntime
       ELSE pc' = "idle" /\ rt' = [rt EXCEPT !.connected = j.connected]
    /\ job' = [NoJob EXCEPT !.tag = job.tag] /\ UNCHANGED <<rings, doorbell>>
Enumerated(r, j) ==
    /\ rt' = [r EXCEPT !.device = j.name, !.hid = j.hid,
                       !.connected = IF j.for = "boot" THEN Connected ELSE j.connected]
    /\ pc' = IF j.for = "boot" \/ j.hid = Absent \/ ~r.interrupt THEN "idle" ELSE "hid"
    /\ job' = [NoJob EXCEPT !.tag = job.tag] /\ UNCHANGED <<rings, doorbell>>
GoOn(requests, j, r) ==
    IF requests = <<>> THEN Enumerated(r, j)
    ELSE IF \/ Head(requests).name = "report" /\ j.configuration.report \notin 1 .. MaxDescriptor
            \/ Head(requests).ring \in {"in", "out"} \ j.configuration.endpoints
    THEN Failed(j)
    ELSE Make(requests, j, r)

(* probe: reset, new rings, start_host; then the first connected port is      *)
(* reset and its device enumerated.  service_remove stops the host.          *)
StartHost ==
    /\ pc = "off" /\ budget.starts > 0 /\ budget' = [budget EXCEPT !.starts = @ - 1]
    /\ host' = [host EXCEPT !.slots = {}, !.addressed = 0] /\ doorbell' = {}
    /\ events' = NewEvents /\ timedOut' = FALSE
    /\ rt' = NewRuntime /\ rings' = NewRings /\ pc' \in {"off", "boot"}   \* a step may fail
    /\ UNCHANGED <<job, input, seen>>
BootEnumerate ==
    /\ pc = "boot" /\ UNCHANGED <<events, host, input, seen, timedOut, budget>>
    /\ \E j \in {[NoJob EXCEPT !.for = "boot", !.tag = job.tag]} :
         IF Connected = 0 THEN pc' = "idle" /\ UNCHANGED <<rt, rings, doorbell, job>>
         ELSE Make(FirstRequests, j, rt) \/ Failed(j)                   \* reset_port
StopHost ==
    /\ pc = "idle" /\ pc' = "off" /\ rt' = NewRuntime
    /\ UNCHANGED <<rings, doorbell, events, host, job, input, seen, timedOut, budget>>

(* The answer to the request: what enumerate_first does with it.  An answer  *)
(* that is too short counts as a failure.                                    *)
Completed(e) ==
    LET name == job.request.name
        configuration == Configurations[e.data]
        hid == HidDevices[e.data]
    IN  IF ~e.ok THEN Failed(job)
        ELSE CASE name = "enable" -> GoOn(job.todo, job, [rt EXCEPT !.slot = e.slot])
               [] name = "configuration" \/ (name = "header" /\ DeviceModel(e.data) = <<>>) ->
                    IF configuration.error THEN Failed(job)
                    ELSE GoOn(OtherRequests(configuration),
                              [job EXCEPT !.configuration = configuration, !.name = e.data], rt)
               [] name = "report" ->
                    IF hid = Absent THEN Failed(job)
                    ELSE GoOn(job.todo, [job EXCEPT !.hid = hid], rt)
               [] name = "configure" ->
                    GoOn(job.todo, job,
                         [rt EXCEPT !.interrupt = "interrupt" \in job.configuration.endpoints,
                                    !.pending = FALSE])
               [] OTHER -> GoOn(job.todo, job, rt)

(* Mutation of Removed: first_device is not cleared.                         *)
RemovedKeepsDevice ==
    /\ rt' = [NewRuntime EXCEPT !.connected = job.connected, !.device = rt.device] /\ pc' = "idle"
    /\ rings' = [rings EXCEPT !.ep0 = NewRing] /\ job' = [NoJob EXCEPT !.tag = job.tag]
    /\ UNCHANGED doorbell

(* The rest of poll after disable_slot, whatever it returned.                *)
Removed ==
    /\ rt' = [NewRuntime EXCEPT !.connected = job.connected] /\ pc' = "idle"
    /\ rings' = [rings EXCEPT !.ep0 = NewRing] /\ job' = [NoJob EXCEPT !.tag = job.tag]
    /\ UNCHANGED doorbell

(* After cancel_endpoint: the enumeration fails, or the HID device is given  *)
(* up; the endpoint stays.                                                   *)
Cancelled ==
    IF job.for = "hid"
    THEN /\ rt' = [rt EXCEPT !.hid = Absent] /\ pc' = "idle"
         /\ job' = [NoJob EXCEPT !.tag = job.tag] /\ UNCHANGED <<rings, doorbell>>
    ELSE Failed(job)

(* Mutation of Matches: a command takes any event for its completion.        *)
MatchesAny(e) ==
    pc = "transfer" => e.kind = "transfer" /\ e.ring = job.request.ring /\ e.slot = rt.slot

(* wait_for_command and wait_for_transfer: an event that does not match is   *)
(* dropped.  A completion is matched by its kind, and a transfer also by     *)
(* slot and endpoint, not by the request.                                    *)
Matches(e) ==
    IF pc = "transfer"
    THEN e.kind = "transfer" /\ e.ring = job.request.ring /\ e.slot = rt.slot
    ELSE e.kind = "command"
TakeEvent ==
    /\ pc \in {"command", "transfer", "cancel"} /\ HasEvent(events)
    /\ events' = Polled(events)
    /\ \E e \in {NextEvent(events)} :
         IF ~Matches(e) THEN UNCHANGED <<rt, rings, doorbell, pc, job>>
         ELSE IF pc = "cancel" THEN Cancelled
         ELSE IF job.for = "remove" THEN Removed
         ELSE Completed(e)
    /\ seen' = IF rt'.hid = rt.hid THEN seen ELSE NotSeen
    /\ UNCHANGED <<host, input, timedOut, budget>>

(* cancel_endpoint: Stop Endpoint.                                           *)
Cancel(purpose, ring) ==
    LET tag == (job.tag + 1) % TagMod
    IN  /\ rings' = [rings EXCEPT !.command =
                        Push(@, [name |-> "stop", slot |-> rt.slot, ring |-> ring], tag)]
        /\ UNCHANGED doorbell
        /\ job' = [job EXCEPT !.for = purpose, !.tag = tag] /\ pc' = "cancel"

(* POLL_LIMIT polls have found nothing: a transfer is cancelled, a command   *)
(* is left to itself.                                                        *)
GiveUp ==
    /\ pc \in {"command", "transfer", "cancel"} /\ ~HasEvent(events)
    /\ timedOut' = (timedOut \/ pc # "transfer")
    /\ IF pc = "transfer" THEN Cancel(job.for, job.request.ring) /\ UNCHANGED rt
       ELSE IF pc = "cancel" THEN Cancelled
       ELSE IF job.for = "remove" THEN Removed ELSE Failed(job)
    /\ UNCHANGED <<events, host, input, seen, budget>>

-----------------------------------------------------------------------------
(* Runtime::poll: a device has gone, has come, or there is a report to look  *)
(* for.                                                                      *)
PollRemove ==
    /\ pc = "idle" /\ Connected < rt.connected /\ rt.device # "none"
    /\ Make(<<Command("disable")>>,
            [NoJob EXCEPT !.for = "remove", !.connected = Connected, !.tag = job.tag], rt)
    /\ UNCHANGED <<events, host, input, seen, timedOut, budget>>
PollEnumerate ==
    /\ pc = "idle" /\ Connected > rt.connected /\ rt.device = "none"
    /\ UNCHANGED <<events, host, input, seen, timedOut, budget>>
    /\ \/ Make(FirstRequests,
               [NoJob EXCEPT !.for = "plug", !.connected = Connected, !.tag = job.tag], rt)
       \/ rt' = [rt EXCEPT !.connected = Connected] /\ UNCHANGED <<rings, doorbell, pc, job>>  \* reset_port failed
Poll ==
    /\ pc = "idle"
    /\ ~(Connected < rt.connected /\ rt.device # "none")
    /\ ~(Connected > rt.connected /\ rt.device = "none")
    /\ rt' = [rt EXCEPT !.connected = Connected]
    /\ pc' = IF rt.device # "none" /\ rt.hid # Absent /\ rt.interrupt THEN "hid" ELSE pc
    /\ UNCHANGED <<rings, doorbell, events, host, job, input, seen, timedOut, budget>>

(* Device::feed and input::push, which refuses events when the queue is full. *)
Queue(report, fed) ==
    LET room == QueueCapacity - input
        pushed == SubSeq(fed.events, 1, IF Len(fed.events) < room THEN Len(fed.events) ELSE room)
        keys == SelectSeq(pushed, LAMBDA e : "key" \in DOMAIN e)
    IN  /\ input' = input + Len(pushed)
        /\ seen' = [report |-> report, dropped |-> seen.dropped \/ Len(pushed) < Len(fed.events),
                    pressed |-> FoldLeft(LAMBDA set, e : IF e.pressed THEN set \cup {e.key}
                                                         ELSE set \ {e.key}, seen.pressed, keys)]

(* poll_hid and poll_interrupt_endpoint: a transfer is started if none is    *)
(* pending, one event is taken, and after INTERRUPT_TIMEOUT_POLLS polls      *)
(* without a report the endpoint is cancelled.                               *)
HidStarted ==
    IF rt.pending THEN rings.interrupt
    ELSE Push(rings.interrupt, [name |-> "normal", slot |-> rt.slot], (job.tag + 1) % TagMod)
HidTag == IF rt.pending THEN job.tag ELSE (job.tag + 1) % TagMod
HidEvent == HasEvent(events) /\ NextEvent(events).kind = "transfer"
            /\ NextEvent(events).ring = "interrupt" /\ NextEvent(events).slot = rt.slot

(* Mutation of PollHidReport: the transfer stays pending after its report.   *)
PollHidReportPending ==
    /\ pc = "hid" /\ HidEvent /\ pc' = "idle" /\ events' = Polled(events)
    /\ \E fed \in {Feed(Head(rt.hid), NextEvent(events).report, NextEvent(events).bytes)} :
          rt' = [rt EXCEPT !.hid = <<fed.device>>] /\ Queue(NextEvent(events).keys, fed)
    /\ UNCHANGED <<rings, doorbell, job, host, timedOut, budget>>

PollHidReport ==
    /\ pc = "hid" /\ HidEvent /\ pc' = "idle"
    /\ events' = Polled(events) /\ rings' = [rings EXCEPT !.interrupt = HidStarted]
    /\ doorbell' = doorbell \cup (IF rt.pending THEN {} ELSE {"interrupt"})
    /\ job' = [job EXCEPT !.tag = HidTag]
    /\ \E e \in {NextEvent(events)} :
         IF ~e.ok
         THEN rt' = [rt EXCEPT !.pending = FALSE, !.hid = Absent] /\ UNCHANGED <<input, seen>>
         ELSE \E fed \in {Feed(Head(rt.hid), e.report, e.bytes)} :
                /\ rt' = [rt EXCEPT !.pending = FALSE, !.hid = <<fed.device>>]
                /\ IF e.bytes < Head(rt.hid).bytes THEN UNCHANGED <<input, seen>>
                   ELSE Queue(e.keys, fed)
    /\ UNCHANGED <<host, timedOut, budget>>
PollHidNothing ==
    /\ pc = "hid" /\ ~HidEvent
    /\ events' = IF HasEvent(events) THEN Polled(events) ELSE events
    /\ doorbell' = doorbell \cup (IF rt.pending THEN {} ELSE {"interrupt"})
    /\ rt' = [rt EXCEPT !.pending = TRUE] /\ rings' = [rings EXCEPT !.interrupt = HidStarted]
    /\ job' = [job EXCEPT !.tag = HidTag] /\ pc' = "idle"
    /\ UNCHANGED <<host, input, seen, timedOut, budget>>
PollHidExpired ==
    /\ pc = "hid" /\ ~HidEvent /\ rt.pending
    /\ events' = IF HasEvent(events) THEN Polled(events) ELSE events
    /\ rt' = [rt EXCEPT !.pending = FALSE] /\ Cancel("hid", "interrupt")
    /\ UNCHANGED <<host, input, seen, timedOut, budget>>

-----------------------------------------------------------------------------
(* The controller.  It executes commands in order and transfers when it      *)
(* likes, may refuse any, and posts the completion.                          *)
Completion(kind, ring, trb, slot, ok) ==
    [kind |-> kind, ring |-> ring, slot |-> slot, ok |-> ok, tag |-> trb.tag,
     data |-> host.plugged, keys |-> <<>>, report |-> {}, bytes |-> 0]

FreeSlots == {s \in 1 .. MaxSlots : s \notin host.slots /\ \A t \in 1 .. s - 1 : t \in host.slots}
CommandOutcomes(c) ==
    {[slot |-> c.slot, ok |-> FALSE, host |-> host]} \cup
    CASE c.name = "enable" ->
            {[slot |-> s, ok |-> TRUE, host |-> [host EXCEPT !.slots = @ \cup {s}]] : s \in FreeSlots}
      [] c.name = "disable" ->
            {[slot |-> c.slot, ok |-> TRUE,
              host |-> [host EXCEPT !.slots = @ \ {c.slot},
                                    !.addressed = IF @ = c.slot THEN 0 ELSE @]]}
      [] c.name = "address" ->
            {[slot |-> c.slot, ok |-> TRUE, host |-> [host EXCEPT !.addressed = c.slot, !.reported = <<>>]]
                : p \in {host.plugged} \ {"none"}}
      [] OTHER -> {[slot |-> c.slot, ok |-> TRUE, host |-> host]}
ControllerCommand ==
    /\ pc # "off" /\ HasTrb(rings.command) /\ HasRoom(events)
    /\ \E trb \in {NextTrb(rings.command)} : \E o \in CommandOutcomes(trb.what) :
         /\ events' = Posted(events, Completion("command", "command", trb, o.slot, o.ok))
         /\ host' = o.host
         /\ doorbell' = CASE trb.what.name = "stop" -> doorbell \ {trb.what.ring}
                          [] trb.what.name = "disable" -> {}
                          [] OTHER -> doorbell
    /\ rings' = [rings EXCEPT !.command = Taken(@)]
    /\ UNCHANGED <<rt, pc, job, input, seen, timedOut, budget>>

(* Keys in the order they were pressed, one byte each after the modifiers; a *)
(* mouse reports its first button.                                           *)
KeyBits(keys) ==
    UNION {{8 * i + b : b \in {n \in 0 .. 7 : (keys[i] \div 2 ^ n) % 2 = 1}} : i \in DOMAIN keys}
ReportBits(name, keys) ==
    IF name = "keyboard" THEN KeyBits(keys) ELSE {b \in {0} : keys # <<>>}

(* Only the last stage of a transfer, or an error, is reported.              *)
ControllerTransfer(ring) ==
    /\ pc # "off" /\ ring \in doorbell /\ HasTrb(rings[ring]) /\ HasRoom(events)
    /\ rings' = [rings EXCEPT ![ring] = Taken(@)]
    /\ \E trb \in {NextTrb(rings[ring])} :
         \E there \in {host.addressed = trb.what.slot /\ host.addressed # 0} :
         \/ /\ trb.what.name \in {"setup", "data"} /\ there
            /\ UNCHANGED <<events, host, doorbell>>
         \/ /\ trb.what.name \notin {"setup", "data"} /\ there
            /\ ring = "interrupt" => host.held # host.reported
            /\ events' = Posted(events,
                  [Completion("transfer", ring, trb, trb.what.slot, TRUE) EXCEPT
                     !.keys = host.held, !.report = ReportBits(host.plugged, host.held),
                     !.bytes = IF host.plugged = "keyboard" THEN 4 ELSE 3])
            /\ host' = IF ring = "interrupt" THEN [host EXCEPT !.reported = host.held] ELSE host
            /\ UNCHANGED doorbell
         \/ /\ events' = Posted(events, Completion("transfer", ring, trb, trb.what.slot, FALSE))
            /\ doorbell' = doorbell \ {ring} /\ UNCHANGED host
    /\ UNCHANGED <<rt, pc, job, input, seen, timedOut, budget>>

PortEvent ==
    [kind |-> "port", ring |-> "none", slot |-> 0, ok |-> TRUE, tag |-> TagMod,
     data |-> "none", keys |-> <<>>, report |-> {}, bytes |-> 0]
Plug ==
    /\ host.plugged = "none" /\ budget.stimuli > 0 /\ HasRoom(events)
    /\ \E name \in Replugs : host' = [host EXCEPT !.plugged = name]
    /\ budget' = [budget EXCEPT !.stimuli = @ - 1]
    /\ events' = IF pc = "off" THEN events ELSE Posted(events, PortEvent)
    /\ UNCHANGED <<rt, rings, doorbell, pc, job, input, seen, timedOut>>
Unplug ==
    /\ host.plugged # "none" /\ budget.stimuli > 0 /\ HasRoom(events)
    /\ host' = [host EXCEPT !.plugged = "none", !.addressed = 0, !.held = <<>>, !.reported = <<>>]
    /\ budget' = [budget EXCEPT !.stimuli = @ - 1]
    /\ events' = IF pc = "off" THEN events ELSE Posted(events, PortEvent)
    /\ UNCHANGED <<rt, rings, doorbell, pc, job, input, seen, timedOut>>
Stroke ==
    /\ host.plugged \in {"keyboard", "mouse"} /\ budget.stimuli > 0
    /\ \E keys \in {<<>>, <<4>>, <<5>>, <<4, 5>>} :
         host.held # keys /\ host' = [host EXCEPT !.held = keys]
    /\ budget' = [budget EXCEPT !.stimuli = @ - 1]
    /\ UNCHANGED <<rt, rings, doorbell, events, pc, job, input, seen, timedOut>>
InputRead ==
    /\ input > 0 /\ input' = 0
    /\ UNCHANGED <<rt, rings, doorbell, events, host, pc, job, seen, timedOut, budget>>

Kernel == StartHost \/ BootEnumerate \/ TakeEvent \/ GiveUp \/ PollRemove \/ PollEnumerate \/ Poll
          \/ PollHidReport \/ PollHidNothing \/ PollHidExpired
Controller == ControllerCommand \/ \E ring \in {"ep0", "interrupt", "in", "out"} : ControllerTransfer(ring)
Users == StopHost \/ Plug \/ Unplug \/ Stroke \/ InputRead

Next == Kernel \/ Controller \/ Users
Spec == Init /\ [][Next]_vars /\ WF_vars(Kernel) /\ WF_vars(ControllerTransfer("interrupt"))

-----------------------------------------------------------------------------
(* The controller finds an entry exactly when the driver has handed one over *)
(* that was not taken, and it finds the oldest: the cycle bits of TrbRing     *)
(* agree across wraps and resets.                                            *)
RingsAgree ==
    \A r \in DOMAIN rings :
        /\ HasTrb(rings[r]) <=> Outstanding(rings[r]) # <<>>
        /\ HasTrb(rings[r]) => NextTrb(rings[r]) = Head(Outstanding(rings[r]))

(* wait_for_command, wait_for_transfer and poll_interrupt_endpoint compare    *)
(* kind, slot and endpoint, never the request.  All the same a completion    *)
(* they accept belongs to the request they wait for, as long as no command   *)
(* was given up since the controller was started.                            *)
CompletionMatches ==
    HasEvent(events) /\ ~timedOut =>
        /\ pc \in {"command", "transfer", "cancel"} /\ Matches(NextEvent(events)) =>
              NextEvent(events).tag = job.tag
        /\ pc = "hid" /\ HidEvent => rt.pending /\ NextEvent(events).tag = job.tag

(* A device in use that is not being removed owns an enabled slot of the      *)
(* controller, whatever failed before, as long as no command was given up.   *)
SlotBacked == rt.device # "none" /\ job.for # "remove" /\ ~timedOut => rt.slot \in host.slots

(* The keys a keyboard in use is believed to hold are those of its last       *)
(* report, and the events in the input queue say so too, unless the queue     *)
(* was full: feed_keyboard loses and invents no press and no release.        *)
KeysFollow ==
    rt.device = "keyboard" /\ rt.hid # Absent =>
        /\ Range(Head(rt.hid).keys) \ {0} = Range(seen.report)
        /\ seen.dropped \/ seen.pressed = Range(seen.report)

(* A change of the keys reaches the HID driver, unless the device goes, is    *)
(* given up, or the keys change back.                                        *)
InputArrives ==
    (rt.device = "keyboard" /\ rt.hid # Absent /\ rt.interrupt /\ host.held # seen.report)
        ~> (rt.hid = Absent \/ host.plugged # "keyboard" \/ host.held = seen.report)

=============================================================================
