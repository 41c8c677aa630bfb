------------------------------ MODULE Ps2Input ------------------------------
(***************************************************************************)
(* PS/2 input on x86_64, from the 8042 controller to the event queue:      *)
(* src/drivers/ps2.rs, keyboard.rs, mouse.rs, src/input.rs, with the       *)
(* interrupts of src/irq.rs.                                               *)
(*                                                                         *)
(* One CPU runs the main loop of serial_debugger::run; an interrupt comes  *)
(* between any two steps of it, unless a controller command has masked     *)
(* them, and runs to its end while the devices go on sending.  A byte is a *)
(* string; only what the parsers tell apart is kept (prefixes, the bit     *)
(* that marks a first mouse byte, overflow, ACK and RESEND).  Layout and   *)
(* text are left out.                                                      *)
(***************************************************************************)
EXTENDS Naturals, Sequences, SequencesExt, FiniteSets, FiniteSetsExt, Irq, ByteRing

CONSTANTS
    RingSize,       \* QUEUE_CAPACITY
    EventSize,      \* EVENT_QUEUE_CAPACITY
    DrainLimit,     \* IRQ_DRAIN_LIMIT
    PollLimit,      \* POLL_LIMIT of the two drivers
    CommandRetries, \* COMMAND_RETRIES
    ScanCodes,      \* key -> the scan code sequence it sends
    Modifier,       \* key -> the modifier it sets while held, or "none"
    PauseCodes,     \* PAUSE
    HeldAtBoot,     \* sets of keys that may be down at boot
    PacketLength,   \* packet_len
    Packets,        \* packets the mouse sends
    FirstMarked,    \* mouse bytes with the bit that marks a first byte
    Overflows,      \* first bytes with an overflow bit
    ClockOff,       \* port -> bytes that, as a config, turn its clock off
    Translates,     \* bytes that, as a config, turn translation on
    MaxStimuli      \* key strokes, packets, commands and ticks (bound of the model)

ASSUME Ps2Assumption ==
    /\ RingSize \in Nat \ {0} /\ DrainLimit \in Nat
    /\ \A k \in DOMAIN ScanCodes : ScanCodes[k] \in Seq(STRING) /\ ScanCodes[k] # <<>>
    /\ PauseCodes \in Seq(STRING) /\ Packets \subseteq Seq(STRING)

Ports == {"kbd", "mouse"}
Keys == DOMAIN ScanCodes
NoByte == "-"
AllCodes == UNION {ToSet(ScanCodes[k]) : k \in Keys}
AllBytes ==
    AllCodes \cup ToSet(PauseCodes) \cup {"F0", "FA", "FE", "AA", "config"}
        \cup UNION {ToSet(m) : m \in Packets}
NoOut == [port |-> "kbd", byte |-> NoByte]

VARIABLES
    \* the hardware
    out,            \* the controller's output buffer
    wire,           \* port -> bytes its device has still to send
    irqBits,        \* ports whose interrupt the controller's config enables
    mute,           \* ports whose clock the config turns off
    translate,      \* the config has scan codes translated
    lines,          \* ports whose interrupt is requested
    down,           \* keys held down
    stimuli,
    \* the kernel
    ports,          \* KEYBOARD_PORT, MOUSE_PORT
    ring,           \* KEYBOARD_QUEUE, MOUSE_QUEUE with their indices
    parser,         \* Parser of the keyboard
    held, modifiers, \* KeyboardState
    packet,         \* bytes of PacketParser
    events,         \* number of events in EVENTS
    pc, local, budget,          \* the main loop
    cmd,            \* the command being sent: its port and attempt
    irq,            \* the interrupt handler: its port and remaining reads, or idle
    \* history
    disturbed,      \* ports of which a byte was dropped, or taken for an answer,
                    \*   or that were sent a command, or of which bytes came before
                    \*   the driver was there
    torn            \* a pointer event was made of bytes of different packets

config == <<irqBits, mute, translate>>
hwVars == <<out, wire, config, lines, down, stimuli>>
keyVars == <<parser, held, modifiers>>
mainVars == <<pc, local, budget, cmd>>
ps2Vars == <<hwVars, ports, ring, keyVars, packet, events, mainVars, irq, disturbed, torn, irqVars>>

Idle == [port |-> "none", left |-> 0]
NoCommand == [port |-> "kbd", attempt |-> 0]
NewParser == [ext |-> FALSE, brk |-> FALSE, pause |-> 0]

\* After drivers::init: the ports that passed their test are enabled and send,
\* without interrupts.
Init ==
    /\ out = NoOut /\ wire = [p \in Ports |-> <<>>]
    /\ irqBits = {} /\ mute = {} /\ translate = FALSE /\ lines = {}
    /\ \E keys \in HeldAtBoot : /\ down = keys
                               /\ disturbed = IF keys = {} THEN {} ELSE {"kbd"}
    /\ stimuli = 0
    /\ ports \in (SUBSET Ports) \ {{}}
    /\ ring = [p \in Ports |-> NewRing]
    /\ parser = NewParser /\ held = {} /\ modifiers = {}
    /\ packet = <<>> /\ events = 0
    /\ pc = "tables" /\ local = NoByte /\ budget = 0
    /\ cmd = NoCommand
    /\ irq = Idle
    /\ torn = FALSE
    /\ IrqInit

-----------------------------------------------------------------------------
(* The devices and the controller *)

Stimulus == stimuli < MaxStimuli /\ stimuli' = stimuli + 1

\* A key goes down or repeats, or goes up; the mouse moves.
Stroke(k, codes) ==
    /\ Stimulus /\ "kbd" \in ports /\ wire["kbd"] = <<>>
    /\ wire' = [wire EXCEPT !["kbd"] = codes]
    /\ UNCHANGED <<out, config, lines, ports, ring, keyVars, packet, events,
                   mainVars, irq, disturbed, torn, irqVars>>

\* The break sequence: F0 before the last byte.
BreakCodes(k) == Front(ScanCodes[k]) \o <<"F0", Last(ScanCodes[k])>>

Press(k) == Stroke(k, ScanCodes[k]) /\ down' = down \cup {k}
Release(k) == k \in down /\ Stroke(k, BreakCodes(k)) /\ down' = down \ {k}
PressPause == Stroke("Pause", PauseCodes) /\ UNCHANGED down

Move(packetBytes) ==
    /\ Stimulus /\ "mouse" \in ports /\ wire["mouse"] = <<>>
    /\ wire' = [wire EXCEPT !["mouse"] = packetBytes]
    /\ UNCHANGED <<out, config, lines, down, ports, ring, keyVars, packet,
                   events, mainVars, irq, disturbed, torn, irqVars>>

\* The next byte of a device fills the output buffer; if the config says so this
\* requests the port's interrupt.
Send(p) ==
    /\ out = NoOut /\ wire[p] # <<>> /\ p \notin mute
    /\ \E b \in IF p = "kbd" /\ translate THEN AllCodes ELSE {Head(wire[p])} :
          out' = [port |-> p, byte |-> b]
    /\ wire' = [wire EXCEPT ![p] = Tail(@)]
    /\ lines' = IF p \in irqBits THEN lines \cup {p} ELSE lines
    /\ UNCHANGED <<config, down, stimuli, ports, ring, keyVars, packet, events,
                   mainVars, irq, disturbed, torn, irqVars>>

-----------------------------------------------------------------------------
(* Interrupts *)

Booting == pc \in {"tables", "enable"}
Masked == pc \in {"cmdDrain", "cmdSend", "cmdAck"}

\* enqueue: a byte that finds the ring full is dropped.
Enqueue(p, b) ==
    /\ ring' = [ring EXCEPT ![p] = Enqueued(@, b, RingSize)]
    /\ disturbed' = IF IsFull(ring[p], RingSize) THEN disturbed \cup {p} ELSE disturbed

\* dispatch of a vector that is not a port's: the hard handler is done at once.
Interrupt(v) ==
    /\ ~Booting /\ ~Masked /\ irq = Idle
    /\ Stimulus
    /\ \E accepted \in IF v = "timer" THEN {TRUE} ELSE BOOLEAN : Dispatched(v, accepted)
    /\ UNCHANGED <<out, wire, config, lines, down, ports, ring, keyVars, packet, events,
                   mainVars, irq, disturbed, torn>>

\* dispatch of keyboard_hard or mouse_hard: drain_irq begins.
PortInterrupt(p) ==
    /\ p \in lines
    /\ ~Booting /\ ~Masked /\ irq = Idle
    /\ lines' = lines \ {p}
    /\ irq' = IF SlotOf(p) # {} /\ p \in ports THEN [port |-> p, left |-> DrainLimit] ELSE Idle
    /\ UNCHANGED <<out, wire, config, down, stimuli, ports, ring, keyVars,
                   packet, events, mainVars, disturbed, torn, irqVars>>

\* Mutant: the handler takes whatever byte there is for its own port's.
DrainIrqAny ==
    /\ irq # Idle
    /\ IF out = NoOut
       THEN irq' = Idle /\ UNCHANGED <<out, ring, disturbed>>
       ELSE /\ out' = NoOut
            /\ Enqueue(irq.port, out.byte)
            /\ irq' = IF irq.left = 1 THEN Idle ELSE [irq EXCEPT !.left = @ - 1]
    /\ UNCHANGED <<wire, config, lines, down, stimuli, ports, keyVars,
                   packet, events, mainVars, torn, irqVars>>
\* One round of drain_irq: it ends at an empty buffer, at a byte of the other
\* port and after its limit.
DrainIrq ==
    /\ irq # Idle
    /\ IF out = NoOut \/ out.port # irq.port
       THEN irq' = Idle /\ UNCHANGED <<out, ring, disturbed>>
       ELSE /\ out' = NoOut
            /\ Enqueue(irq.port, out.byte)
            /\ irq' = IF irq.left = 1 THEN Idle ELSE [irq EXCEPT !.left = @ - 1]
    /\ UNCHANGED <<wire, config, lines, down, stimuli, ports, keyVars,
                   packet, events, mainVars, torn, irqVars>>

-----------------------------------------------------------------------------
(* Boot: tables::init and enable_interrupts *)

\* Mutant: the second registration is forgotten.
RegisterIrqsOne(h) == IF "kbd" \in ports THEN Registered(h, "kbd") ELSE h
\* register_irqs: both ports or, when the second fails, none.
RegisterIrqs(h) ==
    LET k == IF "kbd" \in ports THEN Registered(h, "kbd") ELSE h
        m == IF "mouse" \in ports THEN Registered(k, "mouse") ELSE k
    IN  IF "kbd" \in ports /\ k = h THEN h
        ELSE IF "mouse" \in ports /\ m = k THEN Unregistered(k, "kbd") ELSE m

\* The timer and the ports; later the network driver.
TablesInit ==
    /\ pc = "tables"
    /\ handlers' = FoldSet(LAMBDA v, h : Registered(h, v),
                           RegisterIrqs(Registered(handlers, "timer")), Deferring \ {"timer"})
    /\ pc' = "enable"
    /\ UNCHANGED <<hwVars, ports, ring, keyVars, packet, events, local, budget, cmd, irq,
                   disturbed, torn, pending, pass, due>>

StartLoop == pc' = "kbd" /\ budget' = PollLimit

\* enable_interrupts reads the config, sets the interrupt bits and writes it
\* back.  A byte that a device sent before is read in place of the config: its
\* bits are written, and the config that was asked for arrives as a keyboard
\* byte.  Then interrupts are on.
EnableInterrupts ==
    /\ pc = "enable"
    /\ irqBits' = ports
    /\ \/ /\ out = NoOut
          /\ UNCHANGED <<out, mute, translate, lines, disturbed>>
       \/ /\ out # NoOut
          /\ mute' = {p \in Ports : out.byte \in ClockOff[p]}
          /\ translate' = (out.byte \in Translates)
          /\ out' = [port |-> "kbd", byte |-> "config"]
          /\ lines' = IF "kbd" \in ports THEN lines \cup {"kbd"} ELSE lines
          /\ disturbed' = disturbed \cup {"kbd", out.port}
    /\ StartLoop
    /\ UNCHANGED <<wire, down, stimuli, ports, ring, keyVars, packet, events, local,
                   cmd, irq, torn, irqVars>>

\* The controller does not answer; the kernel goes on without interrupts from it.
EnableInterruptsFails ==
    /\ pc = "enable"
    /\ StartLoop
    /\ UNCHANGED <<hwVars, ports, ring, keyVars, packet, events, local, cmd, irq, disturbed,
                   torn, irqVars>>

-----------------------------------------------------------------------------
(* keyboard::poll and mouse::poll *)

\* The first half of dequeue: the byte at the tail.  Interrupts may come between
\* it and the second half, which stores the tail.
Dequeue(p, at, after) ==
    /\ pc = at /\ local = NoByte /\ irq = Idle
    /\ IF IsEmpty(ring[p]) \/ budget = 0
       THEN pc' = after /\ budget' = PollLimit /\ UNCHANGED local
       ELSE local' = Front1(ring[p]) /\ UNCHANGED <<pc, budget>>
    /\ UNCHANGED <<hwVars, ports, ring, keyVars, packet, events, cmd, irq, disturbed, torn, irqVars>>

Taken(p) ==
    /\ ring' = [ring EXCEPT ![p] = Dequeued(@, RingSize)]
    /\ local' = NoByte
    /\ UNCHANGED <<hwVars, ports, pc, cmd, irq, irqVars>>

\* input::push: an event that finds the queue full is dropped.
Push == events' = IF events + 1 = EventSize THEN events ELSE events + 1

\* map_scan_code: the key of a scan code, as a set that is empty for none.
MapScanCode(ext, b) == {k \in Keys : ScanCodes[k] = IF ext THEN <<"E0", b>> ELSE <<b>>}

AfterCode(s) == [s EXCEPT !.ext = FALSE, !.brk = FALSE]

\* Parser::feed: the parser after a byte, and the scan event if there is one.
Parse(s, b) ==
    IF s.pause # 0
    THEN IF b # PauseCodes[s.pause + 1] THEN [parser |-> [s EXCEPT !.pause = 0], scan |-> {}]
         ELSE IF s.pause + 1 = Len(PauseCodes)
         THEN [parser |-> [s EXCEPT !.pause = 0], scan |-> {[key |-> "Pause", pressed |-> TRUE]}]
         ELSE [parser |-> [s EXCEPT !.pause = @ + 1], scan |-> {}]
    ELSE IF b = PauseCodes[1] THEN [parser |-> [NewParser EXCEPT !.pause = 1], scan |-> {}]
    ELSE IF b = "E0" THEN [parser |-> [s EXCEPT !.ext = TRUE], scan |-> {}]
    ELSE IF b = "F0" THEN [parser |-> [s EXCEPT !.brk = TRUE], scan |-> {}]
    ELSE [parser |-> AfterCode(s),
          scan |-> {[key |-> k, pressed |-> ~s.brk] : k \in MapScanCode(s.ext, b)}]

Locks == {"CAPS", "NUM", "SCROLL"}
ModifierOf(k) == IF k \in Keys THEN Modifier[k] ELSE "none"
IsRepeatable(k) == ModifierOf(k) = "none"

ApplyPress(k) ==
    IF ModifierOf(k) = "none" THEN modifiers
    ELSE IF ModifierOf(k) \in Locks \cap modifiers THEN modifiers \ {ModifierOf(k)}
    ELSE modifiers \cup {ModifierOf(k)}
ApplyRelease(k) == IF ModifierOf(k) \in Locks THEN modifiers ELSE modifiers \ {ModifierOf(k)}

\* KeyboardState::feed for a scan event.
Key(e) ==
    \/ /\ e.pressed /\ e.key \in held
       /\ (IsRepeatable(e.key) /\ Push) \/ UNCHANGED events    \* by the repeat policy
       /\ UNCHANGED <<held, modifiers>>
    \/ /\ e.pressed /\ e.key \notin held
       /\ held' = held \cup {e.key} /\ modifiers' = ApplyPress(e.key)
       /\ Push
    \/ /\ ~e.pressed /\ e.key \in held
       /\ held' = held \ {e.key} /\ modifiers' = ApplyRelease(e.key)
       /\ Push
    \/ /\ ~e.pressed /\ e.key \notin held
       /\ UNCHANGED <<held, modifiers, events>>

FeedKeyboard ==
    /\ pc = "kbd" /\ local # NoByte /\ irq = Idle
    /\ Taken("kbd") /\ budget' = budget - 1
    /\ \E r \in {Parse(parser, local)} :
          /\ parser' = r.parser
          /\ IF r.scan = {} THEN UNCHANGED <<held, modifiers, events>>
             ELSE \E e \in r.scan : Key(e)
    /\ UNCHANGED <<packet, disturbed, torn>>

\* PacketParser::feed.
Packet(bytes) ==
    IF Len(bytes) < PacketLength
    THEN packet' = bytes /\ UNCHANGED <<events, torn>>
    ELSE /\ packet' = <<>>
         /\ IF bytes[1] \in Overflows THEN UNCHANGED <<events, torn>>
            ELSE Push /\ torn' = (torn \/ bytes \notin Packets)

FeedMouse ==
    /\ pc = "mouse" /\ local # NoByte /\ irq = Idle
    /\ Taken("mouse") /\ budget' = budget - 1
    /\ IF packet = <<>> /\ local \notin FirstMarked
       THEN UNCHANGED <<packet, events, torn>>
       ELSE Packet(Append(packet, local))
    /\ UNCHANGED <<keyVars, disturbed>>

-----------------------------------------------------------------------------
(* The rest of the main loop: run_deferred and the debugger's commands *)

BeginPass ==
    /\ pc = "deferred" /\ irq = Idle
    /\ TakePending
    /\ pc' = "pass"
    /\ UNCHANGED <<hwVars, ports, ring, keyVars, packet, events, local, budget, cmd, irq,
                   disturbed, torn>>

\* Mutant: the pending bits are cleared when the pass is over.
PassStepClears ==
    /\ pc = "pass" /\ irq = Idle
    /\ IF pass = {} THEN pc' = "debug" /\ pending' = {} /\ UNCHANGED <<handlers, pass, due>>
       ELSE RunSlot /\ UNCHANGED pc
    /\ UNCHANGED <<hwVars, ports, ring, keyVars, packet, events, local, budget, cmd, irq,
                   disturbed, torn>>
PassStep ==
    /\ pc = "pass" /\ irq = Idle
    /\ IF pass = {} THEN pc' = "debug" /\ UNCHANGED irqVars ELSE RunSlot /\ UNCHANGED pc
    /\ UNCHANGED <<hwVars, ports, ring, keyVars, packet, events, local, budget, cmd, irq,
                   disturbed, torn>>

\* No command, or one that leaves the input alone; the input command, which
\* pops every event.
OtherCommand ==
    /\ pc = "debug" /\ irq = Idle
    /\ StartLoop
    /\ events' \in {events, 0}
    /\ UNCHANGED <<hwVars, ports, ring, keyVars, packet, local, cmd, irq, disturbed, torn,
                   irqVars>>

\* The ps2 command without argument empties both queues.
DrainCommand ==
    /\ pc = "debug" /\ irq = Idle
    /\ Stimulus
    /\ pc' = "drainKbd" /\ budget' = RingSize
    /\ UNCHANGED <<out, wire, config, lines, down, ports, ring, keyVars, packet, events, local, cmd, irq, disturbed, torn,
                   irqVars>>
Discard(p, at) ==
    /\ pc = at /\ local # NoByte /\ irq = Idle
    /\ Taken(p)
    /\ disturbed' = disturbed \cup {p}
    /\ UNCHANGED <<budget, keyVars, packet, events, torn>>

\* send_device_command(port, 0xff), by reset-keyboard and reset-mouse.
ResetCommand(p) ==
    /\ pc = "debug" /\ irq = Idle
    /\ p \in ports /\ Stimulus
    /\ cmd' = [port |-> p, attempt |-> 0]
    /\ pc' = "cmdDrain" /\ budget' = DrainLimit
    /\ disturbed' = disturbed \cup {p}
    /\ UNCHANGED <<out, wire, config, lines, down, ports, ring, keyVars, packet, events,
                   local, irq, torn, irqVars>>

cmdUnchanged == <<config, lines, down, stimuli, ports, keyVars, packet, events, local,
                  irq, torn, irqVars>>

\* drain_to_queues
DrainToQueues ==
    /\ pc = "cmdDrain"
    /\ IF out = NoOut \/ budget = 0
       THEN pc' = "cmdSend" /\ UNCHANGED <<out, ring, budget, disturbed>>
       ELSE /\ out' = NoOut /\ budget' = budget - 1 /\ UNCHANGED pc
            /\ IF out.port \in ports THEN Enqueue(out.port, out.byte) ELSE UNCHANGED <<ring, disturbed>>
    /\ UNCHANGED <<wire, cmd, cmdUnchanged>>

\* The command is written; the device may answer after what it is sending.
SendCommand ==
    /\ pc = "cmdSend"
    /\ \E answer \in {<<>>, <<"FA", "AA">>, <<"FE">>} :
          wire' = [wire EXCEPT ![cmd.port] = @ \o answer]
    /\ cmd' = [cmd EXCEPT !.attempt = @ + 1]
    /\ pc' = "cmdAck"
    /\ UNCHANGED <<out, ring, budget, disturbed, cmdUnchanged>>

EndCommand == StartLoop /\ cmd' = NoCommand

\* wait_for_ack: bytes of the other port are kept; RESEND is retried; any other
\* byte of the port ends the command.
WaitForAck ==
    /\ pc = "cmdAck" /\ out # NoOut
    /\ out' = NoOut
    /\ IF out.port # cmd.port THEN Enqueue(out.port, out.byte) ELSE UNCHANGED <<ring, disturbed>>
    /\ IF out.port # cmd.port THEN UNCHANGED <<pc, budget, cmd>>
       ELSE IF out.byte = "FE" /\ cmd.attempt < CommandRetries
       THEN pc' = "cmdSend" /\ UNCHANGED <<budget, cmd>>
       ELSE EndCommand
    /\ UNCHANGED <<wire, cmdUnchanged>>
AckTimeout ==
    /\ pc = "cmdAck" /\ out = NoOut
    /\ EndCommand
    /\ UNCHANGED <<out, wire, ring, disturbed, cmdUnchanged>>

Main ==
    \/ TablesInit \/ EnableInterrupts \/ EnableInterruptsFails
    \/ Dequeue("kbd", "kbd", "mouse") \/ FeedKeyboard
    \/ Dequeue("mouse", "mouse", "deferred") \/ FeedMouse
    \/ BeginPass \/ PassStep
    \/ OtherCommand \/ DrainCommand \/ (\E p \in Ports : ResetCommand(p))
    \/ Dequeue("kbd", "drainKbd", "drainMouse") \/ Discard("kbd", "drainKbd")
    \/ Dequeue("mouse", "drainMouse", "kbd") \/ Discard("mouse", "drainMouse")
    \/ DrainToQueues \/ SendCommand \/ WaitForAck \/ AckTimeout

Devices ==
    \/ \E k \in Keys : Press(k) \/ Release(k)
    \/ PressPause
    \/ \E m \in Packets : Move(m)

Next ==
    \/ Main \/ Devices
    \/ \E p \in Ports : Send(p) \/ PortInterrupt(p)
    \/ \E v \in Deferring : Interrupt(v)
    \/ DrainIrq

Spec == Init /\ [][Next]_ps2Vars

\* The CPU goes on, and a requested interrupt is delivered unless it is masked
\* again and again.
Fairness ==
    /\ WF_ps2Vars(Main) /\ WF_ps2Vars(DrainIrq)
    /\ \A p \in Ports : SF_ps2Vars(PortInterrupt(p))

FairSpec == Spec /\ Fairness

-----------------------------------------------------------------------------
(* Properties *)

Fifo(p) == INSTANCE BoundedFifo
    WITH Limit <- RingSize - 1, Values <- AllBytes,
         items <- RingContents(ring[p], RingSize), accepting <- TRUE, taking <- TRUE

\* Each byte queue is a bounded first-in first-out queue although interrupts
\* fill it between the two halves of dequeue: no byte is overwritten, reordered
\* or read twice.
QueuesAreFifo ==
    [][\A p \in Ports : Fifo(p)!FifoNext \/ UNCHANGED Fifo(p)!FifoVars]_ring

\* Bytes of the keyboard on their way to its driver.
Underway ==
    \/ wire["kbd"] # <<>> \/ (out # NoOut /\ out.port = "kbd")
    \/ ~IsEmpty(ring["kbd"])

\* Unless keyboard bytes were dropped or taken for something else, the driver's
\* idea of the keys held (KeyboardState.held) is right whenever everything sent
\* has been decoded (Pause has no break code and stays held).  Unless mouse
\* bytes were, every pointer event is made of the bytes of one packet.  Both
\* whoever moved the bytes from the controller to the queues: an interrupt, or
\* a command to the other device.
InputRight ==
    /\ "kbd" \notin disturbed /\ ~Underway => held \ {"Pause"} = down /\ parser = NewParser
    /\ "mouse" \notin disturbed => ~torn

\* A byte that may request an interrupt leaves the controller: drain_irq stops at
\* a byte of the other port, whose own interrupt then takes it.
ControllerDrained ==
    (out # NoOut /\ out.port \in irqBits) ~> (out = NoOut)

=============================================================================
