----------------------------- MODULE NetStack ------------------------------
(***************************************************************************)
(* The network stack (net.rs) over the virtio driver, a network that loses, *)
(* repeats and reorders frames, two DHCP servers and a TCP peer.            *)
(*                                                                         *)
(* A frame is a record: its kind, the address it goes to, its source, and   *)
(* what the handlers tell apart.  Builders and parsers, checksums included, *)
(* are the constructors below; a frame that does not parse is "bad" for the *)
(* stack and a "runt" for the driver.  MAC addresses are left out: an entry *)
(* of the ARP table is an address.  Payloads are lengths.                   *)
(*                                                                         *)
(* The kernel's main loop is one process: net::poll (up to RxPerPoll frames, *)
(* then the three timers), at most one command, drivers::poll.              *)
(* The device takes and stores frames between any two of its steps.         *)
(***************************************************************************)
EXTENDS VirtioNet

CONSTANTS
    RxPerPoll,     \* frames a poll takes (4)
    RetryLimit,    \* DHCP_RETRY_LIMIT, TCP_RETRY_LIMIT (3)
    MaxArp,        \* MAX_ARP (8)
    MaxPayload,    \* MAX_UDP_PAYLOAD, MAX_TCP_PAYLOAD (512)
    SeqMod,        \* 2^32: where TCP sequence numbers wrap
    ClientIsns,    \* clock values a connection may start from
    PeerIsn,       \* the peer's first sequence number
    MaxFrames,     \* frames the network delivers in a behaviour
    MaxCommands    \* commands the user issues that reach the driver

ASSUME StackAssumption ==
    /\ {RxPerPoll, RetryLimit, MaxArp, MaxPayload} \subseteq Nat \ {0}
    /\ SeqMod \in Nat /\ SeqMod > 2 /\ ClientIsns \subseteq 0 .. SeqMod - 1
    /\ PeerIsn \in 0 .. SeqMod - 1
    /\ MaxFrames \in Nat /\ MaxCommands \in Nat
    /\ MaxFrames + MaxCommands < SeqMod    \* sequence numbers do not come round

VARIABLES
    nic,        \* the adapter and its queues
    stack,      \* Stack: DHCP client, ARP table, sockets
    pc,         \* the step of the main loop
    received,   \* frames taken in this poll
    wire,       \* frames on their way to the kernel, each as often as it likes
    peer,       \* the TCP peer
    isn,        \* history: the clock value of the connection
    session,    \* what the user of this behaviour is about
    frames, commands   \* what is left of MaxFrames and MaxCommands

vars == <<nic, stack, pc, received, wire, peer, isn, session, frames, commands>>

Zero == "zero"             \* Ipv4Addr::ZERO
Broadcast == "broadcast"   \* Ipv4Addr::BROADCAST
Servers == {"s1", "s2"}    \* DHCP servers; each is the gateway and resolver of its lease
AddressOf(server) == [s1 |-> "a1", s2 |-> "a2"][server]
Peer == "peer"             \* a host beyond the gateway

Wrap(n) == n % SeqMod

-----------------------------------------------------------------------------
(* Frames the kernel builds.                                                *)
DhcpPayload(type, server, address) ==
    [kind |-> "dhcp", type |-> type, server |-> server, address |-> address]
ArpFrame(operation, target) == [kind |-> "arp", operation |-> operation, target |-> target]
UdpFrame(to, port, id) == [kind |-> "udp", to |-> to, port |-> port, id |-> id]
IcmpFrame(to, type) == [kind |-> "icmp", to |-> to, type |-> type]
TcpFrame(seq, ack, flags, length) ==
    [kind |-> "tcp", seq |-> seq, ack |-> ack, flags |-> flags, length |-> length]

(* Frames as the parsers deliver them.                                      *)
EthernetArp(operation, source, target) ==
    [kind |-> "arp", operation |-> operation, source |-> source, target |-> target]
DhcpAnswer(type, server, to) ==
    [kind |-> "dhcp", to |-> to, source |-> server, type |-> type,
     server |-> server, address |-> AddressOf(server)]
UdpPacket(source, to, port, length) ==
    [kind |-> "udp", to |-> to, source |-> source, port |-> port, length |-> length]
DnsAnswer(source, to, id, good) ==
    [kind |-> "dns", to |-> to, source |-> source, id |-> id, good |-> good]
IcmpPacket(source, to, type) ==
    [kind |-> "icmp", to |-> to, source |-> source, type |-> type]
TcpPacket(to, seq, ack, flags, length) ==
    [kind |-> "tcp", to |-> to, source |-> Peer, seq |-> seq, ack |-> ack,
     flags |-> flags, length |-> length]
BadFrame == [kind |-> "bad"]
RuntFrame == [kind |-> "runt"]

-----------------------------------------------------------------------------
(* Stack::new *)
NewTcp ==
    [state |-> "Closed", sequence |-> 0, acknowledgement |-> 0, pendingLen |-> 0,
     pendingSequence |-> 0, retries |-> 0, receivedLen |-> 0, remote |-> Zero]
NewDns == [pending |-> FALSE, id |-> 0, result |-> 0]
NewStack ==
    [configured |-> FALSE, ip |-> Zero, gateway |-> Zero, dnsServer |-> Zero,
     arp |-> [i \in 0 .. MaxArp - 1 |-> Zero], arpNext |-> 0,
     dhcp |-> "Idle", offered |-> Zero, server |-> Zero, dhcpRetries |-> 0,
     udpLen |-> 0, dns |-> NewDns, tcp |-> NewTcp]

(* A handler is a function of the stack and the adapter; ok is its Result.  *)
State == [stack |-> stack, nic |-> nic, ok |-> TRUE]

(* transmit: Busy leaves the frame unsent. *)
Send(s, frame) ==
    [s EXCEPT !.nic = Transmitted(@, frame), !.ok = CanTransmit(s.nic)]

-----------------------------------------------------------------------------
(* The ARP table.                                                           *)
ArpIndex(k, address) == {i \in DOMAIN k.arp : k.arp[i] = address}
First(set) == CHOOSE i \in set : \A j \in set : i <= j

(* learn_arp: an entry of the address, a free one, or the next in turn.     *)
LearnArp(k, address) ==
    IF address \in {Zero, Broadcast} \/ ArpIndex(k, address) # {} THEN k
    ELSE IF ArpIndex(k, Zero) # {}
    THEN [k EXCEPT !.arp[First(ArpIndex(k, Zero))] = address]
    ELSE [k EXCEPT !.arp[k.arpNext] = address, !.arpNext = (@ + 1) % MaxArp]

(* same_subnet: the servers are on the link, the peer is not.               *)
SameSubnet(address) == address \in Servers

(* next_hop: NoRoute, or the entry, or a request and WouldBlock.            *)
Target(k, destination) == IF SameSubnet(destination) THEN destination ELSE k.gateway
Routable(k, destination) ==
    k.configured /\ destination # Zero /\ Target(k, destination) # Zero
NextHop(s, destination) ==
    IF ~Routable(s.stack, destination) THEN [s EXCEPT !.ok = FALSE]
    ELSE IF ArpIndex(s.stack, Target(s.stack, destination)) # {} THEN [s EXCEPT !.ok = TRUE]
    ELSE [Send(s, ArpFrame("request", Target(s.stack, destination))) EXCEPT !.ok = FALSE]

(* next_hop, then the frame itself.                                         *)
SendTo(s, destination, frame) ==
    LET hop == NextHop(s, destination) IN IF hop.ok THEN Send(hop, frame) ELSE hop

-----------------------------------------------------------------------------
(* The DHCP client.                                                         *)
SendDhcpDiscover(s) == Send(s, DhcpPayload("discover", Zero, Zero))
SendDhcpRequest(s) == Send(s, DhcpPayload("request", s.stack.server, s.stack.offered))

(* Mutation of Offered: an offer is taken in any state but Bound.           *)
OfferedAgain(s, f) ==
    IF s.stack.dhcp = "Bound" THEN s
    ELSE SendDhcpRequest(
            [s EXCEPT !.stack.offered = f.address, !.stack.server = f.server,
                      !.stack.dhcp = "Requesting", !.stack.dhcpRetries = 0])

(* handle_dhcp, by type of message. *)
Offered(s, f) ==
    IF s.stack.dhcp # "Discovering" THEN s
    ELSE SendDhcpRequest(
            [s EXCEPT !.stack.offered = f.address, !.stack.server = f.server,
                      !.stack.dhcp = "Requesting", !.stack.dhcpRetries = 0])
Acknowledged(s, f) ==
    IF s.stack.dhcp # "Requesting" THEN s
    ELSE [s EXCEPT !.stack.ip = f.address, !.stack.gateway = f.server,
                   !.stack.dnsServer = f.server, !.stack.configured = TRUE,
                   !.stack.dhcp = "Bound"]
HandleDhcp(s, f) ==
    CASE f.type = "offer" -> Offered(s, f)
      [] f.type = "ack" -> Acknowledged(s, f)
      [] f.type = "nak" -> [s EXCEPT !.stack.dhcp = "Idle", !.ok = FALSE]

(* poll_dhcp, late saying that the retry time is over.                      *)
DhcpWaiting(k) == k.dhcp \in {"Discovering", "Requesting"}
PolledDhcp(s, late) ==
    IF ~DhcpWaiting(s.stack) \/ ~late THEN s
    ELSE IF s.stack.dhcpRetries >= RetryLimit THEN [s EXCEPT !.stack.dhcp = "Idle"]
    ELSE LET counted == [s EXCEPT !.stack.dhcpRetries = @ + 1]
         IN  IF s.stack.dhcp = "Requesting" THEN SendDhcpRequest(counted)
             ELSE SendDhcpDiscover(counted)

-----------------------------------------------------------------------------
(* The resolver.                                                            *)
(* start_dns_query under the identifier id.                                 *)
DnsQuery(s, id) ==
    LET sent == SendTo(s, s.stack.dnsServer, UdpFrame(s.stack.dnsServer, "dns", id))
    IN  IF sent.ok THEN [sent EXCEPT !.stack.dns = [pending |-> TRUE, id |-> id, result |-> 0]]
        ELSE sent

(* Mutation of HandleDns: the identifier of the answer is not compared.     *)
HandleDnsAny(s, f) ==
    IF ~s.stack.dns.pending THEN s
    ELSE IF ~f.good THEN [s EXCEPT !.ok = FALSE]
    ELSE [s EXCEPT !.stack.dns.result = f.id, !.stack.dns.pending = FALSE]

(* handle_dns; the address is known by the identifier of its query.         *)
HandleDns(s, f) ==
    IF ~s.stack.dns.pending THEN s
    ELSE IF f.id # s.stack.dns.id \/ ~f.good THEN [s EXCEPT !.ok = FALSE]
    ELSE [s EXCEPT !.stack.dns.result = f.id, !.stack.dns.pending = FALSE]

(* poll_dns *)
PolledDns(s, late) == IF late THEN [s EXCEPT !.stack.dns.pending = FALSE] ELSE s

-----------------------------------------------------------------------------
(* The TCP socket.                                                          *)
SendTcpSegment(s, flags, length) ==
    SendTo(s, s.stack.tcp.remote,
           TcpFrame(s.stack.tcp.sequence, s.stack.tcp.acknowledgement, flags, length))

(* start_tcp: the SYN goes out before the socket changes.                   *)
StartTcp(s, sequence) ==
    LET sent == SendTo(s, Peer, TcpFrame(sequence, 0, {"SYN"}, 0))
    IN  IF sent.ok
        THEN [sent EXCEPT !.stack.tcp =
                [@ EXCEPT !.remote = Peer, !.sequence = sequence, !.acknowledgement = 0,
                          !.state = "SynSent", !.pendingLen = 0, !.retries = 0]]
        ELSE sent

(* send_tcp *)
SendTcp(s, length) ==
    LET sent == SendTcpSegment(s, {"ACK", "PSH"}, length)
    IN  IF sent.ok
        THEN [sent EXCEPT !.stack.tcp =
                [@ EXCEPT !.pendingLen = length, !.pendingSequence = s.stack.tcp.sequence,
                          !.retries = 0]]
        ELSE sent

PendingEnd(tcp) == Wrap(tcp.pendingSequence + tcp.pendingLen)

(* handle_tcp, SYN and ACK while SynSent: both numbers move first.          *)
Connected(s, f) ==
    LET sent == SendTcpSegment(
                    [s EXCEPT !.stack.tcp.acknowledgement = Wrap(f.seq + 1),
                              !.stack.tcp.sequence = Wrap(@ + 1)], {"ACK"}, 0)
    IN  IF sent.ok THEN [sent EXCEPT !.stack.tcp.state = "Established"] ELSE sent

(* Mutation of AckTaken: any acknowledgement of the connection will do.     *)
AckTakenAny(tcp, f) ==
    IF "ACK" \in f.flags /\ tcp.pendingLen # 0
    THEN [tcp EXCEPT !.sequence = PendingEnd(tcp), !.pendingLen = 0] ELSE tcp

(* The acknowledgement is compared as a plain number.                       *)
AckTaken(tcp, f) ==
    IF "ACK" \in f.flags /\ tcp.pendingLen # 0 /\ f.ack >= PendingEnd(tcp)
    THEN [tcp EXCEPT !.sequence = PendingEnd(tcp), !.pendingLen = 0] ELSE tcp

(* Data: acknowledged whatever its place in the stream; too long a payload  *)
(* is not stored.                                                           *)
DataTaken(s, f) ==
    IF f.length = 0 THEN s
    ELSE SendTcpSegment(
            [s EXCEPT !.stack.tcp.acknowledgement = Wrap(f.seq + f.length),
                      !.stack.tcp.receivedLen = IF f.length <= MaxPayload THEN f.length ELSE @],
            {"ACK"}, 0)

(* FIN, closing when its acknowledgement is out.                            *)
FinTaken(s, acknowledgement) ==
    LET sent == SendTcpSegment([s EXCEPT !.stack.tcp.acknowledgement = acknowledgement], {"ACK"}, 0)
    IN  IF sent.ok THEN [sent EXCEPT !.stack.tcp.state = "Closed"] ELSE sent

(* accepts_ip, accepts_dhcp_response *)
Accepts(k, f) == f.to \in {Broadcast, k.ip} \/ (f.kind = "dhcp" /\ ~k.configured)

(* handle_tcp up to the second segment it may send: after data with a FIN   *)
(* the device can act first, and the handler goes on at "fin".              *)
HandleTcp(s, f) ==
    LET tcp == s.stack.tcp IN
    CASE f.source # tcp.remote -> s
      [] f.source = tcp.remote /\ "RST" \in f.flags ->
            [s EXCEPT !.stack.tcp.state = "Closed", !.stack.tcp.pendingLen = 0]
      [] f.source = tcp.remote /\ "RST" \notin f.flags /\ tcp.state = "SynSent" ->
            IF {"SYN", "ACK"} \subseteq f.flags THEN Connected(s, f) ELSE s
      [] f.source = tcp.remote /\ "RST" \notin f.flags /\ tcp.state = "Closed" -> s
      [] OTHER ->
            LET acked == [s EXCEPT !.stack.tcp = AckTaken(@, f)]
            IN  IF "FIN" \in f.flags /\ f.length = 0
                THEN FinTaken(acked, Wrap(f.seq + 1))
                ELSE DataTaken(acked, f)
FinAhead(s, f) ==
    /\ f.kind = "tcp" /\ Accepts(s.stack, f) /\ f.source = s.stack.tcp.remote
    /\ "FIN" \in f.flags /\ f.length # 0 /\ s.stack.tcp.state = "Established" /\ s.ok

(* A SYN or a payload is out and not acknowledged.                          *)
TcpWaiting(tcp) ==
    tcp.state = "SynSent" \/ (tcp.state = "Established" /\ tcp.pendingLen # 0)

(* Mutation of PolledTcp: only a segment that went out counts as a try.     *)
PolledTcpUncounted(s, late) ==
    LET tcp == s.stack.tcp
        sent == IF tcp.state = "SynSent" THEN SendTcpSegment(s, {"SYN"}, 0)
                ELSE SendTcpSegment(s, {"ACK", "PSH"}, tcp.pendingLen)
    IN  IF ~TcpWaiting(tcp) \/ ~late THEN s
        ELSE IF tcp.retries >= RetryLimit
        THEN [s EXCEPT !.stack.tcp.state = "Closed", !.stack.tcp.pendingLen = 0]
        ELSE IF sent.ok THEN [sent EXCEPT !.stack.tcp.retries = @ + 1] ELSE sent

(* poll_tcp *)
PolledTcp(s, late) ==
    LET tcp == s.stack.tcp
        counted == [s EXCEPT !.stack.tcp.retries = @ + 1]
    IN  IF ~TcpWaiting(tcp) \/ ~late THEN s
        ELSE IF tcp.retries >= RetryLimit
        THEN [s EXCEPT !.stack.tcp.state = "Closed", !.stack.tcp.pendingLen = 0]
        ELSE IF tcp.state = "SynSent" THEN SendTcpSegment(counted, {"SYN"}, 0)
        ELSE SendTcpSegment(counted, {"ACK", "PSH"}, tcp.pendingLen)

-----------------------------------------------------------------------------
(* Frames received.                                                         *)
HandleArp(s, f) ==
    LET learned == [s EXCEPT !.stack = LearnArp(@, f.source)]
    IN  IF f.operation = "request" /\ f.target = s.stack.ip /\ s.stack.configured
        THEN Send(learned, ArpFrame("reply", f.source)) ELSE learned

HandleIcmp(s, f) ==
    IF f.type = "echo" /\ s.stack.configured THEN Send(s, IcmpFrame(f.source, "reply")) ELSE s

(* handle_udp for the diagnostic socket; the last datagram is kept.         *)
HandleUdp(s, f) ==
    IF f.port = "socket" /\ f.length <= MaxPayload THEN [s EXCEPT !.stack.udpLen = f.length] ELSE s

(* handle_frame *)
HandleFrame(s, f) ==
    IF f.kind = "bad" THEN [s EXCEPT !.ok = FALSE]
    ELSE IF f.kind = "arp" THEN HandleArp(s, f)
    ELSE IF ~Accepts(s.stack, f) THEN s
    ELSE LET known == IF s.stack.configured THEN [s EXCEPT !.stack = LearnArp(@, f.source)] ELSE s
         IN  CASE f.kind = "dhcp" -> HandleDhcp(known, f)
               [] f.kind = "dns" -> HandleDns(known, f)
               [] f.kind = "udp" -> HandleUdp(known, f)
               [] f.kind = "icmp" -> HandleIcmp(known, f)
               [] f.kind = "tcp" -> HandleTcp(known, f)

-----------------------------------------------------------------------------
(* The main loop.                                                           *)
Apply(s) == stack' = s.stack /\ nic' = s.nic
World == <<wire, peer, isn, session, frames, commands>>

(* The first of the timers that has something to look at; a poll that would  *)
(* return at once is no step.                                               *)
Timer(k, from) ==
    CASE from = "dhcp" /\ DhcpWaiting(k) -> "dhcp"
      [] from # "tcp" /\ ~(from = "dhcp" /\ DhcpWaiting(k)) /\ k.dns.pending -> "dns"
      [] ~(from = "dhcp" /\ DhcpWaiting(k)) /\ ~(from # "tcp" /\ k.dns.pending)
         /\ TcpWaiting(k.tcp) -> "tcp"
      [] OTHER -> "command"

(* Stack::poll: a frame is taken and handled, *)
Receive ==
    /\ pc = "receive" /\ received < RxPerPoll /\ HasUsed(nic.rx)
    /\ \E f \in {FrameUsed(nic)} :
         IF f.kind = "runt"
         THEN nic' = Received(nic) /\ pc' = Timer(stack, "dhcp") /\ UNCHANGED <<stack, received>>
         ELSE \E s \in {HandleFrame([State EXCEPT !.nic = Received(nic)], f)} :
                /\ Apply(s) /\ received' = received + 1
                /\ pc' = IF FinAhead(s, f) THEN "fin" ELSE "receive"
    /\ UNCHANGED World

(* the second acknowledgement of handle_tcp, *)
Fin ==
    /\ pc = "fin" /\ pc' = "receive"
    /\ Apply(FinTaken(State, Wrap(stack.tcp.acknowledgement + 1)))
    /\ UNCHANGED <<received, World>>

(* the loop ends, *)
ReceiveDone ==
    /\ pc = "receive" /\ (received = RxPerPoll \/ ~HasUsed(nic.rx))
    /\ pc' = Timer(stack, "dhcp")
    /\ UNCHANGED <<stack, nic, received, World>>

(* and the timers are looked at.                                            *)
PollDhcp(late) ==
    /\ pc = "dhcp" /\ pc' = Timer(stack, "dns") /\ Apply(PolledDhcp(State, late))
    /\ UNCHANGED <<received, World>>
PollDns(late) ==
    /\ pc = "dns" /\ pc' = Timer(stack, "tcp") /\ Apply(PolledDns(State, late))
    /\ UNCHANGED <<received, World>>
PollTcp(late) ==
    /\ pc = "tcp" /\ pc' = "command" /\ Apply(PolledTcp(State, late))
    /\ UNCHANGED <<received, World>>

(* The commands of the serial debugger.  One that returns an error before    *)
(* it touches the adapter changes nothing.                                   *)
(* The rest of the loop is drivers::poll, as far as this adapter goes.       *)
LoopEnds(s) ==
    /\ pc = "command" /\ pc' = "receive" /\ received' = 0
    /\ stack' = s.stack /\ nic' = DriverPoll(s.nic)
    /\ UNCHANGED <<wire, peer, session, frames>>
NoCommand == LoopEnds(State) /\ UNCHANGED <<isn, commands>>
Issue(s) == commands > 0 /\ commands' = commands - 1 /\ LoopEnds(s)

TransmitPacket ==
    session = "datagrams" /\ Issue(Send(State, BadFrame)) /\ UNCHANGED isn
Ping(destination) ==
    /\ session = "datagrams" /\ Routable(stack, destination)
    /\ Issue(SendTo(State, destination, IcmpFrame(destination, "echo"))) /\ UNCHANGED isn
UdpSend(destination) ==
    /\ session = "datagrams" /\ Routable(stack, destination)
    /\ Issue(SendTo(State, destination, UdpFrame(destination, "test", 0))) /\ UNCHANGED isn
(* The clock and a counter, 16 bits of their sum: a new identifier, or one    *)
(* that comes round again.                                                    *)
Resolve ==
    /\ session = "names"
    /\ stack.configured /\ stack.dnsServer # Zero /\ ~stack.dns.pending
    /\ \E id \in 1 .. MaxCommands + 1 - commands : Issue(DnsQuery(State, id))
    /\ UNCHANGED isn
TcpConnect(sequence) ==
    /\ session = "stream"
    /\ stack.tcp.state = "Closed" /\ Routable(stack, Peer)
    /\ isn = SeqMod       \* one connection in a behaviour
    /\ \E s \in {StartTcp(State, sequence)} :
         Issue(s) /\ isn' = IF s.ok THEN sequence ELSE isn
TcpSend(length) ==
    /\ stack.tcp.state = "Established" /\ stack.tcp.pendingLen = 0
    /\ Issue(SendTcp(State, length)) /\ UNCHANGED isn

(* Commands that read take nothing from the budget.                         *)
UdpReceive ==
    /\ stack.udpLen # 0 /\ LoopEnds([State EXCEPT !.stack.udpLen = 0])
    /\ UNCHANGED <<isn, commands>>
TcpReceive ==
    /\ stack.tcp.receivedLen # 0 /\ LoopEnds([State EXCEPT !.stack.tcp.receivedLen = 0])
    /\ UNCHANGED <<isn, commands>>
ReceivePacket ==
    /\ session = "datagrams" /\ HasUsed(nic.rx) /\ LoopEnds([State EXCEPT !.nic = Received(nic)])
    /\ UNCHANGED <<isn, commands>>

-----------------------------------------------------------------------------
(* The network.  What a host answers stays on the wire: it may arrive late,  *)
(* out of order, more than once or never.                                    *)
Noise ==
    CASE session = "boot" -> {BadFrame}
      [] session = "datagrams" ->
            {RuntFrame, EthernetArp("request", stack.gateway, stack.ip),
             IcmpPacket(Peer, stack.ip, "echo")}
            \cup {UdpPacket("other", stack.ip, "socket", n) : n \in {1, MaxPayload + 1}}
      [] session = "names" -> {EthernetArp("request", stack.gateway, stack.ip)}
      [] session = "stream" -> {}

DeviceReceive ==
    /\ frames > 0 /\ HasAvailable(nic.rx)
    /\ \E f \in wire \cup Noise : nic' = DeviceStored(nic, f)
    /\ frames' = frames - 1
    /\ UNCHANGED <<stack, pc, received, wire, peer, isn, session, commands>>

(* The peer: an honest TCP endpoint with a listening socket.                 *)
Syn(f) == "SYN" \in f.flags
PeerTakes(f) ==
    IF Syn(f)
    THEN IF peer.state = "Listen"
         THEN [peer EXCEPT !.state = "SynReceived", !.rcv = Wrap(f.seq + 1)] ELSE peer
    ELSE LET heard == IF peer.state = "SynReceived" /\ f.ack = Wrap(PeerIsn + 1)
                      THEN [peer EXCEPT !.state = "Established", !.snd = Wrap(PeerIsn + 1)]
                      ELSE peer
         IN  IF heard.state = "Established" /\ f.seq = heard.rcv
             THEN [heard EXCEPT !.rcv = Wrap(@ + f.length)] ELSE heard
PeerAnswers(f, after) ==
    IF Syn(f) /\ after.state = "SynReceived"
    THEN {TcpPacket(stack.ip, PeerIsn, after.rcv, {"SYN", "ACK"}, 0)}
    ELSE IF f.length # 0 /\ after.state = "Established"
    THEN {TcpPacket(stack.ip, after.snd, after.rcv, {"ACK"}, 0)}
    ELSE {}

(* Answers of the other hosts; a server grants or refuses a request.         *)
Answers(f, granted) ==
    CASE f.kind = "dhcp" /\ f.type = "discover" ->
            {DhcpAnswer("offer", s, AddressOf(s)) : s \in Servers}
      [] f.kind = "dhcp" /\ f.type = "request" ->
            {IF granted THEN DhcpAnswer("ack", f.server, AddressOf(f.server))
             ELSE DhcpAnswer("nak", f.server, Broadcast)}
      [] f.kind = "arp" /\ f.operation = "request" ->
            {EthernetArp("reply", f.target, stack.ip)}
      [] f.kind = "udp" /\ f.port = "dns" -> {DnsAnswer(f.to, stack.ip, f.id, granted)}
      [] OTHER -> {}

DeviceTransmit ==
    /\ HasAvailable(nic.tx) /\ nic' = DeviceSent(nic)
    /\ \E f \in {nic.txBuffer}, granted \in BOOLEAN :
         IF f.kind = "tcp"
         THEN peer' = PeerTakes(f) /\ wire' = wire \cup PeerAnswers(f, PeerTakes(f))
         ELSE wire' = wire \cup Answers(f, granted) /\ UNCHANGED peer
    /\ UNCHANGED <<stack, pc, received, isn, session, frames, commands>>

PeerSend(length, flags) ==
    /\ peer.state = "Established" /\ peer.left > 0 /\ frames > 0
    /\ wire' = wire \cup {TcpPacket(stack.ip, peer.snd, peer.rcv, flags, length)}
    /\ peer' = [peer EXCEPT !.snd = Wrap(@ + length + (IF "FIN" \in flags THEN 1 ELSE 0)),
                            !.left = @ - 1,
                            !.state = IF flags \cap {"FIN", "RST"} = {} THEN @ ELSE "Closed"]
    /\ UNCHANGED <<nic, stack, pc, received, isn, session, frames, commands>>

-----------------------------------------------------------------------------
NewPeer == [state |-> "Listen", rcv |-> 0, snd |-> 0, left |-> 1]

(* init, after probe: DISCOVER is out.  The other initial states are two that *)
(* boot reaches: s1 has offered and granted its address, and the frames of     *)
(* that exchange are gone; or the gateway was also asked for and has answered. *)
Booted == SendDhcpDiscover([stack |-> [NewStack EXCEPT !.dhcp = "Discovering"],
                            nic |-> NewAdapter, ok |-> TRUE])
Answered(s, f) ==
    HandleFrame([s EXCEPT !.nic = Received(DeviceStored(DeviceSent(@), f))], f)
Idled(s) == [s EXCEPT !.nic = DriverPoll(@)]
Leased ==
    Idled(Answered(Answered(Booted, DhcpAnswer("offer", "s1", AddressOf("s1"))),
                   DhcpAnswer("ack", "s1", AddressOf("s1"))))
Resolved ==
    Idled(Answered(Send(Leased, ArpFrame("request", "s1")),
                   EthernetArp("reply", "s1", AddressOf("s1"))))

Init ==
    /\ \E offer \in Offers :
         IF Probe(offer)
         THEN /\ pc = "receive" /\ session \in {"boot", "names", "stream", "datagrams"}
              /\ \E s \in {CASE session = "boot" -> Booted [] session = "datagrams" -> Leased
                            [] OTHER -> Resolved} :
                   stack = s.stack /\ nic = s.nic
         ELSE pc = "absent" /\ session = "boot" /\ stack = NewStack /\ nic = NewAdapter
    /\ wire = {} /\ received = 0 /\ peer = NewPeer /\ isn = SeqMod
    /\ frames = MaxFrames /\ commands = MaxCommands

Loop ==
    \/ Receive \/ Fin \/ ReceiveDone
    \/ \E late \in BOOLEAN : PollDhcp(late) \/ PollDns(late) \/ PollTcp(late)
    \/ NoCommand \/ UdpReceive \/ TcpReceive \/ ReceivePacket \/ TransmitPacket \/ Resolve
    \/ \E d \in {Peer, stack.gateway} : Ping(d) \/ UdpSend(d)
    \/ \E n \in ClientIsns : TcpConnect(n)
    \/ TcpSend(1)

(* Without an adapter the stack is not there and polls do nothing.           *)
Absent == pc = "absent" /\ UNCHANGED vars

Network ==
    /\ pc # "absent"
    /\ \/ DeviceReceive \/ DeviceTransmit
       \/ \E n \in {1, MaxPayload + 1}, fin \in SUBSET {"FIN"} : PeerSend(n, {"ACK"} \cup fin)
       \/ PeerSend(0, {"RST"}) \/ PeerSend(0, {"FIN", "ACK"})

Next == Loop \/ Network \/ Absent

(* The loop has no blocking step, and the clock goes on: a timer that is     *)
(* looked at again and again is over at some time.  Nothing is assumed of    *)
(* the device and of the network.                                            *)
Spec ==
    /\ Init /\ [][Next]_vars
    /\ WF_vars(Loop)
    /\ SF_vars(PollDhcp(TRUE)) /\ SF_vars(PollDns(TRUE)) /\ SF_vars(PollTcp(TRUE))

-----------------------------------------------------------------------------
(* Every receive buffer is, once, either published and not used by the       *)
(* device, or used and not read by the driver, also when the indices wrap    *)
(* and when a frame is refused; and the one transmit buffer is with the      *)
(* device exactly while the driver thinks so, so that no frame is overwritten *)
(* before it is sent.                                                        *)
Values(f) == {f[i] : i \in DOMAIN f}
BuffersOwned ==
    LET given == Between(nic.rx.ring, nic.rx.seen, nic.rx.available)
        unread == Between(nic.rx.done, nic.rx.used, nic.rx.deviceUsed)
    IN  /\ Values(given) \cup Values(unread) = 0 .. RxBuffers - 1
        /\ Len(given) + Len(unread) = RxBuffers
        /\ (nic.tx.available - nic.tx.used) % IndexMod = IF nic.busy THEN 1 ELSE 0

(* The address in use was acknowledged by the server whose offer was taken   *)
(* and requested, and gateway and resolver are of the same lease, whatever   *)
(* of the two servers' answers are late, repeated or lost (handle_dhcp).     *)
(* The servers are honest: handle_dhcp does not compare the server of an ACK, *)
(* so that it matters that a server acknowledges only what it was asked.     *)
LeaseFromServer ==
    stack.configured =>
        /\ session = "boot" => DhcpAnswer("ack", stack.server, stack.ip) \in wire
        /\ stack.ip = AddressOf(stack.server)
        /\ stack.gateway = stack.server /\ stack.dnsServer = stack.server

(* A resolved address comes from an answer with the identifier of the last   *)
(* query, not of an earlier one that was given up (handle_dns, poll_dns).    *)
(* Two queries may have the same identifier; nothing tells their answers     *)
(* apart, and the answer to the earlier one is then taken for the later.     *)
AnswerMatchesQuery == stack.dns.result # 0 => stack.dns.result = stack.dns.id

(* A payload stops being retransmitted on an open connection only when the   *)
(* peer has it, whatever acknowledgements are late, lost or repeated.  The   *)
(* code compares them as plain numbers: not claimed once the sequence        *)
(* numbers of the connection have wrapped.                                   *)
AckedWasReceived ==
    [][/\ TcpWaiting(stack.tcp) /\ stack.tcp.state = "Established"
       /\ stack'.tcp.state = "Established" /\ stack'.tcp.pendingLen = 0
       /\ PendingEnd(stack.tcp) > isn
       => peer.rcv = PendingEnd(stack.tcp)]_vars

(* Each client comes to an end: a lease, an address, a connection or a       *)
(* payload that is waited for is there or is given up, although nothing is   *)
(* assumed of the network and the transmitter may stay busy for ever.        *)
ClientsSettle ==
    /\ DhcpWaiting(stack) ~> ~DhcpWaiting(stack)
    /\ stack.dns.pending ~> ~stack.dns.pending
    /\ TcpWaiting(stack.tcp) ~> ~TcpWaiting(stack.tcp)

=============================================================================
