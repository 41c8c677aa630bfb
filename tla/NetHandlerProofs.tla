-------------------------- MODULE NetHandlerProofs --------------------------
(***************************************************************************)
(* The invariant of the network stack and its driver (NetStack.tla,        *)
(* VirtioNet.tla), and lemmas about the operators they are made of: ring   *)
(* indices, the operations of the adapter, the handlers of the protocols,  *)
(* sequence numbers, the socket and the commands.  NetStackProofs has the  *)
(* device, the peer, the steps and the theorems.                           *)
(***************************************************************************)
EXTENDS NetStack, TLAPS

Indices == 0 .. IndexMod - 1
Buffers == 0 .. RxBuffers - 1

\* The slot of a queue i places after index a.
SlotAt(a, i) == (a + i) % QueueSize

Queues ==
    [ring : [Slots -> Buffers], available : Indices, used : Indices,
     done : [Slots -> Buffers], deviceUsed : Indices, seen : Indices]

\* The receive buffers in the order in which the driver will see them: first the
\* completions it has not read, then what the device has still to fill.
Circulating(q, i) ==
    IF i < Pending(q) THEN q.done[SlotAt(q.used, i)] ELSE q.ring[SlotAt(q.used, i)]

\* The receive queue: the device completes in order, RxBuffers places are in
\* circulation, and every buffer has exactly one of them.
RxOK(q) ==
    /\ q \in Queues
    /\ q.seen = q.deviceUsed /\ Pending(q) \in 0 .. RxBuffers
    /\ q.available = (q.used + RxBuffers) % IndexMod
    /\ \A i, j \in Buffers : Circulating(q, i) = Circulating(q, j) => i = j
    /\ \A b \in Buffers : \E i \in Buffers : Circulating(q, i) = b

\* The transmit queue: one place is in circulation while the driver is busy.
TxOK(q, busy) ==
    /\ q \in Queues
    /\ q.seen = q.deviceUsed /\ Pending(q) \in 0 .. (IF busy THEN 1 ELSE 0)
    /\ q.available = (q.used + (IF busy THEN 1 ELSE 0)) % IndexMod

NicOK(n) ==
    /\ n = [rx |-> n.rx, tx |-> n.tx, rxBuffer |-> n.rxBuffer, txBuffer |-> n.txBuffer,
            busy |-> n.busy]
    /\ n.busy \in BOOLEAN
    /\ n.rxBuffer = [b \in Buffers |-> n.rxBuffer[b]]
    /\ RxOK(n.rx) /\ TxOK(n.tx, n.busy)

\* Between adapters n and m at most a frame of fs was given to the device.
NicStep(n, m, fs) ==
    /\ NicOK(m) /\ m.rx = n.rx /\ m.rxBuffer = n.rxBuffer
    /\ m.busy => (n.busy /\ m.txBuffer = n.txBuffer) \/ m.txBuffer \in fs

\* The records the handlers update field by field.
StackOK(k) ==
    /\ k = [configured |-> k.configured, ip |-> k.ip, gateway |-> k.gateway,
            dnsServer |-> k.dnsServer, arp |-> k.arp, arpNext |-> k.arpNext,
            dhcp |-> k.dhcp, offered |-> k.offered, server |-> k.server,
            dhcpRetries |-> k.dhcpRetries, udpLen |-> k.udpLen, dns |-> k.dns, tcp |-> k.tcp]
    /\ k.dns = [pending |-> k.dns.pending, id |-> k.dns.id, result |-> k.dns.result]
    /\ k.tcp = [state |-> k.tcp.state, sequence |-> k.tcp.sequence,
                acknowledgement |-> k.tcp.acknowledgement, pendingLen |-> k.tcp.pendingLen,
                pendingSequence |-> k.tcp.pendingSequence, retries |-> k.tcp.retries,
                receivedLen |-> k.tcp.receivedLen, remote |-> k.tcp.remote]
    /\ k.configured \in BOOLEAN

\* Frames that are on the wire, and those that arrive without being answers.
AnswerKinds == {"dhcp", "arp", "dns", "tcp"}
NoiseKinds == {"bad", "runt", "arp", "icmp", "udp"}

\* Every frame the driver has not read is an answer or noise.
UnreadOK(n, w) ==
    \A i \in 0 .. Pending(n.rx) - 1 :
        \/ n.rxBuffer[Circulating(n.rx, i)] \in w
        \/ n.rxBuffer[Circulating(n.rx, i)].kind \in NoiseKinds

\* A request names the server whose offer was taken; so does what grants it.  None
\* is about before an offer was taken.
RequestOK(f, k) ==
    f.kind = "dhcp" /\ f.type = "request" => f.server = k.server /\ k.dhcp # "Discovering"
GrantOK(f, k) ==
    f.kind = "dhcp" =>
        /\ f.type \in {"offer", "ack", "nak"} /\ f = DhcpAnswer(f.type, f.server, f.to)
        /\ f.type = "ack" =>
              f.server = k.server /\ f.to = AddressOf(f.server) /\ k.dhcp # "Discovering"

\* The DHCP client in session ses with the frames of w on the wire.
LeaseOK(k, n, w, ses) ==
    /\ k.dhcp \in {"Idle", "Discovering", "Requesting", "Bound"}
    /\ ses # "boot" => k.dhcp \in {"Idle", "Bound"}
    /\ k.dhcp \in {"Discovering", "Requesting"} => ~k.configured
    /\ k.configured =>
          /\ ses = "boot" => DhcpAnswer("ack", k.server, k.ip) \in w
          /\ k.ip = AddressOf(k.server)
          /\ k.gateway = k.server /\ k.dnsServer = k.server
    /\ n.busy => RequestOK(n.txBuffer, k)
    /\ \A f \in w : GrantOK(f, k)

DnsOK(k) == k.dns.result # 0 => k.dns.result = k.dns.id

\* How far a sequence number is from the first one of the connection, and how far
\* the client has sent.
Offset(v, first) == (v - first) % SeqMod
Sent(tcp, first) == Offset(tcp.sequence, first) + tcp.pendingLen

\* What the client sends: a SYN with the first number as long as the peer has not
\* answered one, and never data beyond what it counts as sent.
SegmentOK(f, tcp, p, first) ==
    f.kind = "tcp" =>
        /\ f.seq \in 0 .. SeqMod - 1 /\ f.length \in {0, 1}
        /\ p.state = "Listen" => "SYN" \in f.flags /\ f.seq = first
        /\ f.length # 0 => Offset(f.seq, first) + f.length <= Sent(tcp, first)

\* An open connection: the peer has at most what was sent, the network carries no
\* acknowledgement beyond what the peer has, and every step on in the sequence was
\* paid for with a frame or a command.
ConnectionOK(tcp, n, w, p, first, spent) ==
    /\ tcp.state \in {"SynSent", "Established"}
    /\ tcp.sequence \in 0 .. SeqMod - 1 /\ tcp.pendingLen \in {0, 1}
    /\ tcp.state = "SynSent" => tcp.pendingLen = 0
    /\ tcp.state = "Established" => Offset(tcp.sequence, first) >= 1
    /\ tcp.pendingLen # 0 => tcp.pendingSequence = tcp.sequence
    /\ Sent(tcp, first) + Pending(n.rx) <= spent
    /\ p.state = "Listen" => /\ tcp.sequence = first /\ tcp.state = "SynSent"
                             /\ \A f \in w : f.kind # "tcp"
    /\ p.state # "Listen" => /\ p.rcv \in 0 .. SeqMod - 1
                             /\ \/ Offset(p.rcv, first) <= 1
                                \/ Offset(p.rcv, first) <= Sent(tcp, first)
    /\ \A f \in w : f.kind = "tcp" =>
          f.ack \in 0 .. SeqMod - 1 /\ Offset(f.ack, first) <= Offset(p.rcv, first)
    /\ n.busy => SegmentOK(n.txBuffer, tcp, p, first)

\* The socket; a behaviour opens one connection, and first is SeqMod before it.
TcpOK(tcp, n, w, p, first, spent) ==
    /\ first \in 0 .. SeqMod
    /\ Pending(n.rx) <= spent
    /\ first = SeqMod =>
          /\ tcp.state = "Closed" /\ tcp.pendingLen = 0 /\ p.state = "Listen"
          /\ \A f \in w : f.kind # "tcp"
          /\ n.busy => n.txBuffer.kind # "tcp"
    /\ first # SeqMod /\ tcp.state # "Closed" => ConnectionOK(tcp, n, w, p, first, spent)

\* What the handlers keep.
NetOK(k, n, w, p, first, ses, spent) ==
    /\ StackOK(k) /\ NicOK(n)
    /\ UnreadOK(n, w) /\ \A f \in w : f.kind \in AnswerKinds
    /\ LeaseOK(k, n, w, ses)
    /\ DnsOK(k)
    /\ TcpOK(k.tcp, n, w, p, first, spent)

Spent(f, c) == (MaxFrames - f) + (MaxCommands - c)

\* The inductive invariant.
NetInv ==
    /\ NetOK(stack, nic, wire, peer, isn, session, Spent(frames, commands))
    /\ peer = [state |-> peer.state, rcv |-> peer.rcv, snd |-> peer.snd, left |-> peer.left]
    /\ session \in {"boot", "names", "stream", "datagrams"}
    /\ pc = "fin" => stack.tcp.state = "Established"
    /\ frames \in 0 .. MaxFrames /\ commands \in 0 .. MaxCommands

-----------------------------------------------------------------------------
(* Ring indices *)

\* The constants as numbers.
LEMMA Sizes ==
    /\ QueueSize \in Nat \ {0} /\ RxBuffers \in Nat \ {0} /\ RxBuffers <= QueueSize
    /\ IndexMod \in Nat /\ IndexMod > QueueSize /\ IndexMod >= 2
    /\ IndexMod % QueueSize = 0
  BY QueueAssumption

\* A remainder is what is left of a multiple.
LEMMA ModIs ==
    ASSUME NEW n \in Nat \ {0}, NEW q \in Int, NEW r \in 0 .. n - 1
    PROVE  (q * n + r) % n = r
  OBVIOUS

\* Reducing an index by IndexMod does not change its slot, nor those of the places
\* after it, for QueueSize divides IndexMod.
LEMMA SlotAfterIndex ==
    ASSUME NEW x \in Nat, NEW i \in Nat
    PROVE  SlotAt(x % IndexMod, i) = SlotAt(x, i)
  <1>1. PICK M, Q : M = IndexMod /\ Q = QueueSize
    BY Zenon
  <1>2. M \in Nat \ {0} /\ Q \in Nat \ {0} /\ M % Q = 0
    BY <1>1, Sizes
  <1>3. PICK c, b, y : c = M \div Q /\ b = x \div M /\ y = x % M
    BY Zenon
  <1>4. c \in Int /\ b \in Int /\ y \in Nat /\ M = Q * c /\ x = M * b + y
    BY <1>2, <1>3
  <1>5. PICK a, r : a = (y + i) \div Q /\ r = (y + i) % Q
    BY Zenon
  <1>6. a \in Int /\ r \in 0 .. Q - 1 /\ y + i = Q * a + r
    BY <1>2, <1>4, <1>5
  <1>7. x + i = (Q * c) * b + (Q * a + r)
    BY <1>4, <1>6
  <1>8. (Q * c) * b + (Q * a + r) = (c * b + a) * Q + r
    BY <1>2, <1>4, <1>6
  <1>9. c * b + a \in Int
    BY <1>4, <1>6
  <1>10. (x + i) % Q = r
    <2>1. x + i = (c * b + a) * Q + r
      BY Zenon, <1>7, <1>8
    <2>2. ((c * b + a) * Q + r) % Q = r
      BY Zenon, <1>2, <1>6, <1>9, ModIs
    <2> QED
      BY Zenon, <2>1, <2>2
  <1> QED
    BY Zenon, <1>1, <1>3, <1>5, <1>10 DEF SlotAt

\* The slot of an index, whether or not the index was reduced.
LEMMA SlotOfIndex ==
    ASSUME NEW x \in Nat
    PROVE  (x % IndexMod) % QueueSize = x % QueueSize
  <1>1. SlotAt(x % IndexMod, 0) = SlotAt(x, 0)
    BY Zenon, SlotAfterIndex
  <1>2. x + 0 = x /\ (x % IndexMod) + 0 = x % IndexMod
    BY Sizes
  <1> QED
    BY Zenon, <1>1, <1>2 DEF SlotAt

\* Places that are less than a turn apart have different slots.
LEMMA SlotsDiffer ==
    ASSUME NEW a \in Nat, NEW i \in 0 .. QueueSize, NEW j \in 0 .. QueueSize,
           SlotAt(a, i) = SlotAt(a, j)
    PROVE  i = j \/ (i = 0 /\ j = QueueSize) \/ (j = 0 /\ i = QueueSize)
  <1>1. PICK Q : Q = QueueSize
    BY Zenon
  <1>2. Q \in Nat \ {0}
    BY Zenon, <1>1, Sizes
  <1>3. PICK b, r : b = a \div Q /\ r = a % Q
    BY Zenon
  <1>4. b \in Int /\ r \in 0 .. Q - 1 /\ a = b * Q + r
    BY <1>2, <1>3
  <1>5. ASSUME NEW k \in 0 .. Q PROVE (a + k) % Q = IF r + k >= Q THEN r + k - Q ELSE r + k
    <2>1. CASE r + k < Q
      <3>1. a + k = b * Q + (r + k) /\ r + k \in 0 .. Q - 1
        BY <1>2, <1>4, <2>1
      <3> QED
        BY <1>2, <1>4, <2>1, <3>1, ModIs
    <2>2. CASE r + k >= Q
      <3>1. a + k = (b + 1) * Q + (r + k - Q) /\ r + k - Q \in 0 .. Q - 1 /\ b + 1 \in Int
        BY <1>2, <1>4, <2>2
      <3> QED
        BY Zenon, <1>2, <1>4, <2>2, <3>1, ModIs
    <2> QED
      BY <1>2, <1>4, <2>1, <2>2
  <1>6. (IF r + i >= Q THEN r + i - Q ELSE r + i) = (IF r + j >= Q THEN r + j - Q ELSE r + j)
    BY Zenon, <1>1, <1>5 DEF SlotAt
  <1> QED
    BY <1>1, <1>2, <1>4, <1>6

\* Indices a few places apart.
LEMMA IndexAdd ==
    ASSUME NEW a \in Indices, NEW i \in 0 .. QueueSize
    PROVE  /\ (a + i) % IndexMod \in Indices
           /\ (a + i) % IndexMod = IF a + i >= IndexMod THEN a + i - IndexMod ELSE a + i
           /\ (((a + i) % IndexMod) - a) % IndexMod = i
  <1>1. PICK M : M = IndexMod
    BY Zenon
  <1>2. M \in Nat \ {0} /\ a \in 0 .. M - 1 /\ i \in 0 .. M - 1
    BY <1>1, Sizes DEF Indices
  <1>3. (a + i) % M = IF a + i >= M THEN a + i - M ELSE a + i
    BY <1>2
  <1>4. (a + i) % M \in 0 .. M - 1
    BY <1>2, <1>3
  <1>5. (((a + i) % M) - a) % M = i
    BY <1>2, <1>3
  <1> QED
    BY Zenon, <1>1, <1>3, <1>4, <1>5 DEF Indices

\* How far the device is ahead of the driver.
LEMMA PendingIs ==
    ASSUME NEW q \in Queues
    PROVE  /\ Pending(q) \in Indices
           /\ q.deviceUsed = (q.used + Pending(q)) % IndexMod
           /\ \A u \in 0 .. QueueSize : q.deviceUsed = (q.used + u) % IndexMod => Pending(q) = u
  <1>1. PICK M, a, b : M = IndexMod /\ a = q.used /\ b = q.deviceUsed
    BY Zenon
  <1>2. M \in Nat \ {0} /\ a \in 0 .. M - 1 /\ b \in 0 .. M - 1
    BY <1>1, Sizes DEF Indices, Queues
  <1>3. Pending(q) = (b - a) % M
    BY Zenon, <1>1 DEF Pending
  <1>4. (b - a) % M = IF b >= a THEN b - a ELSE (b - a) + M
    BY <1>2
  <1>5. (b - a) % M \in 0 .. M - 1
    BY <1>2, <1>4
  <1>6. (a + ((b - a) % M)) % M = b
    BY <1>2, <1>4
  <1>7. \A u \in 0 .. QueueSize : b = (a + u) % M => (b - a) % M = u
    <2>1. a \in Indices
      BY Zenon, <1>1, <1>2 DEF Indices
    <2>2. \A u \in 0 .. QueueSize : (((a + u) % IndexMod) - a) % IndexMod = u
      BY Zenon, <2>1, IndexAdd
    <2> QED
      BY Zenon, <1>1, <2>2
  <1> QED
    BY Zenon, <1>1, <1>3, <1>5, <1>6, <1>7 DEF Indices

\* The device fills the next buffer it was given: the order of circulation stays.
LEMMA RxCompleted ==
    ASSUME NEW q, RxOK(q), HasAvailable(q), NEW n, n = Completed(q)
    PROVE  /\ RxOK(n)
           /\ Pending(q) \in Buffers /\ Pending(n) = Pending(q) + 1
           /\ NextAvailable(q) = Circulating(q, Pending(q))
           /\ NextAvailable(q) \in Buffers
           /\ \A i \in Buffers : Circulating(n, i) = Circulating(q, i)
  <1>1. PICK u : u = Pending(q)
    BY Zenon
  <1>2. /\ q \in Queues /\ q.seen = q.deviceUsed /\ u \in 0 .. RxBuffers
        /\ q.available = (q.used + RxBuffers) % IndexMod
        /\ q.deviceUsed = (q.used + u) % IndexMod
        /\ q.seen # q.available /\ q.used \in Indices
    BY Zenon, <1>1, PendingIs DEF RxOK, HasAvailable, Queues
  <1>3. u # RxBuffers
    BY Zenon, <1>2
  <1>4. u \in Buffers /\ u \in 0 .. QueueSize /\ u + 1 \in 0 .. RxBuffers /\ u + 1 \in 0 .. QueueSize
    BY <1>2, <1>3, Sizes DEF Buffers
  <1>5. PICK s : s = SlotAt(q.used, u)
    BY Zenon
  <1>6. q.used \in Nat /\ q.used + u \in Nat
    BY <1>2, <1>4, Sizes DEF Indices
  <1>7. q.deviceUsed % QueueSize = s /\ q.seen % QueueSize = s
    BY Zenon, <1>2, <1>5, <1>6, SlotOfIndex DEF SlotAt
  <1>8. s \in Slots
    BY <1>5, <1>6, Sizes DEF SlotAt, Slots
  <1>9. q.ring[s] \in Buffers
    BY Zenon, <1>2, <1>8 DEF Queues
  <1>10. /\ n.ring = q.ring /\ n.available = q.available /\ n.used = q.used
         /\ n.done = [q.done EXCEPT ![s] = q.ring[s]]
         /\ n.seen = (q.seen + 1) % IndexMod /\ n.deviceUsed = (q.deviceUsed + 1) % IndexMod
         /\ n = [ring |-> n.ring, available |-> n.available, used |-> n.used,
                 done |-> n.done, deviceUsed |-> n.deviceUsed, seen |-> n.seen]
    BY Zenon, <1>2, <1>7 DEF Completed, NextAvailable, Queues
  <1>11. n.deviceUsed = (n.used + (u + 1)) % IndexMod /\ n.deviceUsed \in Indices
    <2>1. PICK M, a : M = IndexMod /\ a = q.used
      BY Zenon
    <2>2. M \in Nat \ {0} /\ a \in 0 .. M - 1 /\ u \in 0 .. M - 1 /\ u + 1 \in 0 .. M - 1
      BY <1>2, <1>4, <2>1, Sizes DEF Indices
    <2>3. (((a + u) % M) + 1) % M = (a + (u + 1)) % M
      <3>1. (a + u) % M = IF a + u >= M THEN a + u - M ELSE a + u
        BY <2>2
      <3>2. (a + (u + 1)) % M = IF a + (u + 1) >= M THEN a + (u + 1) - M ELSE a + (u + 1)
        BY <2>2
      <3> QED
        BY <2>2, <3>1, <3>2
    <2>4. (a + (u + 1)) % M \in 0 .. M - 1
      BY <2>2
    <2> QED
      BY <1>2, <1>10, <2>1, <2>3, <2>4 DEF Indices
  <1>12. n \in Queues
    <2>1. n.done \in [Slots -> Buffers]
      BY <1>2, <1>8, <1>9, <1>10 DEF Queues
    <2>2. /\ n.ring \in [Slots -> Buffers] /\ n.available \in Indices /\ n.used \in Indices
          /\ n.seen \in Indices
      BY <1>2, <1>10, <1>11 DEF Queues
    <2> QED
      BY Zenon, <1>10, <1>11, <2>1, <2>2 DEF Queues
  <1>13. Pending(n) = u + 1
    BY Zenon, <1>4, <1>11, <1>12, PendingIs
  <1>14. \A i \in Buffers : Circulating(n, i) = Circulating(q, i)
    <2> SUFFICES ASSUME NEW i \in Buffers PROVE Circulating(n, i) = Circulating(q, i)
      BY Zenon
    <2>1. /\ i \in 0 .. QueueSize /\ i \in Nat /\ u \in Nat /\ i # QueueSize /\ u # QueueSize
      BY <1>4, Sizes DEF Buffers
    <2>2. i # u => SlotAt(q.used, i) # s
      BY Zenon, <1>4, <1>5, <1>6, <2>1, SlotsDiffer
    <2>3. SlotAt(q.used, i) \in Slots
      BY <1>6, <2>1, Sizes DEF SlotAt, Slots
    <2>4. n.done[SlotAt(q.used, i)] = IF i = u THEN q.ring[s] ELSE q.done[SlotAt(q.used, i)]
      BY Zenon, <1>2, <1>5, <1>10, <2>2, <2>3 DEF Queues
    <2>5. i < u + 1 <=> (i < u \/ i = u)
      BY <2>1
    <2>6. Circulating(n, i) = IF i < u + 1 THEN n.done[SlotAt(q.used, i)]
                              ELSE q.ring[SlotAt(q.used, i)]
      BY Zenon, <1>10, <1>13 DEF Circulating
    <2>7. Circulating(q, i) = IF i < u THEN q.done[SlotAt(q.used, i)]
                              ELSE q.ring[SlotAt(q.used, i)]
      BY Zenon, <1>1 DEF Circulating
    <2>8. ~(u < u)
      BY <2>1
    <2>9. CASE i = u
      BY Zenon, <1>5, <2>4, <2>5, <2>6, <2>7, <2>8, <2>9
    <2>10. CASE i # u
      BY Zenon, <2>4, <2>5, <2>6, <2>7, <2>10
    <2> QED
      BY Zenon, <2>9, <2>10
  <1>15. RxOK(n)
    BY <1>2, <1>4, <1>10, <1>12, <1>13, <1>14 DEF RxOK
  <1>16. NextAvailable(q) = q.ring[s]
    BY Zenon, <1>7 DEF NextAvailable
  <1>17. Circulating(q, u) = q.ring[s]
    <2>1. ~(u < u)
      BY <1>4 DEF Buffers
    <2> QED
      BY Zenon, <1>1, <1>5, <2>1 DEF Circulating
  <1> QED
    BY Zenon, <1>1, <1>4, <1>9, <1>13, <1>14, <1>15, <1>16, <1>17
\* receive: the oldest completion is read and its buffer given back, so that it
\* goes to the end of the circulation.
LEMMA RxTaken ==
    ASSUME NEW q, RxOK(q), HasUsed(q), NEW n, n = Published(TookUsed(q), UsedDescriptor(q))
    PROVE  /\ RxOK(n)
           /\ Pending(q) \in 1 .. RxBuffers /\ Pending(n) = Pending(q) - 1
           /\ UsedDescriptor(q) = Circulating(q, 0) /\ UsedDescriptor(q) \in Buffers
           /\ \A i \in 0 .. RxBuffers - 2 : Circulating(n, i) = Circulating(q, i + 1)
  <1>1. PICK u, d : u = Pending(q) /\ d = UsedDescriptor(q)
    BY Zenon
  <1>2. /\ q \in Queues /\ q.seen = q.deviceUsed /\ u \in 0 .. RxBuffers
        /\ q.available = (q.used + RxBuffers) % IndexMod
        /\ q.deviceUsed = (q.used + u) % IndexMod
        /\ q.used \in Indices /\ u \in 1 .. QueueSize
    BY Zenon, <1>1, PendingIs DEF RxOK, HasUsed, Queues
  <1>3. u \in 1 .. RxBuffers /\ u - 1 \in 0 .. RxBuffers /\ u - 1 \in 0 .. QueueSize /\ u - 1 \in Nat
    BY <1>2, Sizes
  <1>4. PICK s, e : s = SlotAt(q.used, RxBuffers) /\ e = SlotAt(q.used, 0)
    BY Zenon
  <1>5. q.used \in Nat /\ q.used + RxBuffers \in Nat /\ q.used + 0 = q.used
    BY <1>2, Sizes DEF Indices
  <1>6. q.available % QueueSize = s /\ q.used % QueueSize = e
    BY Zenon, <1>2, <1>4, <1>5, SlotOfIndex DEF SlotAt
  <1>7. s \in Slots /\ e \in Slots
    BY <1>4, <1>5, Sizes DEF SlotAt, Slots
  <1>8. d = q.done[e] /\ d \in Buffers
    BY Zenon, <1>1, <1>2, <1>6, <1>7 DEF UsedDescriptor, Queues
  <1>9. d = Circulating(q, 0)
    <2>1. 0 < u
      BY <1>3
    <2> QED
      BY Zenon, <1>1, <1>4, <1>8, <2>1 DEF Circulating
  <1>10. /\ n.ring = [q.ring EXCEPT ![s] = d] /\ n.done = q.done
         /\ n.available = (q.available + 1) % IndexMod /\ n.used = (q.used + 1) % IndexMod
         /\ n.seen = q.seen /\ n.deviceUsed = q.deviceUsed
         /\ n = [ring |-> n.ring, available |-> n.available, used |-> n.used,
                 done |-> n.done, deviceUsed |-> n.deviceUsed, seen |-> n.seen]
    BY Zenon, <1>1, <1>2, <1>6 DEF Published, TookUsed, Queues
  <1>11. /\ n.used \in Indices /\ n.available = (n.used + RxBuffers) % IndexMod
         /\ n.available \in Indices /\ n.deviceUsed = (n.used + (u - 1)) % IndexMod
    <2>1. PICK M, a, r : M = IndexMod /\ a = q.used /\ r = RxBuffers
      BY Zenon
    <2>2. /\ M \in Nat \ {0} /\ a \in 0 .. M - 1 /\ r \in 1 .. M - 1 /\ u \in 1 .. M - 1
      BY <1>2, <1>3, <2>1, Sizes DEF Indices
    <2>3. (a + 1) % M = IF a + 1 >= M THEN a + 1 - M ELSE a + 1
      BY <2>2
    <2>4. (a + 1) % M \in 0 .. M - 1
      BY <2>2
    <2>5. (a + r) % M = IF a + r >= M THEN a + r - M ELSE a + r
      BY <2>2
    <2>6. (a + u) % M = IF a + u >= M THEN a + u - M ELSE a + u
      BY <2>2
    <2>7. ASSUME NEW y \in 0 .. M - 1, NEW z \in 0 .. M - 1
          PROVE  (y + z) % M = IF y + z >= M THEN y + z - M ELSE y + z
      BY <2>2
    <2>8. 1 \in 0 .. M - 1 /\ r \in 0 .. M - 1 /\ u - 1 \in 0 .. M - 1
      BY <2>2
    <2>9. (a + r) % M \in 0 .. M - 1
      BY <2>2
    <2>10. (((a + r) % M) + 1) % M = (((a + 1) % M) + r) % M
      <3>1. (((a + r) % M) + 1) % M = IF ((a + r) % M) + 1 >= M THEN ((a + r) % M) + 1 - M
                                      ELSE ((a + r) % M) + 1
        BY Zenon, <2>7, <2>8, <2>9
      <3>2. (((a + 1) % M) + r) % M = IF ((a + 1) % M) + r >= M THEN ((a + 1) % M) + r - M
                                      ELSE ((a + 1) % M) + r
        BY Zenon, <2>4, <2>7, <2>8
      <3> QED
        BY <2>2, <2>3, <2>5, <3>1, <3>2
    <2>11. (((a + 1) % M) + (u - 1)) % M = (a + u) % M
      <3>1. (((a + 1) % M) + (u - 1)) % M
               = IF ((a + 1) % M) + (u - 1) >= M THEN ((a + 1) % M) + (u - 1) - M
                 ELSE ((a + 1) % M) + (u - 1)
        BY Zenon, <2>4, <2>7, <2>8
      <3> QED
        BY <2>2, <2>3, <2>6, <3>1
    <2>12. (((a + r) % M) + 1) % M \in 0 .. M - 1
      BY <2>2, <2>9
    <2> QED
      BY Zenon, <1>2, <1>10, <2>1, <2>4, <2>10, <2>11, <2>12 DEF Indices
  <1>12. n \in Queues
    <2>1. n.ring \in [Slots -> Buffers]
      BY <1>2, <1>7, <1>8, <1>10 DEF Queues
    <2>2. n.done \in [Slots -> Buffers] /\ n.seen \in Indices /\ n.deviceUsed \in Indices
      BY Zenon, <1>2, <1>10 DEF Queues
    <2> QED
      BY Zenon, <1>10, <1>11, <2>1, <2>2 DEF Queues
  <1>13. Pending(n) = u - 1
    BY Zenon, <1>3, <1>11, <1>12, PendingIs
  <1>14. \A i \in Nat : SlotAt(n.used, i) = SlotAt(q.used, i + 1)
    <2> SUFFICES ASSUME NEW i \in Nat PROVE SlotAt(n.used, i) = SlotAt(q.used, i + 1)
      BY Zenon
    <2>1. PICK a : a = q.used + 1
      BY Zenon
    <2>2. /\ a \in Nat /\ a + i \in Nat /\ q.used + (i + 1) = a + i
          /\ n.used = a % IndexMod /\ n.used \in Nat
      BY <1>5, <1>10, <1>11, <2>1 DEF Indices
    <2>3. SlotAt(n.used, i) = SlotAt(a, i)
      BY <2>2, SlotAfterIndex
    <2> QED
      BY Zenon, <2>2, <2>3 DEF SlotAt
  <1>15. \A i \in 0 .. RxBuffers - 2 : Circulating(n, i) = Circulating(q, i + 1)
    <2> SUFFICES ASSUME NEW i \in 0 .. RxBuffers - 2 PROVE Circulating(n, i) = Circulating(q, i + 1)
      BY Zenon
    <2>1. PICK t : t = SlotAt(q.used, i + 1)
      BY Zenon
    <2>2. /\ i \in Nat /\ i + 1 \in 0 .. QueueSize /\ i + 1 # RxBuffers /\ i + 1 # 0
          /\ RxBuffers \in 0 .. QueueSize /\ RxBuffers # 0
      BY Sizes
    <2>3. t # s
      BY Zenon, <1>4, <1>5, <2>1, <2>2, SlotsDiffer
    <2>4. t \in Slots
      BY <1>5, <2>1, <2>2, Sizes DEF SlotAt, Slots
    <2>5. n.ring[t] = q.ring[t]
      BY Zenon, <1>2, <1>10, <2>3, <2>4 DEF Queues
    <2>6. i < u - 1 <=> i + 1 < u
      BY <1>3, <2>2
    <2> QED
      BY Zenon, <1>1, <1>10, <1>13, <1>14, <2>1, <2>2, <2>5, <2>6 DEF Circulating
  <1>16. Circulating(n, RxBuffers - 1) = d
    <2>1. /\ RxBuffers - 1 \in Nat /\ (RxBuffers - 1) + 1 = RxBuffers /\ ~(RxBuffers - 1 < u - 1)
      BY <1>3, Sizes
    <2>2. SlotAt(n.used, RxBuffers - 1) = s
      BY Zenon, <1>4, <1>14, <2>1
    <2> QED
      BY Zenon, <1>2, <1>7, <1>10, <1>13, <2>1, <2>2 DEF Circulating, Queues
  <1>17. PICK last : last = RxBuffers - 1
    BY Zenon
  <1>18. /\ last \in Buffers /\ 0 \in Buffers /\ Circulating(n, last) = Circulating(q, 0)
         /\ \A i \in Buffers : i = last \/ (i \in 0 .. RxBuffers - 2 /\ i + 1 \in Buffers /\ i + 1 # 0)
         /\ \A i \in Buffers : i # 0 => i - 1 \in 0 .. RxBuffers - 2 /\ i - 1 \in Buffers /\ (i - 1) + 1 = i
         /\ \A i, j \in Buffers : i + 1 = j + 1 => i = j
    BY <1>9, <1>16, <1>17, Sizes DEF Buffers
  <1>19. \A i, j \in Buffers : Circulating(n, i) = Circulating(n, j) => i = j
    <2>1. \A i, j \in Buffers : Circulating(q, i) = Circulating(q, j) => i = j
      BY Zenon DEF RxOK
    <2> QED
      BY <1>15, <1>18, <2>1
  <1>20. \A b \in Buffers : \E i \in Buffers : Circulating(n, i) = b
    <2> SUFFICES ASSUME NEW b \in Buffers PROVE \E i \in Buffers : Circulating(n, i) = b
      BY Zenon
    <2>1. PICK i \in Buffers : Circulating(q, i) = b
      BY Zenon DEF RxOK
    <2>2. CASE i = 0
      BY Zenon, <1>18, <2>1, <2>2
    <2>3. CASE i # 0
      <3>1. i - 1 \in 0 .. RxBuffers - 2 /\ i - 1 \in Buffers /\ (i - 1) + 1 = i
        BY Zenon, <1>18, <2>3
      <3>2. Circulating(n, i - 1) = Circulating(q, i)
        BY Zenon, <1>15, <3>1
      <3> QED
        BY Zenon, <2>1, <3>1, <3>2
    <2> QED
      BY Zenon, <2>2, <2>3
  <1>21. RxOK(n)
    BY Zenon, <1>2, <1>3, <1>10, <1>11, <1>12, <1>13, <1>19, <1>20 DEF RxOK
  <1> QED
    BY Zenon, <1>1, <1>3, <1>8, <1>9, <1>13, <1>15, <1>21

-----------------------------------------------------------------------------
(* The adapter *)

\* poll: the transmit buffer is free again once its completion is read.
LEMMA DriverPollIs ==
    ASSUME NEW n, NicOK(n), NEW m, m = DriverPoll(n)
    PROVE  /\ NicOK(m) /\ m.rx = n.rx /\ m.rxBuffer = n.rxBuffer /\ m.txBuffer = n.txBuffer
           /\ m.busy \in BOOLEAN /\ (m.busy => n.busy)
           /\ m.busy => m = n
           /\ ~m.busy => m.tx.available = m.tx.used
           /\ HasUsed(n.tx) => ~m.busy
  <1>1. /\ n.tx \in Queues /\ n.tx.seen = n.tx.deviceUsed /\ n.busy \in BOOLEAN
        /\ Pending(n.tx) \in 0 .. (IF n.busy THEN 1 ELSE 0)
        /\ n.tx.available = (n.tx.used + (IF n.busy THEN 1 ELSE 0)) % IndexMod
        /\ n.tx.used \in Indices
    BY Zenon DEF NicOK, TxOK, Queues
  <1>2. n.tx.deviceUsed = (n.tx.used + Pending(n.tx)) % IndexMod
    BY Zenon, <1>1, PendingIs
  <1>3. CASE HasUsed(n.tx)
    <2>1. n.busy /\ Pending(n.tx) = 1
      BY <1>1, <1>3 DEF HasUsed
    <2>2. n.tx.deviceUsed = n.tx.available
      BY Zenon, <1>1, <1>2, <2>1
    <2>3. /\ m.tx = [n.tx EXCEPT !.used = n.tx.deviceUsed] /\ m.busy = FALSE
          /\ m.rx = n.rx /\ m.rxBuffer = n.rxBuffer /\ m.txBuffer = n.txBuffer
          /\ m = [rx |-> m.rx, tx |-> m.tx, rxBuffer |-> m.rxBuffer, txBuffer |-> m.txBuffer,
                  busy |-> m.busy]
      BY Zenon, <1>3 DEF DriverPoll, NicOK
    <2>4. /\ m.tx \in Queues /\ m.tx.seen = m.tx.deviceUsed /\ m.tx.used = m.tx.deviceUsed
          /\ m.tx.available = m.tx.used /\ m.tx.used \in Indices
      BY <1>1, <2>2, <2>3 DEF Queues
    <2>5. m.tx.available = (m.tx.used + 0) % IndexMod
      BY <2>4, Sizes DEF Indices
    <2>6. Pending(m.tx) = 0
      <3>1. m.tx.deviceUsed = (m.tx.used + 0) % IndexMod /\ 0 \in 0 .. QueueSize
        BY <2>4, <2>5, Sizes
      <3> QED
        BY Zenon, <2>4, <3>1, PendingIs
    <2>7. TxOK(m.tx, m.busy)
      BY <2>3, <2>4, <2>5, <2>6 DEF TxOK
    <2> QED
      BY Zenon, <2>1, <2>3, <2>4, <2>7 DEF NicOK
  <1>4. CASE ~HasUsed(n.tx)
    <2>1. m = n
      BY Zenon, <1>4 DEF DriverPoll
    <2>2. ~n.busy => n.tx.available = n.tx.used
      BY <1>1, Sizes DEF Indices
    <2> QED
      BY Zenon, <1>1, <1>4, <2>1, <2>2
  <1> QED
    BY Zenon, <1>3, <1>4

\* transmit: a frame goes into the buffer only when the device is done with the
\* one before.
LEMMA TransmittedIs ==
    ASSUME NEW n, NicOK(n), NEW frame, NEW m, m = Transmitted(n, frame)
    PROVE  /\ NicStep(n, m, {frame}) /\ CanTransmit(n) \in BOOLEAN
           /\ CanTransmit(n) => m.txBuffer = frame /\ m.busy /\ HasAvailable(m.tx)
           /\ ~CanTransmit(n) => NicStep(n, m, {})
           /\ ~n.busy \/ HasUsed(n.tx) => CanTransmit(n)
  <1>1. PICK p : p = DriverPoll(n)
    BY Zenon
  <1>2. /\ NicOK(p) /\ p.rx = n.rx /\ p.rxBuffer = n.rxBuffer /\ p.txBuffer = n.txBuffer
        /\ p.busy \in BOOLEAN /\ (p.busy => n.busy)
        /\ ~p.busy => p.tx.available = p.tx.used
        /\ HasUsed(n.tx) => ~p.busy
    BY Zenon, <1>1, DriverPollIs
  <1>3. CASE p.busy
    BY Zenon, <1>1, <1>2, <1>3 DEF Transmitted, CanTransmit, NicStep
  <1>4. CASE ~p.busy
    <2>1. PICK q : q = p.tx
      BY Zenon
    <2>2. /\ q \in Queues /\ q.seen = q.deviceUsed /\ Pending(q) \in 0 .. 0
          /\ q.available = q.used /\ q.used \in Indices
      BY Zenon, <1>2, <1>4, <2>1 DEF NicOK, TxOK, Queues
    <2>3. /\ m.tx = Published(q, 0) /\ m.busy = TRUE /\ m.txBuffer = frame
          /\ m.rx = n.rx /\ m.rxBuffer = n.rxBuffer
          /\ m = [rx |-> m.rx, tx |-> m.tx, rxBuffer |-> m.rxBuffer, txBuffer |-> m.txBuffer,
                  busy |-> m.busy]
      BY Zenon, <1>1, <1>2, <1>4, <2>1 DEF Transmitted, NicOK
    <2>4. q.available % QueueSize \in Slots /\ 0 \in Buffers
      BY <2>2, Sizes DEF Slots, Buffers, Indices
    <2>5. /\ m.tx.ring = [q.ring EXCEPT ![q.available % QueueSize] = 0]
          /\ m.tx.available = (q.available + 1) % IndexMod /\ m.tx.used = q.used
          /\ m.tx.done = q.done /\ m.tx.seen = q.seen /\ m.tx.deviceUsed = q.deviceUsed
          /\ m.tx = [ring |-> m.tx.ring, available |-> m.tx.available, used |-> m.tx.used,
                     done |-> m.tx.done, deviceUsed |-> m.tx.deviceUsed, seen |-> m.tx.seen]
      <3>1. q = [ring |-> q.ring, available |-> q.available, used |-> q.used,
                 done |-> q.done, deviceUsed |-> q.deviceUsed, seen |-> q.seen]
        BY Zenon, <2>2 DEF Queues
      <3>2. m.tx.ring = [q.ring EXCEPT ![q.available % QueueSize] = 0]
        BY Zenon, <2>3, <3>1 DEF Published
      <3>3. m.tx.available = (q.available + 1) % IndexMod
        BY Zenon, <2>3, <3>1 DEF Published
      <3>4. m.tx.used = q.used /\ m.tx.done = q.done
        BY Zenon, <2>3, <3>1 DEF Published
      <3>5. m.tx.seen = q.seen /\ m.tx.deviceUsed = q.deviceUsed
        BY Zenon, <2>3, <3>1 DEF Published
      <3>6. m.tx = [ring |-> m.tx.ring, available |-> m.tx.available, used |-> m.tx.used,
                    done |-> m.tx.done, deviceUsed |-> m.tx.deviceUsed, seen |-> m.tx.seen]
        BY Zenon, <2>3, <3>1 DEF Published
      <3> QED
        BY Zenon, <3>2, <3>3, <3>4, <3>5, <3>6
    <2>6. m.tx.available \in Indices
      BY <2>2, <2>5, Sizes DEF Indices
    <2>7. m.tx \in Queues
      BY <2>2, <2>4, <2>5, <2>6 DEF Queues
    <2>8. Pending(m.tx) = Pending(q)
      BY Zenon, <2>5 DEF Pending
    <2>9. TxOK(m.tx, m.busy)
      BY <2>2, <2>3, <2>5, <2>7, <2>8 DEF TxOK
    <2>10. NicOK(m)
      BY Zenon, <1>2, <2>3, <2>9 DEF NicOK
    <2>11. HasAvailable(m.tx)
      <3>1. PICK a, M : a = q.used /\ M = IndexMod
        BY Zenon
      <3>2. a \in 0 .. M - 1 /\ M \in Nat /\ M > 1
        BY <2>2, <3>1, Sizes DEF Indices
      <3>3. (a + 1) % M # a
        BY <3>2
      <3>4. q.deviceUsed = a
        <4>1. q.deviceUsed = (q.used + 0) % IndexMod
          BY <2>2, PendingIs
        <4> QED
          BY <3>1, <3>2, <4>1
      <3> QED
        BY <2>2, <2>5, <3>1, <3>3, <3>4 DEF HasAvailable
    <2> QED
      BY Zenon, <1>1, <1>2, <1>4, <2>3, <2>10, <2>11 DEF NicStep, CanTransmit
  <1> QED
    BY Zenon, <1>2, <1>3, <1>4

\* The device takes the transmit buffer.
LEMMA SentIs ==
    ASSUME NEW n, NicOK(n), HasAvailable(n.tx), NEW m, m = DeviceSent(n)
    PROVE  /\ NicOK(m) /\ m.rx = n.rx /\ m.rxBuffer = n.rxBuffer /\ m.txBuffer = n.txBuffer
           /\ m.busy = n.busy /\ n.busy /\ HasUsed(m.tx)
  <1>1. PICK q, M : q = n.tx /\ M = IndexMod
    BY Zenon
  <1>2. /\ q \in Queues /\ q.seen = q.deviceUsed /\ n.busy \in BOOLEAN
        /\ Pending(q) \in 0 .. (IF n.busy THEN 1 ELSE 0)
        /\ q.available = (q.used + (IF n.busy THEN 1 ELSE 0)) % IndexMod
        /\ q.used \in Indices /\ q.seen # q.available
    BY Zenon, <1>1 DEF NicOK, TxOK, Queues, HasAvailable
  <1>3. q.deviceUsed = (q.used + Pending(q)) % IndexMod
    BY Zenon, <1>2, PendingIs
  <1>4. n.busy /\ Pending(q) = 0
    BY <1>2, <1>3
  <1>5. M \in Nat \ {0} /\ q.used \in 0 .. M - 1
    BY <1>1, <1>2, Sizes DEF Indices
  <1>6. q.deviceUsed = q.used /\ q.seen = q.used
    BY <1>1, <1>2, <1>3, <1>4, <1>5
  <1>7. /\ m.tx = Completed(q) /\ m.busy = n.busy /\ m.txBuffer = n.txBuffer
        /\ m.rx = n.rx /\ m.rxBuffer = n.rxBuffer
        /\ m = [rx |-> m.rx, tx |-> m.tx, rxBuffer |-> m.rxBuffer, txBuffer |-> m.txBuffer,
                busy |-> m.busy]
    BY Zenon, <1>1 DEF DeviceSent, NicOK
  <1>8. q.used % QueueSize \in Slots
    BY <1>2, Sizes DEF Slots, Indices
  <1>9. /\ m.tx.done = [q.done EXCEPT ![q.used % QueueSize] = q.ring[q.used % QueueSize]]
        /\ m.tx.available = q.available /\ m.tx.used = q.used /\ m.tx.ring = q.ring
        /\ m.tx.seen = (q.used + 1) % IndexMod /\ m.tx.deviceUsed = (q.used + 1) % IndexMod
        /\ m.tx = [ring |-> m.tx.ring, available |-> m.tx.available, used |-> m.tx.used,
                   done |-> m.tx.done, deviceUsed |-> m.tx.deviceUsed, seen |-> m.tx.seen]
    BY ZenonT(40), <1>2, <1>6, <1>7 DEF Completed, NextAvailable, Queues
  <1>10. m.tx.done \in [Slots -> Buffers]
    BY <1>2, <1>8, <1>9 DEF Queues
  <1>11. m.tx.seen \in Indices /\ m.tx.deviceUsed \in Indices
    BY <1>1, <1>5, <1>9 DEF Indices
  <1>12. m.tx \in Queues
    BY Zenon, <1>2, <1>9, <1>10, <1>11 DEF Queues
  <1>13. Pending(m.tx) = 1
    <2>1. 1 \in 0 .. QueueSize
      BY Sizes
    <2> QED
      BY <1>9, <1>12, <2>1, PendingIs
  <1>14. TxOK(m.tx, m.busy)
    BY <1>2, <1>4, <1>7, <1>9, <1>12, <1>13 DEF TxOK
  <1>15. HasUsed(m.tx)
    BY <1>13, Sizes DEF HasUsed
  <1> QED
    BY Zenon, <1>4, <1>7, <1>14, <1>15 DEF NicOK

\* receive: the frame is one that was stored, and the other unread ones stay.
LEMMA ReceivedIs ==
    ASSUME NEW n, NicOK(n), HasUsed(n.rx), NEW m, m = Received(n), NEW w, UnreadOK(n, w)
    PROVE  /\ NicOK(m) /\ m.busy = n.busy /\ m.txBuffer = n.txBuffer
           /\ Pending(n.rx) \in 1 .. RxBuffers /\ Pending(m.rx) = Pending(n.rx) - 1
           /\ FrameUsed(n) \in w \/ FrameUsed(n).kind \in NoiseKinds
           /\ UnreadOK(m, w)
  <1>1. PICK q, d, u : q = n.rx /\ d = UsedDescriptor(n.rx) /\ u = Pending(n.rx)
    BY Zenon
  <1>2. PICK p : p = Published(TookUsed(q), d)
    BY Zenon
  <1>3. RxOK(q) /\ HasUsed(q)
    BY Zenon, <1>1 DEF NicOK
  <1>4. /\ RxOK(p) /\ u \in 1 .. RxBuffers /\ Pending(p) = u - 1
        /\ d = Circulating(q, 0) /\ d \in Buffers
        /\ \A i \in 0 .. RxBuffers - 2 : Circulating(p, i) = Circulating(q, i + 1)
    BY Zenon, <1>1, <1>2, <1>3, RxTaken
  <1>5. /\ m.rx = p /\ m.rxBuffer = [n.rxBuffer EXCEPT ![d] = NoFrame] /\ m.tx = n.tx
        /\ m.busy = n.busy /\ m.txBuffer = n.txBuffer
        /\ m = [rx |-> m.rx, tx |-> m.tx, rxBuffer |-> m.rxBuffer, txBuffer |-> m.txBuffer,
                busy |-> m.busy]
    BY Zenon, <1>1, <1>2 DEF Received, NicOK
  <1>6. NicOK(m)
    BY Zenon, <1>4, <1>5 DEF NicOK
  <1>7. FrameUsed(n) \in w \/ FrameUsed(n).kind \in NoiseKinds
    <2>1. 0 \in 0 .. u - 1
      BY <1>4, Sizes
    <2> QED
      BY Zenon, <1>1, <1>4, <2>1 DEF UnreadOK, FrameUsed
  <1>8. UnreadOK(m, w)
    <2> SUFFICES ASSUME NEW i \in 0 .. (u - 1) - 1
                 PROVE  \/ m.rxBuffer[Circulating(p, i)] \in w
                        \/ m.rxBuffer[Circulating(p, i)].kind \in NoiseKinds
      BY Zenon, <1>4, <1>5 DEF UnreadOK
    <2>1. /\ i \in 0 .. RxBuffers - 2 /\ i + 1 \in 0 .. u - 1 /\ i + 1 \in Buffers
          /\ 0 \in Buffers /\ i + 1 # 0
      BY <1>4, Sizes DEF Buffers
    <2>2. Circulating(p, i) = Circulating(q, i + 1)
      BY Zenon, <1>4, <2>1
    <2>3. Circulating(q, i + 1) # d
      BY Zenon, <1>3, <1>4, <2>1 DEF RxOK
    <2>4. m.rxBuffer[Circulating(q, i + 1)] = n.rxBuffer[Circulating(q, i + 1)]
      BY <1>5, <2>3
    <2>5. \/ n.rxBuffer[Circulating(q, i + 1)] \in w
          \/ n.rxBuffer[Circulating(q, i + 1)].kind \in NoiseKinds
      BY Zenon, <1>1, <2>1 DEF UnreadOK
    <2> QED
      BY Zenon, <2>2, <2>4, <2>5
  <1> QED
    BY Zenon, <1>1, <1>4, <1>5, <1>6, <1>7, <1>8

\* The device stores a frame in a buffer the driver does not read.
LEMMA StoredIs ==
    ASSUME NEW n, NicOK(n), HasAvailable(n.rx), NEW f, NEW m, m = DeviceStored(n, f),
           NEW w, UnreadOK(n, w), f \in w \/ f.kind \in NoiseKinds
    PROVE  /\ NicOK(m) /\ m.busy = n.busy /\ m.txBuffer = n.txBuffer /\ m.tx = n.tx
           /\ Pending(n.rx) \in Nat /\ Pending(m.rx) = Pending(n.rx) + 1
           /\ UnreadOK(m, w)
           /\ Pending(n.rx) = 0 => FrameUsed(m) = f
           /\ HasUsed(m.rx)
  <1>1. PICK q, d, u : q = n.rx /\ d = NextAvailable(n.rx) /\ u = Pending(n.rx)
    BY Zenon
  <1>2. PICK p : p = Completed(q)
    BY Zenon
  <1>3. RxOK(q) /\ HasAvailable(q)
    BY Zenon, <1>1 DEF NicOK
  <1>4. /\ RxOK(p) /\ u \in Buffers /\ Pending(p) = u + 1
        /\ d = Circulating(q, u) /\ d \in Buffers
        /\ \A i \in Buffers : Circulating(p, i) = Circulating(q, i)
    BY <1>1, <1>2, <1>3, RxCompleted
  <1>5. /\ m.rx = p /\ m.rxBuffer = [n.rxBuffer EXCEPT ![d] = f] /\ m.tx = n.tx
        /\ m.busy = n.busy /\ m.txBuffer = n.txBuffer
        /\ m = [rx |-> m.rx, tx |-> m.tx, rxBuffer |-> m.rxBuffer, txBuffer |-> m.txBuffer,
                busy |-> m.busy]
    BY Zenon, <1>1, <1>2 DEF DeviceStored, NicOK
  <1>6. NicOK(m)
    BY Zenon, <1>4, <1>5 DEF NicOK
  <1>7. m.rxBuffer[d] = f
    BY Zenon, <1>4, <1>5 DEF NicOK
  <1>8. UnreadOK(m, w)
    <2> SUFFICES ASSUME NEW i \in 0 .. (u + 1) - 1
                 PROVE  \/ m.rxBuffer[Circulating(p, i)] \in w
                        \/ m.rxBuffer[Circulating(p, i)].kind \in NoiseKinds
      BY Zenon, <1>4, <1>5 DEF UnreadOK
    <2>1. i \in Buffers /\ (i = u \/ i \in 0 .. u - 1)
      BY <1>4, Sizes DEF Buffers
    <2>2. Circulating(p, i) = Circulating(q, i)
      BY Zenon, <1>4, <2>1
    <2>3. CASE i = u
      BY Zenon, <1>4, <1>7, <2>2, <2>3
    <2>4. CASE i # u
      <3>1. Circulating(q, i) # d
        BY Zenon, <1>3, <1>4, <2>1, <2>4 DEF RxOK
      <3>2. m.rxBuffer[Circulating(q, i)] = n.rxBuffer[Circulating(q, i)]
        BY <1>5, <3>1
      <3>3. \/ n.rxBuffer[Circulating(q, i)] \in w
            \/ n.rxBuffer[Circulating(q, i)].kind \in NoiseKinds
        BY Zenon, <1>1, <2>1, <2>4 DEF UnreadOK
      <3> QED
        BY Zenon, <2>2, <3>2, <3>3
    <2> QED
      BY Zenon, <2>3, <2>4
  <1>9. HasUsed(m.rx)
    BY <1>4, <1>5, Sizes DEF HasUsed, Buffers
  <1>10. ASSUME u = 0 PROVE FrameUsed(m) = f
    <2>1. RxOK(p) /\ HasUsed(p)
      BY Zenon, <1>4, <1>5, <1>9
    <2>2. UsedDescriptor(p) = Circulating(p, 0)
      BY Zenon, <2>1, RxTaken
    <2>3. UsedDescriptor(p) = d
      BY Zenon, <1>4, <1>10, <2>2
    <2> QED
      BY Zenon, <1>5, <1>7, <2>3 DEF FrameUsed
  <1> QED
    BY <1>1, <1>4, <1>5, <1>6, <1>8, <1>9, <1>10 DEF Buffers
\* The buffers in circulation are what BuffersOwned counts.
LEMMA BuffersFromNic ==
    ASSUME NEW q, RxOK(q), NEW given, given = Between(q.ring, q.seen, q.available),
           NEW unread, unread = Between(q.done, q.used, q.deviceUsed)
    PROVE  /\ Values(given) \cup Values(unread) = Buffers
           /\ Len(given) + Len(unread) = RxBuffers
  <1>1. PICK u, M, a, r : u = Pending(q) /\ M = IndexMod /\ a = q.used /\ r = RxBuffers
    BY Zenon
  <1>2. /\ q \in Queues /\ q.seen = q.deviceUsed /\ u \in 0 .. r
        /\ q.available = (a + r) % M /\ q.seen = (a + u) % M /\ a \in Indices
    BY Zenon, <1>1, PendingIs DEF RxOK, Queues
  <1>3. /\ M \in Nat \ {0} /\ r \in 1 .. M - 1 /\ u \in 0 .. M - 1 /\ a \in 0 .. M - 1
        /\ u \in 0 .. r /\ r \in Nat
    BY <1>1, <1>2, Sizes DEF Indices
  <1>4. (q.available - q.seen) % M = r - u
    <2>1. (a + r) % M = IF a + r >= M THEN a + r - M ELSE a + r
      BY <1>3
    <2>2. (a + u) % M = IF a + u >= M THEN a + u - M ELSE a + u
      BY <1>3
    <2>3. ((a + r) % M) - ((a + u) % M) \in {r - u, (r - u) - M}
      BY <1>3, <2>1, <2>2
    <2>4. r - u \in 0 .. M - 1
      BY <1>3
    <2>5. (r - u) % M = r - u /\ ((r - u) - M) % M = r - u
      BY <1>3, <2>4
    <2> QED
      BY Zenon, <1>2, <2>3, <2>5
  <1>5. (q.deviceUsed - q.used) % M = u
    BY Zenon, <1>1 DEF Pending
  <1>6. unread = [k \in 1 .. u |-> Circulating(q, k - 1)]
    <2>1. unread = [k \in 1 .. u |-> q.done[(q.used + k - 1) % QueueSize]]
      BY Zenon, <1>1, <1>5 DEF Between
    <2>2. \A k \in 1 .. u : k - 1 < u /\ q.used + k - 1 = q.used + (k - 1)
      BY <1>1, <1>3
    <2>3. \A k \in 1 .. u : q.done[(q.used + k - 1) % QueueSize] = Circulating(q, k - 1)
      BY Zenon, <1>1, <2>2 DEF Circulating, SlotAt
    <2> QED
      BY Zenon, <2>1, <2>3
  <1>7. given = [k \in 1 .. r - u |-> Circulating(q, u + (k - 1))]
    <2>1. given = [k \in 1 .. r - u |-> q.ring[(q.seen + k - 1) % QueueSize]]
      BY Zenon, <1>1, <1>4 DEF Between
    <2>2. ASSUME NEW k \in 1 .. r - u
          PROVE  q.ring[(q.seen + k - 1) % QueueSize] = Circulating(q, u + (k - 1))
      <3>1. /\ k - 1 \in Nat /\ ~(u + (k - 1) < u) /\ q.seen \in Nat
            /\ a + u \in Nat /\ (a + u) + (k - 1) = a + (u + (k - 1))
            /\ q.seen + k - 1 = q.seen + (k - 1)
        BY <1>2, <1>3 DEF Queues, Indices
      <3>2. SlotAt(q.seen, k - 1) = SlotAt(a + u, k - 1)
        BY <1>1, <1>2, <3>1, SlotAfterIndex
      <3>3. SlotAt(a + u, k - 1) = SlotAt(a, u + (k - 1))
        BY Zenon, <3>1 DEF SlotAt
      <3>4. (q.seen + k - 1) % QueueSize = SlotAt(a, u + (k - 1))
        BY Zenon, <3>1, <3>2, <3>3 DEF SlotAt
      <3> QED
        BY Zenon, <1>1, <3>1, <3>4 DEF Circulating
    <2> QED
      BY Zenon, <2>1, <2>2
  <1>8. \A i \in Buffers : i \in 0 .. u - 1 \/ i \in u .. r - 1
    BY <1>1, <1>3 DEF Buffers
  <1>9. Values(unread) = {Circulating(q, i) : i \in 0 .. u - 1}
    <2>1. \A k \in 1 .. u : k - 1 \in 0 .. u - 1
      BY <1>3
    <2>2. \A i \in 0 .. u - 1 : i + 1 \in 1 .. u /\ (i + 1) - 1 = i
      BY <1>3
    <2> QED
      BY <1>6, <2>1, <2>2 DEF Values
  <1>10. Values(given) = {Circulating(q, i) : i \in u .. r - 1}
    <2>1. \A k \in 1 .. r - u : u + (k - 1) \in u .. r - 1
      BY <1>3
    <2>2. \A i \in u .. r - 1 : (i - u) + 1 \in 1 .. r - u /\ u + (((i - u) + 1) - 1) = i
      BY <1>3
    <2> QED
      BY <1>7, <2>1, <2>2 DEF Values
  <1>11. \A i \in Buffers : Circulating(q, i) \in Buffers
    <2> SUFFICES ASSUME NEW i \in Buffers PROVE Circulating(q, i) \in Buffers
      BY Zenon
    <2>1. SlotAt(q.used, i) \in Slots
      BY <1>1, <1>3, Sizes DEF SlotAt, Slots, Buffers
    <2> QED
      BY Zenon, <1>2, <2>1 DEF Circulating, Queues
  <1>12. 0 .. u - 1 \subseteq Buffers /\ u .. r - 1 \subseteq Buffers
    BY <1>1, <1>3 DEF Buffers
  <1>13. Values(given) \cup Values(unread) = Buffers
    BY <1>8, <1>9, <1>10, <1>11, <1>12 DEF RxOK
  <1>14. r - u \in Nat /\ u \in Nat
    BY <1>3
  <1>15. Len(given) = r - u /\ Len(unread) = u
    BY <1>6, <1>7, <1>14
  <1> QED
    BY <1>1, <1>3, <1>13, <1>14, <1>15

-----------------------------------------------------------------------------
(* Handlers *)

Shape(s) == s = [stack |-> s.stack, nic |-> s.nic, ok |-> s.ok]

\* What a handler works on, in a world of answers w, peer p and session ses.
Good(s, w, p, first, ses, spent) ==
    Shape(s) /\ NetOK(s.stack, s.nic, w, p, first, ses, spent)

\* Frames that may be sent.
FrameOK(f, k, p, first) ==
    /\ RequestOK(f, k)
    /\ first = SeqMod => f.kind # "tcp"
    /\ first # SeqMod /\ k.tcp.state # "Closed" => SegmentOK(f, k.tcp, p, first)

\* Only DHCP and TCP frames are bound to the state of a client.
LEMMA PlainFrame ==
    ASSUME NEW f, f.kind \in {"arp", "udp", "icmp", "bad"}, NEW k, NEW p, NEW first
    PROVE  FrameOK(f, k, p, first)
  BY Zenon DEF FrameOK, RequestOK, SegmentOK

\* transmit
LEMMA SendIs ==
    ASSUME NEW s, Shape(s), NicOK(s.nic), NEW frame, NEW t, t = Send(s, frame)
    PROVE  /\ Shape(t) /\ t.stack = s.stack /\ t.ok \in BOOLEAN
           /\ NicStep(s.nic, t.nic, {frame}) /\ (t.ok => t.nic.txBuffer = frame)
           /\ ~t.ok => NicStep(s.nic, t.nic, {})
  <1>1. /\ t.stack = s.stack /\ t.nic = Transmitted(s.nic, frame) /\ t.ok = CanTransmit(s.nic)
        /\ Shape(t)
    BY Zenon DEF Send, Shape
  <1> QED
    BY Zenon, <1>1, TransmittedIs

\* next_hop and the frame: at most one frame goes out, the frame itself or an ARP
\* request.
LEMMA SendToIs ==
    ASSUME NEW s, Shape(s), NicOK(s.nic), NEW destination, NEW frame,
           NEW arp, arp = ArpFrame("request", Target(s.stack, destination)),
           NEW t, t = SendTo(s, destination, frame)
    PROVE  /\ Shape(t) /\ t.stack = s.stack /\ t.ok \in BOOLEAN
           /\ NicStep(s.nic, t.nic, {frame, arp})
           /\ t.ok => t.nic.txBuffer = frame
           /\ ~t.ok => NicStep(s.nic, t.nic, {arp})
  <1>1. PICK h : h = NextHop(s, destination)
    BY Zenon
  <1>2. NicStep(s.nic, s.nic, {})
    BY Zenon DEF NicStep
  <1>3. /\ Shape(h) /\ h.stack = s.stack /\ h.ok \in BOOLEAN
        /\ NicStep(s.nic, h.nic, {arp}) /\ (h.ok => h.nic = s.nic)
    <2>1. CASE ~Routable(s.stack, destination)
      BY Zenon, <1>1, <1>2, <2>1 DEF NextHop, Shape, NicStep
    <2>2. CASE Routable(s.stack, destination)
               /\ ArpIndex(s.stack, Target(s.stack, destination)) # {}
      BY Zenon, <1>1, <1>2, <2>2 DEF NextHop, Shape, NicStep
    <2>3. CASE Routable(s.stack, destination)
               /\ ArpIndex(s.stack, Target(s.stack, destination)) = {}
      <3>1. PICK g : g = Send(s, arp)
        BY Zenon
      <3>2. Shape(g) /\ g.stack = s.stack /\ NicStep(s.nic, g.nic, {arp})
        BY Zenon, <3>1, SendIs
      <3>3. h = [g EXCEPT !.ok = FALSE]
        BY Zenon, <1>1, <2>3, <3>1 DEF NextHop
      <3> QED
        BY Zenon, <3>2, <3>3 DEF Shape
    <2> QED
      BY Zenon, <2>1, <2>2, <2>3
  <1>4. CASE h.ok
    <2>1. t = Send(h, frame) /\ NicOK(h.nic) /\ h.nic = s.nic
      BY Zenon, <1>1, <1>3, <1>4 DEF SendTo
    <2>2. /\ Shape(t) /\ t.stack = h.stack /\ t.ok \in BOOLEAN
          /\ NicStep(h.nic, t.nic, {frame}) /\ (t.ok => t.nic.txBuffer = frame)
          /\ ~t.ok => NicStep(h.nic, t.nic, {})
      BY Zenon, <1>3, <2>1, SendIs
    <2> QED
      BY Zenon, <1>3, <2>1, <2>2 DEF NicStep
  <1>5. CASE ~h.ok
    <2>1. t = h
      BY Zenon, <1>1, <1>5 DEF SendTo
    <2> QED
      BY Zenon, <1>1, <1>3, <1>5, <2>1 DEF NicStep
  <1> QED
    BY Zenon, <1>3, <1>4, <1>5

\* Sending a frame that may be sent keeps everything.
LEMMA NetSends ==
    ASSUME NEW k, NEW n, NEW w, NEW p, NEW first, NEW ses, NEW spent,
           NetOK(k, n, w, p, first, ses, spent),
           NEW m, NEW fs, NicStep(n, m, fs), \A f \in fs : FrameOK(f, k, p, first)
    PROVE  NetOK(k, m, w, p, first, ses, spent)
  <1>1. /\ NicOK(m) /\ m.rx = n.rx /\ m.rxBuffer = n.rxBuffer
        /\ m.busy => (n.busy /\ m.txBuffer = n.txBuffer) \/ FrameOK(m.txBuffer, k, p, first)
    BY Zenon DEF NicStep
  <1>2. UnreadOK(m, w)
    BY Zenon, <1>1 DEF UnreadOK, NetOK
  <1>3. LeaseOK(k, m, w, ses)
    BY Zenon, <1>1 DEF LeaseOK, NetOK, FrameOK
  <1>4. TcpOK(k.tcp, m, w, p, first, spent)
    <2>1. CASE first = SeqMod
      BY Zenon, <1>1, <2>1 DEF TcpOK, NetOK, FrameOK
    <2>2. CASE first # SeqMod /\ k.tcp.state # "Closed"
      <3>1. ConnectionOK(k.tcp, n, w, p, first, spent)
        BY Zenon, <2>2 DEF TcpOK, NetOK
      <3>2. m.busy => SegmentOK(m.txBuffer, k.tcp, p, first)
        BY Zenon, <1>1, <2>2, <3>1 DEF ConnectionOK, FrameOK
      <3>3. ConnectionOK(k.tcp, m, w, p, first, spent)
        BY Zenon, <1>1, <3>1, <3>2 DEF ConnectionOK
      <3> QED
        BY Zenon, <1>1, <2>2, <3>3 DEF TcpOK, NetOK
    <2>3. CASE first # SeqMod /\ k.tcp.state = "Closed"
      BY Zenon, <1>1, <2>3 DEF TcpOK, NetOK
    <2> QED
      BY Zenon, <2>1, <2>2, <2>3
  <1> QED
    BY Zenon, <1>1, <1>2, <1>3, <1>4 DEF NetOK

\* What the invariant does not look at may change.
LEMMA StackSame ==
    ASSUME NEW k, NEW n, NEW w, NEW p, NEW first, NEW ses, NEW spent,
           NetOK(k, n, w, p, first, ses, spent),
           NEW j, StackOK(j), j.configured = k.configured, j.ip = k.ip, j.gateway = k.gateway,
           j.dnsServer = k.dnsServer, j.dhcp = k.dhcp, j.server = k.server, j.tcp = k.tcp,
           DnsOK(j)
    PROVE  NetOK(j, n, w, p, first, ses, spent)
  <1>1. LeaseOK(j, n, w, ses)
    BY DEF NetOK, LeaseOK, RequestOK, GrantOK
  <1> QED
    BY Zenon, <1>1 DEF NetOK
\* A larger budget.
LEMMA NetSpends ==
    ASSUME NEW k, NEW n, NEW w, NEW p, NEW first, NEW ses, NEW spent \in Int,
           NetOK(k, n, w, p, first, ses, spent), NEW more \in Int, more >= spent,
           SeqMod \in Nat \ {0}
    PROVE  NetOK(k, n, w, p, first, ses, more)
  <1>1. Pending(n.rx) \in Nat
    BY DEF NetOK, NicOK, RxOK
  <1>2. ConnectionOK(k.tcp, n, w, p, first, spent) /\ first \in 0 .. SeqMod
        => ConnectionOK(k.tcp, n, w, p, first, more)
    <2> SUFFICES ASSUME ConnectionOK(k.tcp, n, w, p, first, spent), first \in 0 .. SeqMod
                 PROVE  ConnectionOK(k.tcp, n, w, p, first, more)
      BY Zenon
    <2>1. Sent(k.tcp, first) \in Int
      BY DEF ConnectionOK, Sent, Offset
    <2>2. Sent(k.tcp, first) + Pending(n.rx) <= more
      BY <1>1, <2>1 DEF ConnectionOK
    <2> QED
      BY Zenon, <2>2 DEF ConnectionOK
  <1>3. Pending(n.rx) <= more
    BY <1>1 DEF NetOK, TcpOK
  <1> QED
    BY Zenon, <1>2, <1>3 DEF NetOK, TcpOK

\* A frame sent directly, without a look at the ARP table.
LEMMA GoodSend ==
    ASSUME NEW s, NEW w, NEW p, NEW first, NEW ses, NEW spent, Good(s, w, p, first, ses, spent),
           NEW frame, FrameOK(frame, s.stack, p, first), NEW t, t = Send(s, frame)
    PROVE  Good(t, w, p, first, ses, spent) /\ t.stack = s.stack
  <1>1. Shape(t) /\ t.stack = s.stack /\ NicStep(s.nic, t.nic, {frame})
    BY Zenon, SendIs DEF Good, NetOK
  <1>2. NetOK(s.stack, t.nic, w, p, first, ses, spent)
    <2>1. \A f \in {frame} : FrameOK(f, s.stack, p, first)
      BY Zenon
    <2> QED
      BY Zenon, <1>1, <2>1, NetSends DEF Good
  <1> QED
    BY Zenon, <1>1, <1>2 DEF Good

\* A frame sent to the next hop.
LEMMA GoodSendTo ==
    ASSUME NEW s, NEW w, NEW p, NEW first, NEW ses, NEW spent, Good(s, w, p, first, ses, spent),
           NEW frame, FrameOK(frame, s.stack, p, first), NEW destination,
           NEW t, t = SendTo(s, destination, frame)
    PROVE  Good(t, w, p, first, ses, spent) /\ t.stack = s.stack /\ t.ok \in BOOLEAN
  <1>1. PICK arp : arp = ArpFrame("request", Target(s.stack, destination))
    BY Zenon
  <1>2. /\ Shape(t) /\ t.stack = s.stack /\ t.ok \in BOOLEAN
        /\ NicStep(s.nic, t.nic, {frame, arp})
    <2>1. Shape(s) /\ NicOK(s.nic)
      BY Zenon DEF Good, NetOK
    <2>2. Shape(t) /\ t.ok \in BOOLEAN /\ NicStep(s.nic, t.nic, {frame, arp})
      BY Zenon, <1>1, <2>1, SendToIs
    <2>3. t.stack = s.stack
      BY Zenon, <2>1 DEF SendTo, NextHop, Send, Shape
    <2> QED
      BY Zenon, <2>2, <2>3
  <1>3. FrameOK(arp, s.stack, p, first)
    <2>1. arp.kind = "arp"
      BY Zenon, <1>1 DEF ArpFrame
    <2> QED
      BY <2>1, PlainFrame
  <1>4. NetOK(s.stack, t.nic, w, p, first, ses, spent)
    <2>1. \A f \in {frame, arp} : FrameOK(f, s.stack, p, first)
      BY Zenon, <1>3
    <2> QED
      BY Zenon, <1>2, <2>1, NetSends DEF Good
  <1> QED
    BY Zenon, <1>2, <1>4 DEF Good

\* learn_arp changes the table only.
LEMMA LearnArpIs ==
    ASSUME NEW k, StackOK(k), NEW address, NEW j, j = LearnArp(k, address)
    PROVE  /\ StackOK(j) /\ j.configured = k.configured /\ j.ip = k.ip
           /\ j.gateway = k.gateway /\ j.dnsServer = k.dnsServer /\ j.dhcp = k.dhcp
           /\ j.server = k.server /\ j.tcp = k.tcp /\ j.dns = k.dns
  <1>1. CASE j = k
    BY Zenon, <1>1
  <1>2. CASE j = [k EXCEPT !.arp[First(ArpIndex(k, Zero))] = address]
    BY <1>2 DEF StackOK
  <1>3. CASE j = [k EXCEPT !.arp[k.arpNext] = address, !.arpNext = (@ + 1) % MaxArp]
    BY Zenon, <1>3 DEF StackOK
  <1> QED
    BY Zenon, <1>1, <1>2, <1>3 DEF LearnArp

\* A handler that learns an address keeps the rest.
LEMMA GoodLearn ==
    ASSUME NEW s, NEW w, NEW p, NEW first, NEW ses, NEW spent, Good(s, w, p, first, ses, spent),
           NEW address, NEW t, Shape(t), t.stack = LearnArp(s.stack, address), t.nic = s.nic
    PROVE  /\ Good(t, w, p, first, ses, spent)
           /\ t.stack.tcp = s.stack.tcp /\ t.stack.configured = s.stack.configured
           /\ t.stack.dhcp = s.stack.dhcp
  <1>2. PICK j : j = LearnArp(s.stack, address)
    BY Zenon
  <1>3. /\ StackOK(j) /\ j.configured = s.stack.configured /\ j.ip = s.stack.ip
        /\ j.gateway = s.stack.gateway /\ j.dnsServer = s.stack.dnsServer
        /\ j.dhcp = s.stack.dhcp /\ j.server = s.stack.server /\ j.tcp = s.stack.tcp
        /\ j.dns = s.stack.dns
    BY <1>2, LearnArpIs DEF Good, NetOK
  <1>4. DnsOK(j)
    BY Zenon, <1>3 DEF Good, NetOK, DnsOK
  <1>5. NetOK(j, s.nic, w, p, first, ses, spent)
    BY Zenon, <1>3, <1>4, StackSame DEF Good
  <1> QED
    BY Zenon, <1>2, <1>3, <1>5 DEF Good
\* A handler that only sets its result.
LEMMA GoodResult ==
    ASSUME NEW s, NEW w, NEW p, NEW first, NEW ses, NEW spent, Good(s, w, p, first, ses, spent),
           NEW result, NEW t, t = [s EXCEPT !.ok = result]
    PROVE  Good(t, w, p, first, ses, spent) /\ t.stack = s.stack /\ t.nic = s.nic
  <1>1. Shape(t) /\ t.stack = s.stack /\ t.nic = s.nic
    BY Zenon DEF Good, Shape
  <1> QED
    BY Zenon, <1>1 DEF Good

\* A handler that changes the stack where only the resolver's state matters.
LEMMA GoodStack ==
    ASSUME NEW s, NEW w, NEW p, NEW first, NEW ses, NEW spent, Good(s, w, p, first, ses, spent),
           NEW t, Shape(t), t.nic = s.nic, StackOK(t.stack), DnsOK(t.stack),
           t.stack.configured = s.stack.configured, t.stack.ip = s.stack.ip,
           t.stack.gateway = s.stack.gateway, t.stack.dnsServer = s.stack.dnsServer,
           t.stack.dhcp = s.stack.dhcp, t.stack.server = s.stack.server,
           t.stack.tcp = s.stack.tcp
    PROVE  Good(t, w, p, first, ses, spent)
  <1>1. NetOK(t.stack, s.nic, w, p, first, ses, spent)
    BY Zenon, StackSame DEF Good
  <1> QED
    BY Zenon, <1>1 DEF Good

\* handle_arp
LEMMA GoodArp ==
    ASSUME NEW s, NEW w, NEW p, NEW first, NEW ses, NEW spent, Good(s, w, p, first, ses, spent),
           NEW f, NEW t, t = HandleArp(s, f)
    PROVE  Good(t, w, p, first, ses, spent) /\ t.stack.tcp = s.stack.tcp
  <1>1. PICK l, arp : /\ l = [s EXCEPT !.stack = LearnArp(@, f.source)]
                      /\ arp = ArpFrame("reply", f.source)
    BY Zenon
  <1>2. Good(l, w, p, first, ses, spent) /\ l.stack.tcp = s.stack.tcp
    <2>1. Shape(l) /\ l.stack = LearnArp(s.stack, f.source) /\ l.nic = s.nic
      BY Zenon, <1>1 DEF Good, Shape
    <2> QED
      BY <2>1, GoodLearn
  <1>3. FrameOK(arp, l.stack, p, first)
    <2>1. arp.kind = "arp"
      BY Zenon, <1>1 DEF ArpFrame
    <2> QED
      BY <2>1, PlainFrame
  <1>4. t = l \/ t = Send(l, arp)
    BY Zenon, <1>1 DEF HandleArp
  <1>5. CASE t = l
    BY Zenon, <1>2, <1>5
  <1>6. CASE t = Send(l, arp)
    BY <1>2, <1>3, <1>6, GoodSend
  <1> QED
    BY Zenon, <1>4, <1>5, <1>6

\* handle_icmp
LEMMA GoodIcmp ==
    ASSUME NEW s, NEW w, NEW p, NEW first, NEW ses, NEW spent, Good(s, w, p, first, ses, spent),
           NEW f, NEW t, t = HandleIcmp(s, f)
    PROVE  Good(t, w, p, first, ses, spent) /\ t.stack.tcp = s.stack.tcp
  <1>1. PICK icmp : icmp = IcmpFrame(f.source, "reply")
    BY Zenon
  <1>2. FrameOK(icmp, s.stack, p, first)
    <2>1. icmp.kind = "icmp"
      BY Zenon, <1>1 DEF IcmpFrame
    <2> QED
      BY <2>1, PlainFrame
  <1>3. t = s \/ t = Send(s, icmp)
    BY Zenon, <1>1 DEF HandleIcmp
  <1> QED
    BY <1>2, <1>3, GoodSend

\* handle_udp
LEMMA GoodUdp ==
    ASSUME NEW s, NEW w, NEW p, NEW first, NEW ses, NEW spent, Good(s, w, p, first, ses, spent),
           NEW length, NEW t, t = [s EXCEPT !.stack.udpLen = length]
    PROVE  Good(t, w, p, first, ses, spent) /\ t.stack.tcp = s.stack.tcp
  <1>1. Shape(t) /\ t.nic = s.nic /\ t.stack = [s.stack EXCEPT !.udpLen = length]
    BY Zenon DEF Good, Shape
  <1>2. StackOK(s.stack) /\ DnsOK(s.stack)
    BY Zenon DEF Good, NetOK
  <1>3. /\ StackOK(t.stack) /\ t.stack.dns = s.stack.dns
        /\ t.stack.configured = s.stack.configured /\ t.stack.ip = s.stack.ip
        /\ t.stack.gateway = s.stack.gateway /\ t.stack.dnsServer = s.stack.dnsServer
        /\ t.stack.dhcp = s.stack.dhcp /\ t.stack.server = s.stack.server
        /\ t.stack.tcp = s.stack.tcp
    BY <1>1, <1>2 DEF StackOK
  <1>4. DnsOK(t.stack)
    BY Zenon, <1>2, <1>3 DEF DnsOK
  <1> QED
    BY Zenon, <1>1, <1>3, <1>4, GoodStack

\* The resolver's state is replaced by one in which a result is of its query.
LEMMA GoodDns ==
    ASSUME NEW s, NEW w, NEW p, NEW first, NEW ses, NEW spent, Good(s, w, p, first, ses, spent),
           NEW dns, dns = [pending |-> dns.pending, id |-> dns.id, result |-> dns.result],
           dns.result # 0 => dns.result = dns.id,
           NEW t, Shape(t), t.nic = s.nic, t.stack = [s.stack EXCEPT !.dns = dns]
    PROVE  Good(t, w, p, first, ses, spent) /\ t.stack.tcp = s.stack.tcp
  <1>1. StackOK(s.stack)
    BY Zenon DEF Good, NetOK
  <1>2. /\ StackOK(t.stack) /\ t.stack.dns = dns
        /\ t.stack.configured = s.stack.configured /\ t.stack.ip = s.stack.ip
        /\ t.stack.gateway = s.stack.gateway /\ t.stack.dnsServer = s.stack.dnsServer
        /\ t.stack.dhcp = s.stack.dhcp /\ t.stack.server = s.stack.server
        /\ t.stack.tcp = s.stack.tcp
    BY <1>1 DEF StackOK
  <1>3. DnsOK(t.stack)
    BY Zenon, <1>2 DEF DnsOK
  <1> QED
    BY Zenon, <1>2, <1>3, GoodStack

\* handle_dns: the answer taken has the number of the query.
LEMMA GoodHandleDns ==
    ASSUME NEW s, NEW w, NEW p, NEW first, NEW ses, NEW spent, Good(s, w, p, first, ses, spent),
           NEW f, NEW t, t = HandleDns(s, f)
    PROVE  Good(t, w, p, first, ses, spent) /\ t.stack.tcp = s.stack.tcp
  <1>1. CASE t = s
    BY Zenon, <1>1
  <1>2. CASE t = [s EXCEPT !.ok = FALSE]
    BY <1>2, GoodResult
  <1>3. CASE /\ f.id = s.stack.dns.id
             /\ t = [s EXCEPT !.stack.dns.result = f.id, !.stack.dns.pending = FALSE]
    <2>1. PICK d, dns : d = s.stack.dns /\ dns = [d EXCEPT !.result = f.id, !.pending = FALSE]
      BY Zenon
    <2>2. StackOK(s.stack) /\ Shape(s)
      BY Zenon DEF Good, NetOK
    <2>3. Shape(t) /\ t.nic = s.nic /\ t.stack = [s.stack EXCEPT !.dns = dns]
      <3>1. /\ Shape(t) /\ t.nic = s.nic
            /\ t.stack = [s.stack EXCEPT !.dns.result = f.id, !.dns.pending = FALSE]
        BY Zenon, <1>3, <2>2 DEF Shape
      <3> QED
        BY Zenon, <2>1, <2>2, <3>1 DEF StackOK
    <2>4. /\ dns = [pending |-> dns.pending, id |-> dns.id, result |-> dns.result]
          /\ dns.result # 0 => dns.result = dns.id
      <3>1. d = [pending |-> d.pending, id |-> d.id, result |-> d.result]
        BY Zenon, <2>1, <2>2 DEF StackOK
      <3> QED
        BY Zenon, <1>3, <2>1, <3>1
    <2> QED
      BY <2>3, <2>4, GoodDns
  <1> QED
    BY Zenon, <1>1, <1>2, <1>3 DEF HandleDns

\* poll_dns gives a query up and keeps its number.
LEMMA GoodPolledDns ==
    ASSUME NEW s, NEW w, NEW p, NEW first, NEW ses, NEW spent, Good(s, w, p, first, ses, spent),
           NEW late, NEW t, t = PolledDns(s, late)
    PROVE  Good(t, w, p, first, ses, spent) /\ t.stack.tcp = s.stack.tcp
  <1>1. CASE t = s
    BY Zenon, <1>1
  <1>2. CASE t = [s EXCEPT !.stack.dns.pending = FALSE]
    <2>1. PICK d, dns : d = s.stack.dns /\ dns = [d EXCEPT !.pending = FALSE]
      BY Zenon
    <2>2. StackOK(s.stack) /\ Shape(s) /\ DnsOK(s.stack)
      BY Zenon DEF Good, NetOK
    <2>3. Shape(t) /\ t.nic = s.nic /\ t.stack = [s.stack EXCEPT !.dns = dns]
      <3>1. /\ Shape(t) /\ t.nic = s.nic
            /\ t.stack = [s.stack EXCEPT !.dns.pending = FALSE]
        BY Zenon, <1>2, <2>2 DEF Shape
      <3> QED
        BY Zenon, <2>1, <2>2, <3>1 DEF StackOK
    <2>4. /\ dns = [pending |-> dns.pending, id |-> dns.id, result |-> dns.result]
          /\ dns.result # 0 => dns.result = dns.id
      <3>1. d = [pending |-> d.pending, id |-> d.id, result |-> d.result]
        BY Zenon, <2>1, <2>2 DEF StackOK
      <3> QED
        BY Zenon, <2>1, <2>2, <3>1 DEF DnsOK
    <2> QED
      BY <2>3, <2>4, GoodDns
  <1> QED
    BY Zenon, <1>1, <1>2 DEF PolledDns
\* The DHCP client moves on.
LEMMA GoodLease ==
    ASSUME NEW s, NEW w, NEW p, NEW first, NEW ses, NEW spent, Good(s, w, p, first, ses, spent),
           NEW t, Shape(t), t.nic = s.nic, StackOK(t.stack), t.stack.dns = s.stack.dns,
           t.stack.tcp = s.stack.tcp, LeaseOK(t.stack, s.nic, w, ses)
    PROVE  Good(t, w, p, first, ses, spent)
  <1>1. DnsOK(t.stack)
    BY Zenon DEF Good, NetOK, DnsOK
  <1> QED
    BY Zenon, <1>1 DEF Good, NetOK

\* A DHCP message of the client, which is not discovering when it requests.
LEMMA GoodSendDhcp ==
    ASSUME NEW s, NEW w, NEW p, NEW first, NEW ses, NEW spent, Good(s, w, p, first, ses, spent),
           NEW t, t = SendDhcpDiscover(s)
                  \/ (t = SendDhcpRequest(s) /\ s.stack.dhcp # "Discovering")
    PROVE  Good(t, w, p, first, ses, spent) /\ t.stack = s.stack
  <1>1. PICK d, r : /\ d = DhcpPayload("discover", Zero, Zero)
                    /\ r = DhcpPayload("request", s.stack.server, s.stack.offered)
    BY Zenon
  <1>2. /\ d.kind = "dhcp" /\ d.type = "discover" /\ r.kind = "dhcp" /\ r.type = "request"
        /\ r.server = s.stack.server
    BY Zenon, <1>1 DEF DhcpPayload
  <1>3. CASE t = SendDhcpDiscover(s)
    <2>1. FrameOK(d, s.stack, p, first)
      BY Zenon, <1>2 DEF FrameOK, RequestOK, SegmentOK
    <2>2. t = Send(s, d)
      BY Zenon, <1>1, <1>3 DEF SendDhcpDiscover
    <2> QED
      BY <2>1, <2>2, GoodSend
  <1>4. CASE t = SendDhcpRequest(s) /\ s.stack.dhcp # "Discovering"
    <2>1. FrameOK(r, s.stack, p, first)
      BY Zenon, <1>2, <1>4 DEF FrameOK, RequestOK, SegmentOK
    <2>2. t = Send(s, r)
      BY Zenon, <1>1, <1>4 DEF SendDhcpRequest
    <2> QED
      BY <2>1, <2>2, GoodSend
  <1> QED
    BY Zenon, <1>3, <1>4

\* handle_dhcp, an offer: none was taken before, so no request and no grant is about.
LEMMA GoodOffered ==
    ASSUME NEW s, NEW w, NEW p, NEW first, NEW ses, NEW spent, Good(s, w, p, first, ses, spent),
           NEW f, NEW t, t = Offered(s, f)
    PROVE  Good(t, w, p, first, ses, spent) /\ t.stack.tcp = s.stack.tcp
  <1>1. CASE t = s
    BY Zenon, <1>1
  <1>2. CASE s.stack.dhcp = "Discovering"
    <2>1. PICK l : l = [s EXCEPT !.stack.offered = f.address, !.stack.server = f.server,
                                 !.stack.dhcp = "Requesting", !.stack.dhcpRetries = 0]
      BY Zenon
    <2>2. Shape(s) /\ StackOK(s.stack) /\ LeaseOK(s.stack, s.nic, w, ses)
      BY Zenon DEF Good, NetOK
    <2>3. /\ Shape(l) /\ l.nic = s.nic
          /\ l.stack = [s.stack EXCEPT !.offered = f.address, !.server = f.server,
                                       !.dhcp = "Requesting", !.dhcpRetries = 0]
      BY Zenon, <2>1, <2>2 DEF Shape
    <2>4. /\ StackOK(l.stack) /\ l.stack.dns = s.stack.dns /\ l.stack.tcp = s.stack.tcp
          /\ l.stack.dhcp = "Requesting" /\ l.stack.configured = s.stack.configured
      BY Zenon, <2>2, <2>3 DEF StackOK
    <2>5. ~s.stack.configured /\ ses = "boot"
      BY Zenon, <1>2, <2>2 DEF LeaseOK
    <2>6. s.nic.busy => RequestOK(s.nic.txBuffer, l.stack)
      BY Zenon, <1>2, <2>2 DEF LeaseOK, RequestOK
    <2>7. \A g \in w : GrantOK(g, l.stack)
      BY Zenon, <1>2, <2>2 DEF LeaseOK, GrantOK
    <2>8. LeaseOK(l.stack, s.nic, w, ses)
      BY Zenon, <2>4, <2>5, <2>6, <2>7 DEF LeaseOK
    <2>9. Good(l, w, p, first, ses, spent)
      BY Zenon, <2>3, <2>4, <2>8, GoodLease
    <2>10. t = SendDhcpRequest(l) /\ l.stack.dhcp # "Discovering"
      BY Zenon, <1>2, <2>1, <2>4 DEF Offered
    <2> QED
      BY <2>4, <2>9, <2>10, GoodSendDhcp
  <1> QED
    BY Zenon, <1>1, <1>2 DEF Offered

\* handle_dhcp, an acknowledgement: it is of the server that was asked.
LEMMA GoodAcknowledged ==
    ASSUME NEW s, NEW w, NEW p, NEW first, NEW ses, NEW spent, Good(s, w, p, first, ses, spent),
           NEW f \in w, f.kind = "dhcp", f.type = "ack", NEW t, t = Acknowledged(s, f)
    PROVE  Good(t, w, p, first, ses, spent) /\ t.stack.tcp = s.stack.tcp
  <1>1. CASE t = s
    BY Zenon, <1>1
  <1>2. CASE s.stack.dhcp = "Requesting"
    <2>1. t = [s EXCEPT !.stack.ip = f.address, !.stack.gateway = f.server,
                        !.stack.dnsServer = f.server, !.stack.configured = TRUE,
                        !.stack.dhcp = "Bound"]
      BY Zenon, <1>2 DEF Acknowledged
    <2>2. Shape(s) /\ StackOK(s.stack) /\ LeaseOK(s.stack, s.nic, w, ses)
      BY Zenon DEF Good, NetOK
    <2>3. /\ Shape(t) /\ t.nic = s.nic
          /\ t.stack = [s.stack EXCEPT !.ip = f.address, !.gateway = f.server,
                                       !.dnsServer = f.server, !.configured = TRUE,
                                       !.dhcp = "Bound"]
      BY Zenon, <2>1, <2>2 DEF Shape
    <2>4. /\ StackOK(t.stack) /\ t.stack.dns = s.stack.dns /\ t.stack.tcp = s.stack.tcp
          /\ t.stack.dhcp = "Bound" /\ t.stack.configured /\ t.stack.ip = f.address
          /\ t.stack.gateway = f.server /\ t.stack.dnsServer = f.server
          /\ t.stack.server = s.stack.server
      BY ZenonT(40), <2>2, <2>3 DEF StackOK
    <2>5. /\ f.server = s.stack.server /\ f.to = AddressOf(f.server)
          /\ f = DhcpAnswer("ack", f.server, f.to)
      BY Zenon, <2>2 DEF LeaseOK, GrantOK
    <2>6. f.address = AddressOf(f.server)
      <3>1. PICK a, v : a = f.to /\ v = f.server
        BY Zenon
      <3>2. f = DhcpAnswer("ack", v, a)
        BY Zenon, <2>5, <3>1
      <3>3. f.address = AddressOf(v)
        BY Zenon, <3>2 DEF DhcpAnswer
      <3> QED
        BY Zenon, <3>1, <3>3
    <2>7. f = DhcpAnswer("ack", t.stack.server, t.stack.ip)
      BY Zenon, <2>4, <2>5, <2>6
    <2>8. s.nic.busy => RequestOK(s.nic.txBuffer, t.stack)
      BY Zenon, <2>2, <2>4 DEF LeaseOK, RequestOK
    <2>9. \A g \in w : GrantOK(g, t.stack)
      BY Zenon, <2>2, <2>4 DEF LeaseOK, GrantOK
    <2>10. LeaseOK(t.stack, s.nic, w, ses)
      BY Zenon, <2>4, <2>5, <2>6, <2>7, <2>8, <2>9 DEF LeaseOK
    <2> QED
      BY Zenon, <2>3, <2>4, <2>10, GoodLease
  <1> QED
    BY Zenon, <1>1, <1>2 DEF Acknowledged

\* A refusal, or the last try of poll_dhcp: the client stops.
LEMMA GoodIdle ==
    ASSUME NEW s, NEW w, NEW p, NEW first, NEW ses, NEW spent, Good(s, w, p, first, ses, spent),
           NEW t, Shape(t), t.nic = s.nic, t.stack = [s.stack EXCEPT !.dhcp = "Idle"]
    PROVE  Good(t, w, p, first, ses, spent) /\ t.stack.tcp = s.stack.tcp
  <1>1. StackOK(s.stack) /\ LeaseOK(s.stack, s.nic, w, ses)
    BY Zenon DEF Good, NetOK
  <1>2. /\ StackOK(t.stack) /\ t.stack.dns = s.stack.dns /\ t.stack.tcp = s.stack.tcp
        /\ t.stack.dhcp = "Idle" /\ t.stack.configured = s.stack.configured
        /\ t.stack.ip = s.stack.ip /\ t.stack.gateway = s.stack.gateway
        /\ t.stack.dnsServer = s.stack.dnsServer /\ t.stack.server = s.stack.server
    BY <1>1 DEF StackOK
  <1>3. s.nic.busy => RequestOK(s.nic.txBuffer, t.stack)
    BY Zenon, <1>1, <1>2 DEF LeaseOK, RequestOK
  <1>4. \A g \in w : GrantOK(g, t.stack)
    BY Zenon, <1>1, <1>2 DEF LeaseOK, GrantOK
  <1>5. LeaseOK(t.stack, s.nic, w, ses)
    BY Zenon, <1>1, <1>2, <1>3, <1>4 DEF LeaseOK
  <1> QED
    BY Zenon, <1>2, <1>5, GoodLease
\* handle_dhcp
LEMMA GoodDhcp ==
    ASSUME NEW s, NEW w, NEW p, NEW first, NEW ses, NEW spent, Good(s, w, p, first, ses, spent),
           NEW f \in w, f.kind = "dhcp", NEW t, t = HandleDhcp(s, f)
    PROVE  Good(t, w, p, first, ses, spent) /\ t.stack.tcp = s.stack.tcp
  <1>1. f.type \in {"offer", "ack", "nak"}
    BY Zenon DEF Good, NetOK, LeaseOK, GrantOK
  <1>2. CASE f.type = "offer"
    <2>1. t = Offered(s, f)
      BY Zenon, <1>2 DEF HandleDhcp
    <2> QED
      BY <2>1, GoodOffered
  <1>3. CASE f.type = "ack"
    <2>1. t = Acknowledged(s, f)
      BY Zenon, <1>3 DEF HandleDhcp
    <2> QED
      BY <1>3, <2>1, GoodAcknowledged
  <1>4. CASE f.type = "nak"
    <2>1. t = [s EXCEPT !.stack.dhcp = "Idle", !.ok = FALSE]
      BY Zenon, <1>4 DEF HandleDhcp
    <2>2. Shape(s)
      BY Zenon DEF Good
    <2>3. Shape(t) /\ t.nic = s.nic /\ t.stack = [s.stack EXCEPT !.dhcp = "Idle"]
      BY Zenon, <2>1, <2>2 DEF Shape
    <2> QED
      BY <2>3, GoodIdle
  <1> QED
    BY Zenon, <1>1, <1>2, <1>3, <1>4

\* poll_dhcp
LEMMA GoodPolledDhcp ==
    ASSUME NEW s, NEW w, NEW p, NEW first, NEW ses, NEW spent, Good(s, w, p, first, ses, spent),
           NEW late, NEW t, t = PolledDhcp(s, late)
    PROVE  Good(t, w, p, first, ses, spent) /\ t.stack.tcp = s.stack.tcp
  <1>1. Shape(s) /\ StackOK(s.stack) /\ LeaseOK(s.stack, s.nic, w, ses)
    BY Zenon DEF Good, NetOK
  <1>2. CASE t = s
    BY Zenon, <1>2
  <1>3. CASE t = [s EXCEPT !.stack.dhcp = "Idle"]
    <2>1. Shape(t) /\ t.nic = s.nic /\ t.stack = [s.stack EXCEPT !.dhcp = "Idle"]
      BY Zenon, <1>1, <1>3 DEF Shape
    <2> QED
      BY <2>1, GoodIdle
  <1>4. ASSUME NEW c, c = [s EXCEPT !.stack.dhcpRetries = @ + 1],
               t = SendDhcpDiscover(c)
               \/ (t = SendDhcpRequest(c) /\ s.stack.dhcp = "Requesting")
        PROVE  Good(t, w, p, first, ses, spent) /\ t.stack.tcp = s.stack.tcp
    <2>1. /\ Shape(c) /\ c.nic = s.nic
          /\ c.stack = [s.stack EXCEPT !.dhcpRetries = @ + 1]
      BY Zenon, <1>1, <1>4 DEF Shape
    <2>2. /\ StackOK(c.stack) /\ c.stack.dns = s.stack.dns /\ c.stack.tcp = s.stack.tcp
          /\ c.stack.dhcp = s.stack.dhcp /\ c.stack.configured = s.stack.configured
          /\ c.stack.ip = s.stack.ip /\ c.stack.gateway = s.stack.gateway
          /\ c.stack.dnsServer = s.stack.dnsServer /\ c.stack.server = s.stack.server
      BY <1>1, <2>1 DEF StackOK
    <2>3. LeaseOK(c.stack, s.nic, w, ses)
      BY ZenonT(40), <1>1, <2>2 DEF LeaseOK, RequestOK, GrantOK
    <2>4. Good(c, w, p, first, ses, spent)
      BY Zenon, <2>1, <2>2, <2>3, GoodLease
    <2>5. t = SendDhcpDiscover(c) \/ (t = SendDhcpRequest(c) /\ c.stack.dhcp # "Discovering")
      BY Zenon, <1>4, <2>2
    <2> QED
      BY <2>2, <2>4, <2>5, GoodSendDhcp
  <1>5. \/ t = s \/ t = [s EXCEPT !.stack.dhcp = "Idle"]
        \/ \E c : /\ c = [s EXCEPT !.stack.dhcpRetries = @ + 1]
                  /\ t = SendDhcpDiscover(c)
                     \/ (t = SendDhcpRequest(c) /\ s.stack.dhcp = "Requesting")
    BY Zenon DEF PolledDhcp
  <1> QED
    BY Zenon, <1>2, <1>3, <1>4, <1>5

\* start_dns_query: a new query has no result.
LEMMA GoodDnsQuery ==
    ASSUME NEW s, NEW w, NEW p, NEW first, NEW ses, NEW spent, Good(s, w, p, first, ses, spent),
           NEW id, NEW t, t = DnsQuery(s, id)
    PROVE  Good(t, w, p, first, ses, spent) /\ t.stack.tcp = s.stack.tcp
  <1>1. PICK d, udp, sent, dns : /\ d = s.stack.dnsServer /\ udp = UdpFrame(d, "dns", id)
                                 /\ sent = SendTo(s, d, udp)
                                 /\ dns = [pending |-> TRUE, id |-> id, result |-> 0]
    BY Zenon
  <1>2. FrameOK(udp, s.stack, p, first)
    <2>1. udp.kind = "udp"
      BY Zenon, <1>1 DEF UdpFrame
    <2> QED
      BY <2>1, PlainFrame
  <1>3. Good(sent, w, p, first, ses, spent) /\ sent.stack = s.stack
    BY <1>1, <1>2, GoodSendTo
  <1>4. CASE t = sent
    BY Zenon, <1>3, <1>4
  <1>5. CASE t = [sent EXCEPT !.stack.dns = dns]
    <2>1. Shape(sent)
      BY Zenon, <1>3 DEF Good
    <2>2. Shape(t) /\ t.nic = sent.nic /\ t.stack = [sent.stack EXCEPT !.dns = dns]
      BY Zenon, <1>5, <2>1 DEF Shape
    <2>3. dns = [pending |-> dns.pending, id |-> dns.id, result |-> dns.result] /\ dns.result = 0
      BY Zenon, <1>1
    <2>4. Good(t, w, p, first, ses, spent) /\ t.stack.tcp = sent.stack.tcp
      BY <1>3, <2>2, <2>3, GoodDns
    <2> QED
      BY Zenon, <1>3, <2>4
  <1> QED
    BY Zenon, <1>1, <1>4, <1>5 DEF DnsQuery

\* handle_frame, but for TCP segments.
LEMMA GoodPlain ==
    ASSUME NEW s, NEW w, NEW p, NEW first, NEW ses, NEW spent, Good(s, w, p, first, ses, spent),
           NEW f, f \in w \/ f.kind \in NoiseKinds, f.kind # "tcp", f.kind # "runt",
           NEW t, t = HandleFrame(s, f)
    PROVE  Good(t, w, p, first, ses, spent) /\ t.stack.tcp = s.stack.tcp
  <1>1. /\ f.kind \in {"bad", "arp", "icmp", "udp", "dhcp", "dns"}
        /\ f.kind = "dhcp" => f \in w
    BY Zenon DEF Good, NetOK, AnswerKinds, NoiseKinds
  <1>2. CASE f.kind = "bad"
    <2>1. t = [s EXCEPT !.ok = FALSE]
      BY Zenon, <1>2 DEF HandleFrame
    <2> QED
      BY <2>1, GoodResult
  <1>3. CASE f.kind = "arp"
    <2>1. t = HandleArp(s, f)
      BY Zenon, <1>3 DEF HandleFrame
    <2> QED
      BY <2>1, GoodArp
  <1>4. CASE f.kind \in {"icmp", "udp", "dhcp", "dns"} /\ Accepts(s.stack, f)
    <2>1. PICK l : l = IF s.stack.configured
                       THEN [s EXCEPT !.stack = LearnArp(@, f.source)] ELSE s
      BY Zenon
    <2>2. Good(l, w, p, first, ses, spent) /\ l.stack.tcp = s.stack.tcp
      <3>1. CASE l = s
        BY Zenon, <3>1
      <3>2. CASE l = [s EXCEPT !.stack = LearnArp(@, f.source)]
        <4>1. Shape(l) /\ l.stack = LearnArp(s.stack, f.source) /\ l.nic = s.nic
          BY Zenon, <3>2 DEF Good, Shape
        <4> QED
          BY <4>1, GoodLearn
      <3> QED
        BY Zenon, <2>1, <3>1, <3>2
    <2>3. CASE f.kind = "dhcp"
      <3>1. t = HandleDhcp(l, f)
        BY Zenon, <1>4, <2>1, <2>3 DEF HandleFrame
      <3>2. Good(t, w, p, first, ses, spent) /\ t.stack.tcp = l.stack.tcp
        BY <1>1, <2>2, <2>3, <3>1, GoodDhcp
      <3> QED
        BY Zenon, <2>2, <3>2
    <2>4. CASE f.kind = "dns"
      <3>1. t = HandleDns(l, f)
        BY Zenon, <1>4, <2>1, <2>4 DEF HandleFrame
      <3>2. Good(t, w, p, first, ses, spent) /\ t.stack.tcp = l.stack.tcp
        BY <2>2, <3>1, GoodHandleDns
      <3> QED
        BY Zenon, <2>2, <3>2
    <2>5. CASE f.kind = "udp"
      <3>1. t = HandleUdp(l, f)
        BY Zenon, <1>4, <2>1, <2>5 DEF HandleFrame
      <3>2. PICK n : n = f.length
        BY Zenon
      <3>3. t = l \/ t = [l EXCEPT !.stack.udpLen = n]
        BY Zenon, <3>1, <3>2 DEF HandleUdp
      <3>4. Good(t, w, p, first, ses, spent) /\ t.stack.tcp = l.stack.tcp
        BY <2>2, <3>3, GoodUdp
      <3> QED
        BY Zenon, <2>2, <3>4
    <2>6. CASE f.kind = "icmp"
      <3>1. t = HandleIcmp(l, f)
        BY Zenon, <1>4, <2>1, <2>6 DEF HandleFrame
      <3>2. Good(t, w, p, first, ses, spent) /\ t.stack.tcp = l.stack.tcp
        BY <2>2, <3>1, GoodIcmp
      <3> QED
        BY Zenon, <2>2, <3>2
    <2> QED
      BY Zenon, <1>4, <2>3, <2>4, <2>5, <2>6
  <1>5. CASE f.kind \in {"icmp", "udp", "dhcp", "dns"} /\ ~Accepts(s.stack, f)
    <2>1. t = s
      BY Zenon, <1>5 DEF HandleFrame
    <2> QED
      BY Zenon, <2>1
  <1> QED
    BY Zenon, <1>1, <1>2, <1>3, <1>4, <1>5
-----------------------------------------------------------------------------
(* Sequence numbers *)

Numbers == 0 .. SeqMod - 1

\* The next number is one further, as long as the numbers do not come round.
LEMMA OffsetNext ==
    ASSUME NEW first \in Numbers, NEW v \in Numbers
    PROVE  /\ Offset(v, first) \in Numbers /\ Wrap(v + 1) \in Numbers /\ Wrap(v) = v
           /\ Offset(v, first) + 1 < SeqMod =>
                 Offset(Wrap(v + 1), first) = Offset(v, first) + 1
  <1>1. PICK M : M = SeqMod
    BY Zenon
  <1>2. M \in Nat /\ M > 2 /\ first \in 0 .. M - 1 /\ v \in 0 .. M - 1
    BY Zenon, <1>1, StackAssumption DEF Numbers
  <1>3. (v - first) % M = IF v >= first THEN v - first ELSE (v - first) + M
    BY <1>2
  <1>4. (v + 1) % M = IF v + 1 = M THEN 0 ELSE v + 1
    BY <1>2
  <1>5. v % M = v
    BY <1>2
  <1>6. ASSUME ((v - first) % M) + 1 < M
        PROVE  (((v + 1) % M) - first) % M = ((v - first) % M) + 1
    <2>1. CASE v + 1 = M
      <3>1. (v + 1) % M = 0 /\ v - first >= 0 /\ v - first + 1 < M
        BY <1>2, <1>3, <1>4, <1>6, <2>1
      <3>2. first > 0 /\ (0 - first) % M = M - first
        BY <1>2, <2>1, <3>1
      <3> QED
        BY <1>2, <1>3, <2>1, <3>1, <3>2
    <2>2. CASE v + 1 # M /\ v >= first
      <3>1. (v + 1) % M = v + 1 /\ ((v + 1) - first) % M = (v + 1) - first
        BY <1>2, <1>4, <2>2
      <3> QED
        BY <1>2, <1>3, <2>2, <3>1
    <2>3. CASE v + 1 # M /\ v < first
      <3>1. (v + 1) % M = v + 1 /\ (v - first) + M + 1 < M
        BY <1>2, <1>3, <1>4, <1>6, <2>3
      <3>2. (v + 1) - first < 0
        BY <1>2, <3>1
      <3>3. ((v + 1) - first) % M = ((v + 1) - first) + M
        BY <1>2, <3>2
      <3> QED
        BY <1>2, <1>3, <2>3, <3>1, <3>3
    <2> QED
      BY <1>2, <2>1, <2>2, <2>3
  <1>7. (v - first) % M \in 0 .. M - 1 /\ (v + 1) % M \in 0 .. M - 1
    BY <1>2
  <1> QED
    BY Zenon, <1>1, <1>5, <1>6, <1>7 DEF Offset, Wrap, Numbers

\* Numbers are told apart by their offsets, and beyond the first one they are
\* ordered as these.
LEMMA OffsetOrder ==
    ASSUME NEW first \in Numbers, NEW a \in Numbers, NEW b \in Numbers
    PROVE  /\ Offset(a, first) = Offset(b, first) => a = b
           /\ a >= b /\ b > first => Offset(a, first) >= Offset(b, first)
           /\ Offset(first, first) = 0
  <1>1. PICK M : M = SeqMod
    BY Zenon
  <1>2. M \in Nat /\ M > 2 /\ first \in 0 .. M - 1 /\ a \in 0 .. M - 1 /\ b \in 0 .. M - 1
    BY Zenon, <1>1, StackAssumption DEF Numbers
  <1>3. (a - first) % M = IF a >= first THEN a - first ELSE (a - first) + M
    BY <1>2
  <1>4. (b - first) % M = IF b >= first THEN b - first ELSE (b - first) + M
    BY <1>2
  <1>5. (first - first) % M = 0
    BY <1>2
  <1>6. (a - first) % M = (b - first) % M => a = b
    BY <1>2, <1>3, <1>4
  <1>7. a >= b /\ b > first => (a - first) % M >= (b - first) % M
    BY <1>2, <1>3, <1>4
  <1> QED
    BY Zenon, <1>1, <1>5, <1>6, <1>7 DEF Offset

-----------------------------------------------------------------------------
(* The socket *)

TcpShape(tcp) ==
    tcp = [state |-> tcp.state, sequence |-> tcp.sequence,
           acknowledgement |-> tcp.acknowledgement, pendingLen |-> tcp.pendingLen,
           pendingSequence |-> tcp.pendingSequence, retries |-> tcp.retries,
           receivedLen |-> tcp.receivedLen, remote |-> tcp.remote]

\* Between s and t only the socket has changed.
NewSocket(s, t, tcp) ==
    /\ Shape(t) /\ t.nic = s.nic /\ t.stack = [s.stack EXCEPT !.tcp = tcp]
    /\ TcpShape(tcp)

\* A handler replaces the socket.
LEMMA GoodTcp ==
    ASSUME NEW s, NEW w, NEW p, NEW first, NEW ses, NEW spent, Good(s, w, p, first, ses, spent),
           NEW t, NEW tcp, NewSocket(s, t, tcp),
           NEW more, TcpOK(tcp, s.nic, w, p, first, more)
    PROVE  Good(t, w, p, first, ses, more) /\ t.stack.tcp = tcp
  <1>1. StackOK(s.stack) /\ LeaseOK(s.stack, s.nic, w, ses) /\ DnsOK(s.stack)
    BY Zenon DEF Good, NetOK
  <1>2. /\ t.stack.tcp = tcp /\ t.stack.dns = s.stack.dns
        /\ t.stack.dhcp = s.stack.dhcp /\ t.stack.configured = s.stack.configured
        /\ t.stack.ip = s.stack.ip /\ t.stack.gateway = s.stack.gateway
        /\ t.stack.dnsServer = s.stack.dnsServer /\ t.stack.server = s.stack.server
    BY <1>1 DEF StackOK, NewSocket
  <1>3. StackOK(t.stack)
    BY Zenon, <1>1 DEF StackOK, TcpShape, NewSocket
  <1>4. LeaseOK(t.stack, s.nic, w, ses)
    BY Zenon, <1>1, <1>2 DEF LeaseOK, RequestOK, GrantOK
  <1>5. DnsOK(t.stack)
    BY Zenon, <1>1, <1>2 DEF DnsOK
  <1> QED
    BY Zenon, <1>2, <1>3, <1>4, <1>5 DEF Good, NetOK, NewSocket

\* What is known of an open connection.
LEMMA OpenIs ==
    ASSUME NEW s, NEW w, NEW p, NEW first, NEW ses, NEW spent \in Int,
           Good(s, w, p, first, ses, spent), s.stack.tcp.state # "Closed"
    PROVE  /\ first \in Numbers /\ first # SeqMod /\ SeqMod \in Nat
           /\ ConnectionOK(s.stack.tcp, s.nic, w, p, first, spent)
           /\ Pending(s.nic.rx) \in Nat /\ Pending(s.nic.rx) <= spent
           /\ TcpShape(s.stack.tcp) /\ StackOK(s.stack) /\ Shape(s)
           /\ s.stack.tcp.sequence \in Numbers
           /\ Offset(s.stack.tcp.sequence, first) \in Numbers
           /\ Sent(s.stack.tcp, first) \in Nat
  <1>1. /\ first \in 0 .. SeqMod /\ first # SeqMod
        /\ ConnectionOK(s.stack.tcp, s.nic, w, p, first, spent)
        /\ Pending(s.nic.rx) <= spent
    BY Zenon DEF Good, NetOK, TcpOK
  <1>2. first \in Numbers /\ s.stack.tcp.sequence \in Numbers /\ SeqMod \in Nat
    BY <1>1, StackAssumption DEF Numbers, ConnectionOK
  <1>3. Pending(s.nic.rx) \in Nat
    BY DEF Good, NetOK, NicOK, RxOK
  <1>4. TcpShape(s.stack.tcp) /\ StackOK(s.stack) /\ Shape(s)
    BY Zenon DEF Good, NetOK, StackOK, TcpShape
  <1>5. Offset(s.stack.tcp.sequence, first) \in Numbers
    BY Zenon, <1>2, OffsetNext
  <1>6. Sent(s.stack.tcp, first) \in Nat
    BY <1>1, <1>5 DEF Sent, ConnectionOK, Numbers
  <1> QED
    BY Zenon, <1>1, <1>2, <1>3, <1>4, <1>5, <1>6

SameStack(s, t) == t.stack = s.stack

\* send_tcp_segment of an open connection: a SYN to a peer that has heard none,
\* never more data than is pending.
LEMMA GoodSegment ==
    ASSUME NEW s, NEW w, NEW p, NEW first, NEW ses, NEW spent \in Int,
           Good(s, w, p, first, ses, spent), s.stack.tcp.state # "Closed",
           NEW flags, p.state = "Listen" => "SYN" \in flags,
           NEW length, length = 0 \/ length = s.stack.tcp.pendingLen,
           NEW t, t = SendTcpSegment(s, flags, length)
    PROVE  Good(t, w, p, first, ses, spent) /\ SameStack(s, t) /\ t.ok \in BOOLEAN
  <1>1. PICK tcp, seq, ack : tcp = s.stack.tcp /\ seq = tcp.sequence /\ ack = tcp.acknowledgement
    BY Zenon
  <1>2. PICK f : f = TcpFrame(seq, ack, flags, length)
    BY Zenon
  <1>3. f.kind = "tcp" /\ f.seq = seq /\ f.flags = flags /\ f.length = length
    BY Zenon, <1>2 DEF TcpFrame
  <1>4. /\ first # SeqMod /\ ConnectionOK(tcp, s.nic, w, p, first, spent)
        /\ Offset(seq, first) \in Numbers
    BY Zenon, <1>1, OpenIs
  <1>5. SegmentOK(f, tcp, p, first)
    <2>1. seq \in 0 .. SeqMod - 1 /\ length \in {0, 1}
      BY Zenon, <1>1, <1>4 DEF ConnectionOK
    <2>2. p.state = "Listen" => "SYN" \in f.flags /\ seq = first
      BY Zenon, <1>1, <1>3, <1>4 DEF ConnectionOK
    <2>3. length # 0 => Offset(seq, first) + length <= Sent(tcp, first)
      <3>1. ASSUME length # 0 PROVE Offset(seq, first) + length = Sent(tcp, first)
        BY Zenon, <1>1, <3>1 DEF Sent
      <3>2. Offset(seq, first) + length \in Int
        BY <1>4, <2>1 DEF Numbers
      <3> QED
        BY <3>1, <3>2
    <2> QED
      BY Zenon, <1>3, <2>1, <2>2, <2>3 DEF SegmentOK
  <1>6. FrameOK(f, s.stack, p, first)
    BY Zenon, <1>1, <1>3, <1>4, <1>5 DEF FrameOK, RequestOK
  <1>7. PICK remote : remote = s.stack.tcp.remote
    BY Zenon
  <1>8. t = SendTo(s, remote, f)
    BY Zenon, <1>1, <1>2, <1>7 DEF SendTcpSegment
  <1> QED
    BY <1>6, <1>8, GoodSendTo DEF SameStack
\* The socket may count more as sent.
LEMMA ConnectionMore ==
    ASSUME NEW tcp, NEW n, NEW w, NEW p, NEW first \in Numbers, NEW spent,
           ConnectionOK(tcp, n, w, p, first, spent), Sent(tcp, first) \in Int,
           NEW new, NEW more, Sent(new, first) \in Int, Sent(new, first) >= Sent(tcp, first),
           new.state \in {"SynSent", "Established"}, new.sequence \in Numbers,
           new.pendingLen \in {0, 1}, new.state = "SynSent" => new.pendingLen = 0,
           new.state = "Established" => Offset(new.sequence, first) >= 1,
           new.pendingLen # 0 => new.pendingSequence = new.sequence,
           Sent(new, first) + Pending(n.rx) <= more,
           p.state = "Listen" => new.sequence = first /\ new.state = "SynSent"
    PROVE  ConnectionOK(new, n, w, p, first, more)
  <1>1. n.busy => SegmentOK(n.txBuffer, new, p, first)
    <2> SUFFICES ASSUME n.busy PROVE SegmentOK(n.txBuffer, new, p, first)
      BY Zenon
    <2>1. PICK f : f = n.txBuffer
      BY Zenon
    <2>2. SegmentOK(f, tcp, p, first)
      BY Zenon, <2>1 DEF ConnectionOK
    <2>3. CASE f.kind = "tcp"
      <3>1. f.seq \in Numbers /\ f.length \in {0, 1}
        BY Zenon, <2>2, <2>3 DEF SegmentOK, Numbers
      <3>2. Offset(f.seq, first) \in Numbers
        BY Zenon, <3>1, OffsetNext
      <3>3. Offset(f.seq, first) + f.length \in Int
        BY <3>1, <3>2, StackAssumption DEF Numbers
      <3>4. f.length # 0 => Offset(f.seq, first) + f.length <= Sent(new, first)
        BY <2>2, <2>3, <3>3 DEF SegmentOK
      <3> QED
        BY Zenon, <2>1, <2>2, <2>3, <3>4 DEF SegmentOK
    <2>4. CASE f.kind # "tcp"
      BY Zenon, <2>1, <2>4 DEF SegmentOK
    <2> QED
      BY Zenon, <2>3, <2>4
  <1>2. p.state # "Listen" =>
            /\ p.rcv \in 0 .. SeqMod - 1
            /\ Offset(p.rcv, first) <= 1 \/ Offset(p.rcv, first) <= Sent(new, first)
    <2> SUFFICES ASSUME p.state # "Listen"
                 PROVE  /\ p.rcv \in 0 .. SeqMod - 1
                        /\ Offset(p.rcv, first) <= 1 \/ Offset(p.rcv, first) <= Sent(new, first)
      BY Zenon
    <2>1. /\ p.rcv \in Numbers
          /\ Offset(p.rcv, first) <= 1 \/ Offset(p.rcv, first) <= Sent(tcp, first)
      BY Zenon DEF ConnectionOK, Numbers
    <2>2. Offset(p.rcv, first) \in Int
      BY <2>1, OffsetNext, StackAssumption DEF Numbers
    <2> QED
      BY <2>1, <2>2 DEF Numbers
  <1> QED
    BY Zenon, <1>1, <1>2 DEF ConnectionOK, Numbers

\* Fields of the socket the invariant does not look at.
LEMMA GoodFields ==
    ASSUME NEW s, NEW w, NEW p, NEW first, NEW ses, NEW spent, Good(s, w, p, first, ses, spent),
           NEW t, NEW tcp, NewSocket(s, t, tcp), tcp.state = s.stack.tcp.state,
           tcp.sequence = s.stack.tcp.sequence, tcp.pendingLen = s.stack.tcp.pendingLen,
           tcp.pendingSequence = s.stack.tcp.pendingSequence
    PROVE  Good(t, w, p, first, ses, spent) /\ t.stack.tcp = tcp
  <1>1. TcpOK(s.stack.tcp, s.nic, w, p, first, spent)
    BY Zenon DEF Good, NetOK
  <1>2. Sent(tcp, first) = Sent(s.stack.tcp, first)
    BY Zenon DEF Sent
  <1>3. \A f : SegmentOK(f, s.stack.tcp, p, first) => SegmentOK(f, tcp, p, first)
    BY Zenon, <1>2 DEF SegmentOK
  <1>4. ConnectionOK(s.stack.tcp, s.nic, w, p, first, spent)
        => ConnectionOK(tcp, s.nic, w, p, first, spent)
    BY Zenon, <1>2, <1>3 DEF ConnectionOK
  <1>5. TcpOK(tcp, s.nic, w, p, first, spent)
    BY Zenon, <1>1, <1>4 DEF TcpOK
  <1> QED
    BY <1>5, GoodTcp

\* The socket is closed.
LEMMA GoodClosed ==
    ASSUME NEW s, NEW w, NEW p, NEW first, NEW ses, NEW spent, Good(s, w, p, first, ses, spent),
           NEW t, NEW tcp, NewSocket(s, t, tcp), tcp.state = "Closed",
           first = SeqMod => tcp.pendingLen = 0
    PROVE  Good(t, w, p, first, ses, spent) /\ t.stack.tcp = tcp
  <1>1. TcpOK(tcp, s.nic, w, p, first, spent)
    BY Zenon DEF Good, NetOK, TcpOK
  <1> QED
    BY <1>1, GoodTcp

\* RST, or the last try of poll_tcp.
LEMMA GoodReset ==
    ASSUME NEW s, NEW w, NEW p, NEW first, NEW ses, NEW spent, Good(s, w, p, first, ses, spent),
           NEW t, t = [s EXCEPT !.stack.tcp.state = "Closed", !.stack.tcp.pendingLen = 0]
    PROVE  Good(t, w, p, first, ses, spent) /\ t.stack.tcp.state = "Closed"
  <1>1. Shape(s) /\ StackOK(s.stack)
    BY Zenon DEF Good, NetOK
  <1>2. PICK k, tcp : k = s.stack.tcp /\ tcp = [k EXCEPT !.state = "Closed", !.pendingLen = 0]
    BY Zenon
  <1>3. TcpShape(k)
    BY Zenon, <1>1, <1>2 DEF StackOK, TcpShape
  <1>4. TcpShape(tcp) /\ tcp.state = "Closed" /\ tcp.pendingLen = 0
    BY Zenon, <1>2, <1>3 DEF TcpShape
  <1>5. /\ Shape(t) /\ t.nic = s.nic
        /\ t.stack = [s.stack EXCEPT !.tcp.state = "Closed", !.tcp.pendingLen = 0]
    BY Zenon, <1>1 DEF Shape
  <1>6. t.stack = [s.stack EXCEPT !.tcp = tcp]
    BY Zenon, <1>1, <1>2, <1>5 DEF StackOK
  <1>7. NewSocket(s, t, tcp)
    BY Zenon, <1>4, <1>5, <1>6 DEF NewSocket
  <1>8. \A u : NewSocket(s, u, tcp) => Good(u, w, p, first, ses, spent) /\ u.stack.tcp = tcp
    BY Zenon, <1>4, GoodClosed
  <1> QED
    BY Zenon, <1>4, <1>7, <1>8

\* The acknowledgement of a FIN: the socket is closed once it is out.
LEMMA GoodFin ==
    ASSUME NEW s, NEW w, NEW p, NEW first, NEW ses, NEW spent \in Int,
           Good(s, w, p, first, ses, spent), s.stack.tcp.state = "Established",
           NEW acknowledgement, NEW t, t = FinTaken(s, acknowledgement)
    PROVE  /\ Good(t, w, p, first, ses, spent)
           /\ t.stack.tcp.pendingLen = s.stack.tcp.pendingLen
  <1>1. PICK l, sent : /\ l = [s EXCEPT !.stack.tcp.acknowledgement = acknowledgement]
                       /\ sent = SendTcpSegment(l, {"ACK"}, 0)
    BY Zenon
  <1>2. PICK k, tcp : k = s.stack.tcp /\ tcp = [k EXCEPT !.acknowledgement = acknowledgement]
    BY Zenon
  <1>3. /\ TcpShape(k) /\ StackOK(s.stack) /\ Shape(s) /\ first # SeqMod
        /\ ConnectionOK(k, s.nic, w, p, first, spent)
    BY Zenon, <1>2, OpenIs
  <1>4. /\ TcpShape(tcp) /\ tcp.state = k.state /\ tcp.sequence = k.sequence
        /\ tcp.pendingLen = k.pendingLen /\ tcp.pendingSequence = k.pendingSequence
    BY Zenon, <1>2, <1>3 DEF TcpShape
  <1>5. /\ Shape(l) /\ l.nic = s.nic
        /\ l.stack = [s.stack EXCEPT !.tcp.acknowledgement = acknowledgement]
    BY Zenon, <1>1, <1>3 DEF Shape
  <1>6. l.stack = [s.stack EXCEPT !.tcp = tcp]
    BY Zenon, <1>2, <1>3, <1>5 DEF StackOK
  <1>7. Good(l, w, p, first, ses, spent) /\ l.stack.tcp = tcp
    <2>1. NewSocket(s, l, tcp)
      BY Zenon, <1>4, <1>5, <1>6 DEF NewSocket
    <2>2. /\ tcp.state = s.stack.tcp.state /\ tcp.sequence = s.stack.tcp.sequence
          /\ tcp.pendingLen = s.stack.tcp.pendingLen
          /\ tcp.pendingSequence = s.stack.tcp.pendingSequence
      BY Zenon, <1>2, <1>4
    <2> QED
      BY <2>1, <2>2, GoodFields
  <1>8. Good(sent, w, p, first, ses, spent) /\ sent.stack = l.stack
    <2>1. /\ p.state # "Listen" /\ l.stack.tcp.state # "Closed"
      BY Zenon, <1>2, <1>3, <1>4, <1>7 DEF ConnectionOK
    <2>2. PICK none, ack : none = 0 /\ ack = {"ACK"}
      BY Zenon
    <2>3. none = 0 /\ sent = SendTcpSegment(l, ack, none)
      BY Zenon, <1>1, <2>1, <2>2
    <2>4. Good(sent, w, p, first, ses, spent) /\ SameStack(l, sent)
      BY Zenon, <1>7, <2>1, <2>3, GoodSegment
    <2> QED
      BY Zenon, <2>4 DEF SameStack
  <1>9. CASE t = sent
    BY ZenonT(40), <1>2, <1>4, <1>7, <1>8, <1>9
  <1>10. CASE t = [sent EXCEPT !.stack.tcp.state = "Closed"]
    <2>1. PICK end : end = [tcp EXCEPT !.state = "Closed"]
      BY Zenon
    <2>2. TcpShape(end) /\ end.state = "Closed" /\ end.pendingLen = tcp.pendingLen
      BY Zenon, <1>4, <2>1 DEF TcpShape
    <2>3. Shape(sent) /\ StackOK(sent.stack) /\ sent.stack.tcp = tcp
      BY Zenon, <1>7, <1>8 DEF Good, NetOK
    <2>4. /\ Shape(t) /\ t.nic = sent.nic
          /\ t.stack = [sent.stack EXCEPT !.tcp.state = "Closed"]
      BY Zenon, <1>10, <2>3 DEF Shape
    <2>5. t.stack = [sent.stack EXCEPT !.tcp = end]
      BY Zenon, <2>1, <2>3, <2>4 DEF StackOK
    <2>6. Good(t, w, p, first, ses, spent) /\ t.stack.tcp = end
      <3>1. NewSocket(sent, t, end)
        BY Zenon, <2>2, <2>4, <2>5 DEF NewSocket
      <3> QED
        BY <1>3, <1>8, <2>2, <3>1, GoodClosed
    <2> QED
      BY Zenon, <1>2, <1>4, <2>2, <2>6
  <1> QED
    BY Zenon, <1>1, <1>9, <1>10 DEF FinTaken
\* The number after the pending payload.
LEMMA PendingEndIs ==
    ASSUME NEW s, NEW w, NEW p, NEW first, NEW ses, NEW spent \in Int, spent < SeqMod,
           Good(s, w, p, first, ses, spent), s.stack.tcp.state = "Established",
           s.stack.tcp.pendingLen # 0, NEW end, end = PendingEnd(s.stack.tcp)
    PROVE  /\ end \in Numbers /\ s.stack.tcp.pendingLen = 1
           /\ Offset(end, first) = Offset(s.stack.tcp.sequence, first) + 1
           /\ Offset(end, first) = Sent(s.stack.tcp, first)
           /\ Offset(end, first) >= 2
  <1>1. PICK k, u : k = s.stack.tcp /\ u = Pending(s.nic.rx)
    BY Zenon
  <1>2. /\ first \in Numbers /\ ConnectionOK(k, s.nic, w, p, first, spent)
        /\ u \in Nat /\ k.sequence \in Numbers /\ Offset(k.sequence, first) \in Numbers
        /\ SeqMod \in Nat
    BY Zenon, <1>1, OpenIs
  <1>3. k.pendingLen = 1 /\ k.pendingSequence = k.sequence /\ Offset(k.sequence, first) >= 1
    BY Zenon, <1>1, <1>2 DEF ConnectionOK
  <1>4. Sent(k, first) = Offset(k.sequence, first) + 1
    BY Zenon, <1>3 DEF Sent
  <1>5. Offset(k.sequence, first) + 1 + u <= spent
    BY Zenon, <1>1, <1>2, <1>4 DEF ConnectionOK
  <1>6. Offset(k.sequence, first) + 1 < SeqMod
    BY <1>2, <1>5 DEF Numbers
  <1>7. end = Wrap(k.sequence + 1)
    BY Zenon, <1>1, <1>3 DEF PendingEnd
  <1>8. end \in Numbers /\ Offset(end, first) = Offset(k.sequence, first) + 1
    BY <1>2, <1>6, <1>7, OffsetNext
  <1>9. Offset(k.sequence, first) + 1 >= 2
    BY <1>2, <1>3 DEF Numbers
  <1> QED
    BY Zenon, <1>1, <1>3, <1>4, <1>8, <1>9

\* handle_tcp, an acknowledgement: what was pending counts as sent.
LEMMA GoodAcked ==
    ASSUME NEW s, NEW w, NEW p, NEW first, NEW ses, NEW spent \in Int, spent < SeqMod,
           Good(s, w, p, first, ses, spent), s.stack.tcp.state = "Established",
           NEW f, NEW tcp, tcp = AckTaken(s.stack.tcp, f)
    PROVE  /\ TcpShape(tcp) /\ tcp.state = "Established"
           /\ TcpOK(tcp, s.nic, w, p, first, spent)
           /\ tcp = s.stack.tcp \/ tcp.pendingLen = 0
  <1>1. PICK k : k = s.stack.tcp
    BY Zenon
  <1>2. /\ first \in Numbers /\ ConnectionOK(k, s.nic, w, p, first, spent)
        /\ k.sequence \in Numbers /\ Offset(k.sequence, first) \in Numbers
        /\ SeqMod \in Nat /\ TcpShape(k) /\ Sent(k, first) \in Nat /\ first # SeqMod
    BY Zenon, <1>1, OpenIs
  <1>3. TcpOK(k, s.nic, w, p, first, spent)
    BY Zenon, <1>1 DEF Good, NetOK
  <1>4. CASE tcp = k
    BY Zenon, <1>1, <1>2, <1>3, <1>4
  <1>5. CASE k.pendingLen # 0 /\ tcp = [k EXCEPT !.sequence = PendingEnd(k), !.pendingLen = 0]
    <2>1. PICK end : end = PendingEnd(k)
      BY Zenon
    <2>2. /\ end \in Numbers /\ Offset(end, first) = Sent(k, first)
          /\ Offset(end, first) >= 2 /\ k.pendingLen = 1
      BY <1>1, <1>5, <2>1, PendingEndIs
    <2>3. /\ TcpShape(tcp) /\ tcp.state = k.state /\ tcp.sequence = end /\ tcp.pendingLen = 0
      BY Zenon, <1>2, <1>5, <2>1 DEF TcpShape
    <2>4. Sent(tcp, first) = Sent(k, first)
      <3>1. Sent(tcp, first) = Offset(end, first) + 0
        BY Zenon, <2>3 DEF Sent
      <3> QED
        BY <1>2, <2>2, <3>1
    <2>5. tcp.state = "Established" /\ p.state # "Listen"
      BY Zenon, <1>1, <1>2, <2>3 DEF ConnectionOK
    <2>6. /\ Sent(tcp, first) + Pending(s.nic.rx) <= spent /\ Offset(tcp.sequence, first) >= 1
          /\ Sent(tcp, first) >= Sent(k, first) /\ Sent(tcp, first) \in Int
          /\ Sent(k, first) \in Int
      BY <1>2, <2>2, <2>3, <2>4 DEF ConnectionOK
    <2>7. /\ tcp.state \in {"SynSent", "Established"} /\ tcp.sequence \in Numbers
          /\ tcp.pendingLen \in {0, 1} /\ tcp.pendingLen = 0
      BY Zenon, <2>2, <2>3, <2>5
    <2>8. ConnectionOK(tcp, s.nic, w, p, first, spent)
      BY Zenon, <1>2, <2>5, <2>6, <2>7, ConnectionMore
    <2>9. TcpOK(tcp, s.nic, w, p, first, spent)
      BY Zenon, <1>2, <1>3, <2>5, <2>8 DEF TcpOK
    <2> QED
      BY Zenon, <2>3, <2>5, <2>9
  <1> QED
    BY Zenon, <1>1, <1>4, <1>5 DEF AckTaken

\* The acknowledgement that is taken is of a payload the peer has.
LEMMA AckIsReceived ==
    ASSUME NEW s, NEW w, NEW p, NEW first, NEW ses, NEW spent \in Int, spent < SeqMod,
           Good(s, w, p, first, ses, spent), s.stack.tcp.state = "Established",
           s.stack.tcp.pendingLen # 0, NEW f \in w, f.kind = "tcp",
           AckTaken(s.stack.tcp, f).pendingLen = 0, PendingEnd(s.stack.tcp) > first
    PROVE  p.rcv = PendingEnd(s.stack.tcp)
  <1>1. PICK k, end, a, r : /\ k = s.stack.tcp /\ end = PendingEnd(k)
                            /\ a = Offset(f.ack, first) /\ r = Offset(p.rcv, first)
    BY Zenon
  <1>2. /\ first \in Numbers /\ ConnectionOK(k, s.nic, w, p, first, spent)
        /\ Sent(k, first) \in Nat
    BY Zenon, <1>1, OpenIs
  <1>3. f.ack >= end
    BY Zenon, <1>1 DEF AckTaken
  <1>4. end \in Numbers /\ Offset(end, first) = Sent(k, first) /\ Offset(end, first) >= 2
    BY Zenon, <1>1, PendingEndIs
  <1>5. f.ack \in Numbers /\ a <= r
    BY Zenon, <1>1, <1>2 DEF ConnectionOK, Numbers
  <1>6. p.rcv \in Numbers /\ (r <= 1 \/ r <= Sent(k, first))
    BY Zenon, <1>1, <1>2 DEF ConnectionOK, Numbers
  <1>7. a >= Offset(end, first)
    BY Zenon, <1>1, <1>2, <1>3, <1>4, <1>5, OffsetOrder
  <1>8. a \in Nat /\ r \in Nat
    BY <1>1, <1>2, <1>5, <1>6, OffsetNext, StackAssumption DEF Numbers
  <1>9. r = Offset(end, first)
    BY <1>2, <1>4, <1>5, <1>6, <1>7, <1>8
  <1> QED
    BY Zenon, <1>1, <1>2, <1>4, <1>6, <1>9, OffsetOrder
\* handle_tcp, data: only the acknowledgement and the buffer for the user change.
LEMMA GoodData ==
    ASSUME NEW s, NEW w, NEW p, NEW first, NEW ses, NEW spent \in Int,
           Good(s, w, p, first, ses, spent), s.stack.tcp.state = "Established",
           NEW f, NEW t, t = DataTaken(s, f)
    PROVE  /\ Good(t, w, p, first, ses, spent)
           /\ t.stack.tcp.pendingLen = s.stack.tcp.pendingLen
  <1>1. CASE t = s
    BY Zenon, <1>1
  <1>2. CASE f.length # 0
    <2>1. PICK a, n : /\ a = Wrap(f.seq + f.length)
                      /\ n = IF f.length <= MaxPayload THEN f.length
                             ELSE s.stack.tcp.receivedLen
      BY Zenon
    <2>2. PICK l : l = [s EXCEPT !.stack.tcp.acknowledgement = a, !.stack.tcp.receivedLen = n]
      BY Zenon
    <2>3. PICK k, tcp : k = s.stack.tcp
                        /\ tcp = [k EXCEPT !.acknowledgement = a, !.receivedLen = n]
      BY Zenon
    <2>4. /\ TcpShape(k) /\ StackOK(s.stack) /\ Shape(s)
          /\ ConnectionOK(k, s.nic, w, p, first, spent)
      BY Zenon, <2>3, OpenIs
    <2>5. /\ TcpShape(tcp) /\ tcp.state = k.state /\ tcp.sequence = k.sequence
          /\ tcp.pendingLen = k.pendingLen /\ tcp.pendingSequence = k.pendingSequence
      BY Zenon, <2>3, <2>4 DEF TcpShape
    <2>6. /\ Shape(l) /\ l.nic = s.nic
          /\ l.stack = [s.stack EXCEPT !.tcp.acknowledgement = a, !.tcp.receivedLen = n]
      BY Zenon, <2>2, <2>4 DEF Shape
    <2>7. l.stack = [s.stack EXCEPT !.tcp = tcp]
      BY Zenon, <2>3, <2>4, <2>6 DEF StackOK
    <2>8. NewSocket(s, l, tcp)
      BY Zenon, <2>5, <2>6, <2>7 DEF NewSocket
    <2>9. /\ tcp.state = s.stack.tcp.state /\ tcp.sequence = s.stack.tcp.sequence
          /\ tcp.pendingLen = s.stack.tcp.pendingLen
          /\ tcp.pendingSequence = s.stack.tcp.pendingSequence
      BY Zenon, <2>3, <2>5
    <2>10. Good(l, w, p, first, ses, spent) /\ l.stack.tcp = tcp
      BY <2>8, <2>9, GoodFields
    <2>11. t = SendTcpSegment(l, {"ACK"}, 0)
      <3>1. t = SendTcpSegment(
                    [s EXCEPT !.stack.tcp.acknowledgement = Wrap(f.seq + f.length),
                              !.stack.tcp.receivedLen =
                                    IF f.length <= MaxPayload THEN f.length ELSE @],
                    {"ACK"}, 0)
        BY Zenon, <1>2 DEF DataTaken
      <3>2. l = [s EXCEPT !.stack.tcp.acknowledgement = Wrap(f.seq + f.length),
                          !.stack.tcp.receivedLen =
                                IF f.length <= MaxPayload THEN f.length ELSE @]
        BY Zenon, <2>1, <2>2, <2>3, <2>4 DEF Shape, StackOK, TcpShape
      <3> QED
        BY Zenon, <3>1, <3>2
    <2>12. PICK none, ack : none = 0 /\ ack = {"ACK"}
      BY Zenon
    <2>13. /\ p.state # "Listen" /\ l.stack.tcp.state # "Closed"
           /\ none = 0 /\ t = SendTcpSegment(l, ack, none)
      BY Zenon, <2>3, <2>4, <2>5, <2>10, <2>11, <2>12 DEF ConnectionOK
    <2>14. Good(t, w, p, first, ses, spent) /\ t.stack = l.stack
      <3>1. none = 0 /\ p.state # "Listen"
            /\ l.stack.tcp.state # "Closed"
        BY Zenon, <2>13
      <3>2. PICK v : v = SendTcpSegment(l, ack, none)
        BY Zenon
      <3>3. Good(v, w, p, first, ses, spent) /\ SameStack(l, v)
        BY Zenon, <2>10, <3>1, <3>2, GoodSegment
      <3> QED
        BY Zenon, <2>13, <3>2, <3>3 DEF SameStack
    <2> QED
      BY Zenon, <2>9, <2>10, <2>14
  <1> QED
    BY Zenon, <1>1, <1>2 DEF DataTaken

\* handle_tcp, the answer to the SYN: the step in the sequence is paid for with the
\* frame, also when the acknowledgement does not go out.
LEMMA GoodConnected ==
    ASSUME NEW s, NEW w, NEW p, NEW first, NEW ses, NEW spent \in Int, spent + 1 < SeqMod,
           Good(s, w, p, first, ses, spent), s.stack.tcp.state = "SynSent",
           p.state # "Listen", NEW f, NEW t, t = Connected(s, f)
    PROVE  Good(t, w, p, first, ses, spent + 1)
  <1>1. PICK k, a, seq, u : /\ k = s.stack.tcp /\ a = Wrap(f.seq + 1)
                            /\ seq = Wrap(k.sequence + 1) /\ u = Pending(s.nic.rx)
    BY Zenon
  <1>2. PICK l, sent : /\ l = [s EXCEPT !.stack.tcp.acknowledgement = a,
                                        !.stack.tcp.sequence = seq]
                       /\ sent = SendTcpSegment(l, {"ACK"}, 0)
    BY Zenon
  <1>3. PICK tcp : tcp = [k EXCEPT !.acknowledgement = a, !.sequence = seq]
    BY Zenon
  <1>4. /\ TcpShape(k) /\ StackOK(s.stack) /\ Shape(s) /\ first # SeqMod
        /\ ConnectionOK(k, s.nic, w, p, first, spent) /\ first \in Numbers
        /\ k.sequence \in Numbers /\ Offset(k.sequence, first) \in Numbers /\ SeqMod \in Nat
        /\ u \in Nat /\ u <= spent /\ Sent(k, first) \in Nat
    BY Zenon, <1>1, OpenIs
  <1>5. /\ TcpShape(tcp) /\ tcp.state = k.state /\ tcp.sequence = seq
        /\ tcp.pendingLen = k.pendingLen
    BY Zenon, <1>3, <1>4 DEF TcpShape
  <1>6. k.state = "SynSent" /\ k.pendingLen = 0 /\ Sent(k, first) + u <= spent
    BY Zenon, <1>1, <1>4 DEF ConnectionOK
  <1>7. Sent(k, first) = Offset(k.sequence, first)
    <2>1. Sent(k, first) = Offset(k.sequence, first) + 0
      BY Zenon, <1>6 DEF Sent
    <2> QED
      BY <1>4, <2>1 DEF Numbers
  <1>8. Offset(k.sequence, first) + 1 < SeqMod
    BY <1>4, <1>6, <1>7 DEF Numbers
  <1>9. seq \in Numbers /\ Offset(seq, first) = Offset(k.sequence, first) + 1
    BY Zenon, <1>1, <1>4, <1>8, OffsetNext
  <1>10. ASSUME NEW x, x.sequence = seq, x.pendingLen = 0,
                x.state \in {"SynSent", "Established"}
         PROVE  TcpOK(x, s.nic, w, p, first, spent + 1)
    <2>1. Sent(x, first) = Sent(k, first) + 1
      <3>1. Sent(x, first) = Offset(seq, first) + 0
        BY Zenon, <1>10 DEF Sent
      <3> QED
        BY <1>4, <1>7, <1>9, <3>1 DEF Numbers
    <2>2. /\ Sent(x, first) \in Int /\ Sent(k, first) \in Int
          /\ Sent(x, first) >= Sent(k, first) /\ Sent(x, first) + u <= spent + 1
      BY <1>4, <1>6, <2>1
    <2>3. Offset(x.sequence, first) >= 1
      BY <1>4, <1>9, <1>10 DEF Numbers
    <2>4. x.sequence \in Numbers /\ x.pendingLen \in {0, 1}
      BY Zenon, <1>9, <1>10
    <2>5. ConnectionOK(x, s.nic, w, p, first, spent + 1)
      BY Zenon, <1>1, <1>4, <1>10, <2>2, <2>3, <2>4, ConnectionMore
    <2>6. u <= spent + 1 /\ first \in 0 .. SeqMod
      BY <1>4 DEF Numbers
    <2> QED
      BY Zenon, <1>1, <1>4, <2>5, <2>6 DEF TcpOK
  <1>11. Good(l, w, p, first, ses, spent + 1) /\ l.stack.tcp = tcp
    <2>1. /\ Shape(l) /\ l.nic = s.nic
          /\ l.stack = [s.stack EXCEPT !.tcp.acknowledgement = a, !.tcp.sequence = seq]
      BY Zenon, <1>2, <1>4 DEF Shape
    <2>2. l.stack = [s.stack EXCEPT !.tcp = tcp]
      BY Zenon, <1>1, <1>3, <1>4, <2>1 DEF StackOK
    <2>3. NewSocket(s, l, tcp)
      BY Zenon, <1>5, <2>1, <2>2 DEF NewSocket
    <2>4. TcpOK(tcp, s.nic, w, p, first, spent + 1)
      BY Zenon, <1>5, <1>6, <1>10
    <2> QED
      BY <2>3, <2>4, GoodTcp
  <1>12. Good(sent, w, p, first, ses, spent + 1) /\ sent.stack = l.stack
    <2>1. PICK none, ack, more : none = 0 /\ ack = {"ACK"} /\ more = spent + 1
      BY Zenon
    <2>2. /\ l.stack.tcp.state # "Closed" /\ more \in Int
          /\ none = 0 /\ sent = SendTcpSegment(l, ack, none)
      BY <1>2, <1>5, <1>6, <1>11, <2>1
    <2>3. Good(l, w, p, first, ses, more)
      BY Zenon, <1>11, <2>1
    <2>4. none = 0 /\ l.stack.tcp.state # "Closed" /\ more \in Int
      BY Zenon, <2>2
    <2>5. Good(sent, w, p, first, ses, more) /\ SameStack(l, sent)
      BY Zenon, <2>2, <2>3, <2>4, GoodSegment
    <2> QED
      BY Zenon, <2>1, <2>5 DEF SameStack
  <1>13. sent = SendTcpSegment([s EXCEPT !.stack.tcp.acknowledgement = Wrap(f.seq + 1),
                                         !.stack.tcp.sequence = Wrap(@ + 1)], {"ACK"}, 0)
    <2>1. l = [s EXCEPT !.stack.tcp.acknowledgement = Wrap(f.seq + 1),
                        !.stack.tcp.sequence = Wrap(@ + 1)]
      BY Zenon, <1>1, <1>2, <1>4 DEF Shape, StackOK, TcpShape
    <2> QED
      BY Zenon, <1>2, <2>1
  <1>14. t = sent \/ t = [sent EXCEPT !.stack.tcp.state = "Established"]
    BY Zenon, <1>13 DEF Connected
  <1>15. CASE t = sent
    BY Zenon, <1>12, <1>15
  <1>16. CASE t = [sent EXCEPT !.stack.tcp.state = "Established"]
    <2>1. PICK open : open = [tcp EXCEPT !.state = "Established"]
      BY Zenon
    <2>2. /\ TcpShape(open) /\ open.state = "Established" /\ open.sequence = seq
          /\ open.pendingLen = 0
      BY Zenon, <1>5, <1>6, <2>1 DEF TcpShape
    <2>3. /\ Shape(sent) /\ StackOK(sent.stack) /\ sent.stack.tcp = tcp
      BY Zenon, <1>11, <1>12 DEF Good, NetOK
    <2>4. /\ Shape(t) /\ t.nic = sent.nic
          /\ t.stack = [sent.stack EXCEPT !.tcp.state = "Established"]
      BY Zenon, <1>16, <2>3 DEF Shape
    <2>5. t.stack = [sent.stack EXCEPT !.tcp = open]
      BY Zenon, <2>1, <2>3, <2>4 DEF StackOK
    <2>6. NewSocket(sent, t, open)
      BY Zenon, <2>2, <2>4, <2>5 DEF NewSocket
    <2>7. TcpOK(open, sent.nic, w, p, first, spent + 1)
      <3>1. PICK more : more = spent + 1
        BY Zenon
      <3>2. TcpOK(tcp, sent.nic, w, p, first, more) /\ tcp.state # "Closed"
        BY Zenon, <1>5, <1>6, <1>12, <2>3, <3>1 DEF Good, NetOK
      <3>3. ConnectionOK(tcp, sent.nic, w, p, first, more)
        BY Zenon, <1>4, <3>2 DEF TcpOK
      <3>4. Sent(open, first) = Sent(tcp, first)
        BY Zenon, <1>5, <1>6, <2>2 DEF Sent
      <3>5. Sent(tcp, first) \in Int
        BY <1>4, <1>5, <1>6, <1>9 DEF Sent, Numbers
      <3>6. /\ Sent(open, first) \in Int /\ Sent(open, first) >= Sent(tcp, first)
            /\ Sent(open, first) + Pending(sent.nic.rx) <= more
        BY <3>3, <3>4, <3>5 DEF ConnectionOK
      <3>7. Offset(open.sequence, first) >= 1 /\ open.sequence \in Numbers
        BY <1>4, <1>9, <2>2 DEF Numbers
      <3>8. ConnectionOK(open, sent.nic, w, p, first, more)
        <4>1. open.pendingLen \in {0, 1} /\ open.state \in {"SynSent", "Established"}
          BY Zenon, <2>2
        <4> QED
          BY Zenon, <1>4, <2>2, <3>3, <3>5, <3>6, <3>7, <4>1, ConnectionMore
      <3> QED
        BY Zenon, <1>4, <3>1, <3>2, <3>8 DEF TcpOK
    <2>8. \A v : NewSocket(sent, v, open) => Good(v, w, p, first, ses, spent + 1)
      BY ZenonT(40), <1>12, <2>7, GoodTcp
    <2> QED
      BY Zenon, <2>6, <2>8
  <1> QED
    BY Zenon, <1>14, <1>15, <1>16
\* What AckedWasReceived says of a step from socket k to socket j.
AckRight(k, j, p, first) ==
    /\ TcpWaiting(k) /\ k.state = "Established" /\ j.state = "Established" /\ j.pendingLen = 0
    /\ PendingEnd(k) > first
    => p.rcv = PendingEnd(k)

\* What was true with less spent is true with more.
LEMMA GoodSpends ==
    ASSUME NEW s, NEW w, NEW p, NEW first, NEW ses, NEW spent \in Int,
           Good(s, w, p, first, ses, spent), NEW more \in Int, more >= spent
    PROVE  Good(s, w, p, first, ses, more)
  <1>1. SeqMod \in Nat \ {0}
    BY StackAssumption
  <1>2. NetOK(s.stack, s.nic, w, p, first, ses, more)
    BY Zenon, <1>1, NetSpends DEF Good
  <1> QED
    BY Zenon, <1>2 DEF Good

\* handle_tcp
LEMMA GoodHandleTcp ==
    ASSUME NEW s, NEW w, NEW p, NEW first, NEW ses, NEW spent \in Int, spent + 1 < SeqMod,
           Good(s, w, p, first, ses, spent), NEW f \in w, f.kind = "tcp",
           NEW t, t = HandleTcp(s, f)
    PROVE  Good(t, w, p, first, ses, spent + 1) /\ AckRight(s.stack.tcp, t.stack.tcp, p, first)
  <1>1. PICK k, more : k = s.stack.tcp /\ more = spent + 1
    BY Zenon
  <1>2. more \in Int /\ more >= spent /\ spent < SeqMod /\ more < SeqMod
    BY <1>1, StackAssumption
  <1>3. CASE t = s
    <2>1. Good(t, w, p, first, ses, more)
      BY Zenon, <1>2, <1>3, GoodSpends
    <2> QED
      BY Zenon, <1>1, <1>3, <2>1 DEF AckRight, TcpWaiting
  <1>4. CASE t = [s EXCEPT !.stack.tcp.state = "Closed", !.stack.tcp.pendingLen = 0]
    <2>1. Good(t, w, p, first, ses, spent) /\ t.stack.tcp.state = "Closed"
      BY ZenonT(40), <1>4, GoodReset
    <2>2. Good(t, w, p, first, ses, more)
      BY Zenon, <1>2, <2>1, GoodSpends
    <2> QED
      BY Zenon, <1>1, <2>1, <2>2 DEF AckRight
  <1>5. CASE k.state = "SynSent" /\ t = Connected(s, f)
    <2>1. p.state # "Listen"
      <3>1. ConnectionOK(k, s.nic, w, p, first, spent)
        BY Zenon, <1>1, <1>5, OpenIs
      <3> QED
        BY Zenon, <3>1 DEF ConnectionOK
    <2>2. Good(t, w, p, first, ses, spent + 1)
      BY Zenon, <1>1, <1>5, <2>1, GoodConnected
    <2> QED
      BY Zenon, <1>1, <1>5, <2>2 DEF AckRight
  <1>6. CASE /\ k.state \notin {"SynSent", "Closed"}
             /\ \E l : /\ l = [s EXCEPT !.stack.tcp = AckTaken(@, f)]
                       /\ t = FinTaken(l, Wrap(f.seq + 1)) \/ t = DataTaken(l, f)
    <2>1. PICK l : /\ l = [s EXCEPT !.stack.tcp = AckTaken(@, f)]
                   /\ t = FinTaken(l, Wrap(f.seq + 1)) \/ t = DataTaken(l, f)
      BY Zenon, <1>6
    <2>2. PICK tcp : tcp = AckTaken(k, f)
      BY Zenon
    <2>3. Shape(s) /\ StackOK(s.stack)
      BY Zenon DEF Good, NetOK
    <2>4. k.state = "Established"
      <3>1. ConnectionOK(k, s.nic, w, p, first, spent)
        BY Zenon, <1>1, <1>6, OpenIs
      <3> QED
        BY Zenon, <1>6, <3>1 DEF ConnectionOK
    <2>5. /\ TcpShape(tcp) /\ tcp.state = "Established"
          /\ TcpOK(tcp, s.nic, w, p, first, spent)
      BY <1>1, <1>2, <2>2, <2>4, GoodAcked
    <2>6. Shape(l) /\ l.nic = s.nic /\ l.stack = [s.stack EXCEPT !.tcp = tcp]
      BY Zenon, <1>1, <2>1, <2>2, <2>3 DEF Shape
    <2>7. NewSocket(s, l, tcp)
      BY Zenon, <2>5, <2>6 DEF NewSocket
    <2>8. Good(l, w, p, first, ses, spent) /\ l.stack.tcp = tcp
      BY <2>5, <2>7, GoodTcp
    <2>9. l.stack.tcp.state = "Established"
      BY Zenon, <2>5, <2>8
    <2>10. Good(t, w, p, first, ses, spent) /\ t.stack.tcp.pendingLen = tcp.pendingLen
      <3>1. PICK a : a = Wrap(f.seq + 1)
        BY Zenon
      <3>2. CASE t = FinTaken(l, a)
        <4>1. /\ Good(t, w, p, first, ses, spent)
              /\ t.stack.tcp.pendingLen = l.stack.tcp.pendingLen
          BY <2>8, <2>9, <3>2, GoodFin
        <4> QED
          BY Zenon, <2>8, <4>1
      <3>3. CASE t = DataTaken(l, f)
        <4>1. /\ Good(t, w, p, first, ses, spent)
              /\ t.stack.tcp.pendingLen = l.stack.tcp.pendingLen
          BY <2>8, <2>9, <3>3, GoodData
        <4> QED
          BY Zenon, <2>8, <4>1
      <3> QED
        BY Zenon, <2>1, <3>1, <3>2, <3>3
    <2>11. Good(t, w, p, first, ses, more)
      BY Zenon, <1>2, <2>10, GoodSpends
    <2>12. ASSUME k.pendingLen # 0, tcp.pendingLen = 0, PendingEnd(k) > first
           PROVE  p.rcv = PendingEnd(k)
      BY Zenon, <1>1, <1>2, <2>2, <2>4, <2>12, AckIsReceived
    <2>13. AckRight(k, t.stack.tcp, p, first)
      BY Zenon, <2>10, <2>12 DEF AckRight, TcpWaiting
    <2> QED
      BY Zenon, <1>1, <2>11, <2>13
  <1>7. \/ t = s
        \/ t = [s EXCEPT !.stack.tcp.state = "Closed", !.stack.tcp.pendingLen = 0]
        \/ k.state = "SynSent" /\ t = Connected(s, f)
        \/ /\ k.state \notin {"SynSent", "Closed"}
           /\ \E l : /\ l = [s EXCEPT !.stack.tcp = AckTaken(@, f)]
                     /\ t = FinTaken(l, Wrap(f.seq + 1)) \/ t = DataTaken(l, f)
    <2>1. CASE f.source # k.remote
      <3>1. t = s
        BY Zenon, <1>1, <2>1 DEF HandleTcp
      <3> QED
        BY Zenon, <3>1
    <2>2. CASE f.source = k.remote /\ "RST" \in f.flags
      <3>1. t = [s EXCEPT !.stack.tcp.state = "Closed", !.stack.tcp.pendingLen = 0]
        BY Zenon, <1>1, <2>2 DEF HandleTcp
      <3> QED
        BY Zenon, <3>1
    <2>3. CASE f.source = k.remote /\ "RST" \notin f.flags /\ k.state = "SynSent"
      <3>1. t = IF {"SYN", "ACK"} \subseteq f.flags THEN Connected(s, f) ELSE s
        BY Zenon, <1>1, <2>3 DEF HandleTcp
      <3> QED
        BY Zenon, <2>3, <3>1
    <2>4. CASE f.source = k.remote /\ "RST" \notin f.flags /\ k.state = "Closed"
      <3>1. t = s
        BY Zenon, <1>1, <2>4 DEF HandleTcp
      <3> QED
        BY Zenon, <3>1
    <2>5. CASE f.source = k.remote /\ "RST" \notin f.flags /\ k.state \notin {"SynSent", "Closed"}
      <3>1. PICK l : l = [s EXCEPT !.stack.tcp = AckTaken(@, f)]
        BY Zenon
      <3>2. t = IF "FIN" \in f.flags /\ f.length = 0 THEN FinTaken(l, Wrap(f.seq + 1))
                ELSE DataTaken(l, f)
        BY Zenon, <1>1, <2>5, <3>1 DEF HandleTcp
      <3> QED
        BY Zenon, <2>5, <3>1, <3>2
    <2> QED
      BY Zenon, <2>1, <2>2, <2>3, <2>4, <2>5
  <1> QED
    BY Zenon, <1>3, <1>4, <1>5, <1>6, <1>7

-----------------------------------------------------------------------------
(* Frames and commands *)

\* handle_frame
LEMMA GoodFrame ==
    ASSUME NEW s, NEW w, NEW p, NEW first, NEW ses, NEW spent \in Int, spent + 1 < SeqMod,
           Good(s, w, p, first, ses, spent),
           NEW f, f \in w \/ f.kind \in NoiseKinds, f.kind # "runt",
           NEW t, t = HandleFrame(s, f)
    PROVE  Good(t, w, p, first, ses, spent + 1) /\ AckRight(s.stack.tcp, t.stack.tcp, p, first)
  <1>1. PICK more : more = spent + 1
    BY Zenon
  <1>2. more \in Int /\ more >= spent
    BY <1>1
  <1>3. ASSUME NEW u, Good(u, w, p, first, ses, spent), u.stack.tcp = s.stack.tcp
        PROVE  Good(u, w, p, first, ses, more) /\ AckRight(s.stack.tcp, u.stack.tcp, p, first)
    <2>1. Good(u, w, p, first, ses, more)
      BY Zenon, <1>2, <1>3, GoodSpends
    <2>2. AckRight(s.stack.tcp, u.stack.tcp, p, first)
      BY Zenon, <1>3 DEF AckRight, TcpWaiting
    <2> QED
      BY Zenon, <2>1, <2>2
  <1>4. CASE f.kind # "tcp"
    <2>1. Good(t, w, p, first, ses, spent) /\ t.stack.tcp = s.stack.tcp
      BY <1>4, GoodPlain
    <2> QED
      BY Zenon, <1>1, <1>3, <2>1
  <1>5. CASE f.kind = "tcp" /\ Accepts(s.stack, f)
    <2>1. PICK l : l = IF s.stack.configured
                       THEN [s EXCEPT !.stack = LearnArp(@, f.source)] ELSE s
      BY Zenon
    <2>2. Good(l, w, p, first, ses, spent) /\ l.stack.tcp = s.stack.tcp
      <3>1. CASE l = s
        BY Zenon, <3>1
      <3>2. CASE l = [s EXCEPT !.stack = LearnArp(@, f.source)]
        <4>1. Shape(l) /\ l.stack = LearnArp(s.stack, f.source) /\ l.nic = s.nic
          BY Zenon, <3>2 DEF Good, Shape
        <4> QED
          BY <4>1, GoodLearn
      <3> QED
        BY Zenon, <2>1, <3>1, <3>2
    <2>3. t = HandleTcp(l, f)
      BY Zenon, <1>5, <2>1 DEF HandleFrame
    <2>4. f \in w
      BY Zenon, <1>5 DEF NoiseKinds
    <2>5. /\ Good(t, w, p, first, ses, spent + 1)
          /\ AckRight(l.stack.tcp, t.stack.tcp, p, first)
      BY Zenon, <1>5, <2>2, <2>3, <2>4, GoodHandleTcp
    <2> QED
      BY Zenon, <2>2, <2>5
  <1>6. CASE f.kind = "tcp" /\ ~Accepts(s.stack, f)
    <2>1. t = s
      BY Zenon, <1>6 DEF HandleFrame
    <2> QED
      BY Zenon, <1>1, <1>3, <2>1
  <1> QED
    BY Zenon, <1>4, <1>5, <1>6

\* poll_tcp
LEMMA GoodPolledTcp ==
    ASSUME NEW s, NEW w, NEW p, NEW first, NEW ses, NEW spent \in Int,
           Good(s, w, p, first, ses, spent), NEW late, NEW t, t = PolledTcp(s, late)
    PROVE  Good(t, w, p, first, ses, spent) /\ AckRight(s.stack.tcp, t.stack.tcp, p, first)
  <1>1. PICK k, c : k = s.stack.tcp /\ c = [s EXCEPT !.stack.tcp.retries = @ + 1]
    BY Zenon
  <1>2. CASE t = s
    BY Zenon, <1>2 DEF AckRight, TcpWaiting
  <1>3. CASE t = [s EXCEPT !.stack.tcp.state = "Closed", !.stack.tcp.pendingLen = 0]
    <2>1. Good(t, w, p, first, ses, spent) /\ t.stack.tcp.state = "Closed"
      BY Zenon, <1>3, GoodReset
    <2> QED
      BY Zenon, <2>1 DEF AckRight
  <1>4. CASE TcpWaiting(k) /\ (\/ k.state = "SynSent" /\ t = SendTcpSegment(c, {"SYN"}, 0)
                               \/ /\ k.state # "SynSent"
                                  /\ t = SendTcpSegment(c, {"ACK", "PSH"}, k.pendingLen))
    <2>1. /\ TcpShape(k) /\ StackOK(s.stack) /\ Shape(s)
          /\ ConnectionOK(k, s.nic, w, p, first, spent) /\ k.state # "Closed"
      <3>1. k.state # "Closed"
        BY Zenon, <1>4 DEF TcpWaiting
      <3> QED
        BY Zenon, <1>1, <3>1, OpenIs
    <2>2. PICK n, tcp : n = k.retries + 1 /\ tcp = [k EXCEPT !.retries = n]
      BY Zenon
    <2>3. /\ TcpShape(tcp) /\ tcp.state = k.state /\ tcp.sequence = k.sequence
          /\ tcp.pendingLen = k.pendingLen /\ tcp.pendingSequence = k.pendingSequence
      BY Zenon, <2>1, <2>2 DEF TcpShape
    <2>4. Shape(c) /\ c.nic = s.nic /\ c.stack = [s.stack EXCEPT !.tcp.retries = n]
      BY Zenon, <1>1, <2>1, <2>2 DEF Shape
    <2>5. c.stack = [s.stack EXCEPT !.tcp = tcp]
      BY Zenon, <1>1, <2>1, <2>2, <2>4 DEF StackOK
    <2>6. NewSocket(s, c, tcp)
      BY Zenon, <2>3, <2>4, <2>5 DEF NewSocket
    <2>7. /\ tcp.state = s.stack.tcp.state /\ tcp.sequence = s.stack.tcp.sequence
          /\ tcp.pendingLen = s.stack.tcp.pendingLen
          /\ tcp.pendingSequence = s.stack.tcp.pendingSequence
      BY Zenon, <1>1, <2>3
    <2>8. Good(c, w, p, first, ses, spent) /\ c.stack.tcp = tcp
      BY <2>6, <2>7, GoodFields
    <2>9. PICK flags, length : /\ t = SendTcpSegment(c, flags, length)
                               /\ length = 0 \/ length = c.stack.tcp.pendingLen
                               /\ p.state = "Listen" => "SYN" \in flags
      <3>1. CASE k.state = "SynSent" /\ t = SendTcpSegment(c, {"SYN"}, 0)
        BY Zenon, <3>1
      <3>2. CASE k.state # "SynSent" /\ t = SendTcpSegment(c, {"ACK", "PSH"}, k.pendingLen)
        <4>1. p.state # "Listen" /\ k.pendingLen = c.stack.tcp.pendingLen
          BY Zenon, <2>1, <2>3, <2>8, <3>2 DEF ConnectionOK
        <4> QED
          BY Zenon, <3>2, <4>1
      <3> QED
        BY Zenon, <1>4, <3>1, <3>2
    <2>10. c.stack.tcp.state # "Closed"
      BY Zenon, <2>1, <2>3, <2>8
    <2>11. PICK v : v = SendTcpSegment(c, flags, length)
      BY Zenon
    <2>12. Good(v, w, p, first, ses, spent) /\ SameStack(c, v)
      BY Zenon, <2>8, <2>9, <2>10, <2>11, GoodSegment
    <2>13. t = v
      BY Zenon, <2>9, <2>11
    <2>14. v.stack.tcp = tcp
      BY Zenon, <2>8, <2>12 DEF SameStack
    <2>15. AckRight(k, tcp, p, first)
      BY Zenon, <2>3 DEF AckRight, TcpWaiting
    <2> QED
      BY Zenon, <1>1, <2>12, <2>13, <2>14, <2>15
  <1>5. \/ t = s
        \/ t = [s EXCEPT !.stack.tcp.state = "Closed", !.stack.tcp.pendingLen = 0]
        \/ TcpWaiting(k) /\ (\/ k.state = "SynSent" /\ t = SendTcpSegment(c, {"SYN"}, 0)
                             \/ /\ k.state # "SynSent"
                                /\ t = SendTcpSegment(c, {"ACK", "PSH"}, k.pendingLen))
    BY Zenon, <1>1 DEF PolledTcp
  <1> QED
    BY Zenon, <1>2, <1>3, <1>4, <1>5
\* Shared by start_tcp and send_tcp: the segment is out, and then the socket changes
\* to one that the segment agrees with.
LEMMA GoodOpened ==
    ASSUME NEW s, NEW w, NEW p, NEW first, NEW ses, NEW spent, Good(s, w, p, first, ses, spent),
           NEW remote, NEW f, f.kind = "tcp", NEW sent, sent = SendTo(s, remote, f),
           NEW tcp, TcpShape(tcp), NEW start, start # SeqMod, NEW more,
           TcpOK(tcp, s.nic, w, p, start, more), SegmentOK(f, tcp, p, start),
           NEW t, NewSocket(sent, t, tcp)
    PROVE  Good(t, w, p, start, ses, more) /\ t.stack.tcp = tcp
  <1>2. Shape(s) /\ NicOK(s.nic) /\ StackOK(s.stack) /\ DnsOK(s.stack) /\ UnreadOK(s.nic, w)
        /\ LeaseOK(s.stack, s.nic, w, ses) /\ \A g \in w : g.kind \in AnswerKinds
    BY Zenon DEF Good, NetOK
  <1>3. PICK k : k = [s.stack EXCEPT !.tcp = tcp]
    BY Zenon
  <1>4. /\ k.tcp = tcp /\ k.dns = s.stack.dns /\ StackOK(k)
        /\ k.dhcp = s.stack.dhcp /\ k.configured = s.stack.configured
        /\ k.ip = s.stack.ip /\ k.gateway = s.stack.gateway
        /\ k.dnsServer = s.stack.dnsServer /\ k.server = s.stack.server
    BY Zenon, <1>2, <1>3 DEF StackOK, TcpShape
  <1>5. LeaseOK(k, s.nic, w, ses)
    BY Zenon, <1>2, <1>4 DEF LeaseOK, RequestOK, GrantOK
  <1>6. NetOK(k, s.nic, w, p, start, ses, more)
    BY Zenon, <1>2, <1>4, <1>5 DEF NetOK, DnsOK
  <1>7. PICK arp : arp = ArpFrame("request", Target(s.stack, remote))
    BY Zenon
  <1>8. NicStep(s.nic, sent.nic, {f, arp})
    BY Zenon, <1>2, <1>7, SendToIs
  <1>9. sent.stack = s.stack
    BY Zenon, <1>2 DEF SendTo, NextHop, Send, Shape
  <1>10. FrameOK(f, k, p, start)
    BY Zenon, <1>4 DEF FrameOK, RequestOK
  <1>11. FrameOK(arp, k, p, start)
    <2>1. arp.kind = "arp"
      BY Zenon, <1>7 DEF ArpFrame
    <2> QED
      BY <2>1, PlainFrame
  <1>12. NetOK(k, sent.nic, w, p, start, ses, more)
    <2>1. \A g \in {f, arp} : FrameOK(g, k, p, start)
      BY Zenon, <1>10, <1>11
    <2> QED
      BY Zenon, <1>6, <1>8, <2>1, NetSends
  <1>13. t.stack = k /\ t.nic = sent.nic /\ Shape(t)
    BY Zenon, <1>3, <1>9 DEF NewSocket
  <1> QED
    BY Zenon, <1>4, <1>12, <1>13 DEF Good

\* Shared by start_tcp and send_tcp: the segment did not go out.
LEMMA GoodUnsent ==
    ASSUME NEW s, NEW w, NEW p, NEW first, NEW ses, NEW spent, Good(s, w, p, first, ses, spent),
           NEW remote, NEW f, NEW sent, sent = SendTo(s, remote, f), ~sent.ok
    PROVE  Good(sent, w, p, first, ses, spent) /\ SameStack(s, sent)
  <1>1. Shape(s) /\ NicOK(s.nic)
    BY Zenon DEF Good, NetOK
  <1>2. PICK arp : arp = ArpFrame("request", Target(s.stack, remote))
    BY Zenon
  <1>3. NicStep(s.nic, sent.nic, {arp}) /\ Shape(sent)
    BY Zenon, <1>1, <1>2, SendToIs
  <1>4. sent.stack = s.stack
    BY Zenon, <1>1 DEF SendTo, NextHop, Send, Shape
  <1>5. FrameOK(arp, s.stack, p, first)
    <2>1. arp.kind = "arp"
      BY Zenon, <1>2 DEF ArpFrame
    <2> QED
      BY <2>1, PlainFrame
  <1>6. NetOK(s.stack, sent.nic, w, p, first, ses, spent)
    <2>1. \A g \in {arp} : FrameOK(g, s.stack, p, first)
      BY Zenon, <1>5
    <2> QED
      BY Zenon, <1>3, <2>1, NetSends DEF Good
  <1> QED
    BY Zenon, <1>3, <1>4, <1>6 DEF Good, SameStack

\* send_tcp: the pending payload is paid for with the command.
LEMMA GoodSendTcp ==
    ASSUME NEW s, NEW w, NEW p, NEW first, NEW ses, NEW spent \in Int, spent + 1 < SeqMod,
           Good(s, w, p, first, ses, spent), s.stack.tcp.state = "Established",
           s.stack.tcp.pendingLen = 0, NEW t, t = SendTcp(s, 1)
    PROVE  Good(t, w, p, first, ses, spent + 1)
  <1>1. PICK k, seq, ack, remote, more, u :
              /\ k = s.stack.tcp /\ seq = k.sequence /\ ack = k.acknowledgement
              /\ remote = k.remote /\ more = spent + 1 /\ u = Pending(s.nic.rx)
    BY Zenon
  <1>2. PICK f : f = TcpFrame(seq, ack, {"ACK", "PSH"}, 1)
    BY Zenon
  <1>3. PICK sent : sent = SendTo(s, remote, f)
    BY Zenon
  <1>4. sent = SendTcpSegment(s, {"ACK", "PSH"}, 1)
    BY Zenon, <1>1, <1>2, <1>3 DEF SendTcpSegment
  <1>5. /\ TcpShape(k) /\ StackOK(s.stack) /\ Shape(s) /\ first # SeqMod /\ first \in Numbers
        /\ ConnectionOK(k, s.nic, w, p, first, spent) /\ seq \in Numbers
        /\ Offset(seq, first) \in Numbers /\ u \in Nat /\ u <= spent /\ SeqMod \in Nat
        /\ Sent(k, first) \in Nat
    BY Zenon, <1>1, OpenIs
  <1>6. more \in Int /\ more >= spent
    BY <1>1
  <1>7. CASE ~sent.ok
    <2>1. Good(sent, w, p, first, ses, spent)
      BY Zenon, <1>3, <1>7, GoodUnsent
    <2>2. Good(sent, w, p, first, ses, more)
      BY Zenon, <1>6, <2>1, GoodSpends
    <2>3. t = sent
      BY Zenon, <1>4, <1>7 DEF SendTcp
    <2> QED
      BY Zenon, <1>1, <2>2, <2>3
  <1>8. CASE sent.ok
    <2>1. PICK tcp : tcp = [k EXCEPT !.pendingLen = 1, !.pendingSequence = seq, !.retries = 0]
      BY Zenon
    <2>2. /\ TcpShape(tcp) /\ tcp.state = k.state /\ tcp.sequence = seq
          /\ tcp.pendingLen = 1 /\ tcp.pendingSequence = seq
      BY Zenon, <1>1, <1>5, <2>1 DEF TcpShape
    <2>3. Sent(k, first) = Offset(seq, first)
      <3>1. Sent(k, first) = Offset(seq, first) + 0
        BY Zenon, <1>1 DEF Sent
      <3> QED
        BY <1>5, <3>1 DEF Numbers
    <2>4. Sent(tcp, first) = Offset(seq, first) + 1
      BY Zenon, <2>2 DEF Sent
    <2>5. Sent(k, first) + u <= spent /\ Offset(seq, first) >= 1 /\ p.state # "Listen"
      BY Zenon, <1>1, <1>5 DEF ConnectionOK
    <2>6. /\ Sent(tcp, first) \in Int /\ Sent(k, first) \in Int
          /\ Sent(tcp, first) >= Sent(k, first) /\ Sent(tcp, first) + u <= more
      BY <1>1, <1>5, <2>3, <2>4, <2>5 DEF Numbers
    <2>7. ConnectionOK(tcp, s.nic, w, p, first, more)
      <3>1. /\ tcp.state \in {"SynSent", "Established"} /\ tcp.state # "SynSent"
            /\ tcp.sequence \in Numbers /\ tcp.pendingLen \in {0, 1}
            /\ Offset(tcp.sequence, first) >= 1 /\ tcp.pendingSequence = tcp.sequence
            /\ Sent(tcp, first) + Pending(s.nic.rx) <= more
        BY Zenon, <1>1, <1>5, <2>2, <2>5, <2>6
      <3> QED
        BY Zenon, <1>5, <2>5, <2>6, <3>1, ConnectionMore
    <2>8. TcpOK(tcp, s.nic, w, p, first, more)
      <3>1. u <= more /\ first \in 0 .. SeqMod
        BY <1>1, <1>5 DEF Numbers
      <3> QED
        BY Zenon, <1>1, <1>5, <2>7, <3>1 DEF TcpOK
    <2>9. f.kind = "tcp" /\ SegmentOK(f, tcp, p, first)
      <3>1. f.kind = "tcp" /\ f.seq = seq /\ f.length = 1
        BY Zenon, <1>2 DEF TcpFrame
      <3>2. Offset(f.seq, first) + f.length <= Sent(tcp, first)
        BY <2>4, <2>6, <3>1
      <3> QED
        BY Zenon, <1>5, <2>5, <3>1, <3>2 DEF SegmentOK, Numbers
    <2>10. NewSocket(sent, t, tcp)
      <3>1. sent.stack = s.stack /\ Shape(sent)
        BY Zenon, <1>3, <1>5 DEF SendTo, NextHop, Send, Shape
      <3>2. t = [sent EXCEPT !.stack.tcp =
                    [@ EXCEPT !.pendingLen = 1, !.pendingSequence = s.stack.tcp.sequence,
                              !.retries = 0]]
        BY Zenon, <1>4, <1>8 DEF SendTcp
      <3>3. t = [sent EXCEPT !.stack.tcp = tcp]
        BY Zenon, <1>1, <2>1, <3>1, <3>2
      <3>4. Shape(t) /\ t.nic = sent.nic /\ t.stack = [sent.stack EXCEPT !.tcp = tcp]
        BY Zenon, <3>1, <3>3 DEF Shape
      <3> QED
        BY Zenon, <2>2, <3>4 DEF NewSocket
    <2>11. \A v : NewSocket(sent, v, tcp) => Good(v, w, p, first, ses, more)
      BY ZenonT(40), <1>3, <1>5, <2>2, <2>8, <2>9, GoodOpened
    <2> QED
      BY Zenon, <1>1, <2>10, <2>11
  <1> QED
    BY Zenon, <1>7, <1>8
\* start_tcp: the connection begins when the SYN is out.
LEMMA GoodStartTcp ==
    ASSUME NEW s, NEW w, NEW p, NEW ses, NEW spent \in Int, Good(s, w, p, SeqMod, ses, spent),
           NEW seq \in Numbers, NEW t, t = StartTcp(s, seq)
    PROVE  /\ t.ok => Good(t, w, p, seq, ses, spent)
           /\ ~t.ok => Good(t, w, p, SeqMod, ses, spent)
  <1>1. PICK k, u : k = s.stack.tcp /\ u = Pending(s.nic.rx)
    BY Zenon
  <1>2. PICK f : f = TcpFrame(seq, 0, {"SYN"}, 0)
    BY Zenon
  <1>3. PICK sent : sent = SendTo(s, Peer, f)
    BY Zenon
  <1>4. /\ TcpShape(k) /\ StackOK(s.stack) /\ Shape(s) /\ TcpOK(k, s.nic, w, p, SeqMod, spent)
        /\ u \in Nat
    <2>1. /\ TcpShape(k) /\ StackOK(s.stack) /\ Shape(s) /\ TcpOK(k, s.nic, w, p, SeqMod, spent)
      BY Zenon, <1>1 DEF Good, NetOK, StackOK, TcpShape
    <2>2. u \in 0 .. RxBuffers
      BY Zenon, <1>1 DEF Good, NetOK, NicOK, RxOK
    <2>3. u \in Nat
      BY <2>2, Sizes
    <2> QED
      BY Zenon, <2>1, <2>3
  <1>5. SeqMod \in Nat /\ seq # SeqMod /\ seq \in 0 .. SeqMod
    BY StackAssumption DEF Numbers
  <1>6. sent.stack = s.stack /\ Shape(sent)
    BY Zenon, <1>3, <1>4 DEF SendTo, NextHop, Send, Shape
  <1>7. CASE ~sent.ok
    <2>1. Good(sent, w, p, SeqMod, ses, spent)
      BY Zenon, <1>3, <1>7, GoodUnsent
    <2>2. t = sent
      BY Zenon, <1>2, <1>3, <1>7 DEF StartTcp
    <2> QED
      BY Zenon, <1>7, <2>1, <2>2
  <1>8. CASE sent.ok
    <2>1. PICK tcp : tcp = [k EXCEPT !.remote = Peer, !.sequence = seq, !.acknowledgement = 0,
                                     !.state = "SynSent", !.pendingLen = 0, !.retries = 0]
      BY Zenon
    <2>2. /\ TcpShape(tcp) /\ tcp.state = "SynSent" /\ tcp.sequence = seq
          /\ tcp.pendingLen = 0
      BY Zenon, <1>4, <2>1 DEF TcpShape
    <2>3. Sent(tcp, seq) = 0
      <3>1. Offset(seq, seq) = 0
        BY Zenon, OffsetOrder
      <3> QED
        BY <2>2, <3>1 DEF Sent
    <2>4. /\ p.state = "Listen" /\ \A g \in w : g.kind # "tcp"
          /\ s.nic.busy => s.nic.txBuffer.kind # "tcp"
          /\ u <= spent
      BY Zenon, <1>1, <1>4 DEF TcpOK
    <2>5. ConnectionOK(tcp, s.nic, w, p, seq, spent)
      <3>1. Sent(tcp, seq) + Pending(s.nic.rx) <= spent
        BY <1>1, <1>4, <2>3, <2>4
      <3>2. s.nic.busy => SegmentOK(s.nic.txBuffer, tcp, p, seq)
        BY Zenon, <2>4 DEF SegmentOK
      <3> QED
        BY Zenon, <2>2, <2>4, <3>1, <3>2 DEF ConnectionOK, Numbers
    <2>6. TcpOK(tcp, s.nic, w, p, seq, spent)
      BY Zenon, <1>1, <1>5, <2>4, <2>5 DEF TcpOK
    <2>7. f.kind = "tcp" /\ SegmentOK(f, tcp, p, seq)
      <3>1. f.kind = "tcp" /\ f.seq = seq /\ f.length = 0 /\ f.flags = {"SYN"}
        BY Zenon, <1>2 DEF TcpFrame
      <3> QED
        BY Zenon, <3>1 DEF SegmentOK, Numbers
    <2>8. t = [sent EXCEPT !.stack.tcp =
                  [@ EXCEPT !.remote = Peer, !.sequence = seq, !.acknowledgement = 0,
                            !.state = "SynSent", !.pendingLen = 0, !.retries = 0]]
      BY Zenon, <1>2, <1>3, <1>8 DEF StartTcp
    <2>9. t = [sent EXCEPT !.stack.tcp = tcp]
      BY Zenon, <1>1, <1>6, <2>1, <2>8
    <2>10. NewSocket(sent, t, tcp) /\ t.ok = sent.ok
      <3>1. /\ Shape(t) /\ t.nic = sent.nic /\ t.stack = [sent.stack EXCEPT !.tcp = tcp]
            /\ t.ok = sent.ok
        BY Zenon, <1>6, <2>9 DEF Shape
      <3> QED
        BY Zenon, <2>2, <3>1 DEF NewSocket
    <2>11. \A v : NewSocket(sent, v, tcp) => Good(v, w, p, seq, ses, spent)
      BY Zenon, <1>3, <1>5, <2>2, <2>6, <2>7, GoodOpened
    <2> QED
      BY Zenon, <1>8, <2>10, <2>11
  <1> QED
    BY Zenon, <1>7, <1>8

=============================================================================
