--------------------------- MODULE NetStackProofs ---------------------------
(***************************************************************************)
(* Proofs about the network stack and its driver (NetStack.tla,            *)
(* VirtioNet.tla), for every queue size, number of receive buffers, width  *)
(* of the ring indices, retry limit and table size.  The invariant and the *)
(* lemmas about the handlers are in NetHandlerProofs.                      *)
(***************************************************************************)
EXTENDS NetHandlerProofs

-----------------------------------------------------------------------------
(* The device *)

\* A frame is taken from the receive queue: it was paid for when it was stored.
LEMMA NetReceived ==
    ASSUME NEW k, NEW n, NEW w, NEW p, NEW first, NEW ses, NEW spent \in Int,
           NetOK(k, n, w, p, first, ses, spent), HasUsed(n.rx), NEW m, m = Received(n)
    PROVE  /\ NetOK(k, m, w, p, first, ses, spent - 1)
           /\ FrameUsed(n) \in w \/ FrameUsed(n).kind \in NoiseKinds
  <1>1. NicOK(n) /\ UnreadOK(n, w)
    BY Zenon DEF NetOK
  <1>2. /\ NicOK(m) /\ m.busy = n.busy /\ m.txBuffer = n.txBuffer
        /\ Pending(n.rx) \in 1 .. RxBuffers /\ Pending(m.rx) = Pending(n.rx) - 1
        /\ FrameUsed(n) \in w \/ FrameUsed(n).kind \in NoiseKinds
        /\ UnreadOK(m, w)
    BY Zenon, <1>1, ReceivedIs
  <1>3. Pending(n.rx) \in Int
    BY <1>2, Sizes
  <1>4. LeaseOK(k, m, w, ses)
    BY Zenon, <1>2 DEF NetOK, LeaseOK
  <1>5. ConnectionOK(k.tcp, n, w, p, first, spent) /\ first \in 0 .. SeqMod
        => ConnectionOK(k.tcp, m, w, p, first, spent - 1)
    <2> SUFFICES ASSUME ConnectionOK(k.tcp, n, w, p, first, spent), first \in 0 .. SeqMod
                 PROVE  ConnectionOK(k.tcp, m, w, p, first, spent - 1)
      BY Zenon
    <2>1. Sent(k.tcp, first) \in Int
      BY StackAssumption DEF ConnectionOK, Sent, Offset
    <2>2. Sent(k.tcp, first) + Pending(m.rx) <= spent - 1
      <3>1. Sent(k.tcp, first) + Pending(n.rx) <= spent
        BY Zenon DEF ConnectionOK
      <3>2. Pending(m.rx) = Pending(n.rx) - 1
        BY Zenon, <1>2
      <3> QED
        BY <1>3, <2>1, <3>1, <3>2
    <2> QED
      BY Zenon, <1>2, <2>2 DEF ConnectionOK
  <1>6. Pending(m.rx) <= spent - 1
    BY <1>2, <1>3 DEF NetOK, TcpOK
  <1>7. TcpOK(k.tcp, m, w, p, first, spent - 1)
    BY Zenon, <1>2, <1>5, <1>6 DEF NetOK, TcpOK
  <1> QED
    BY Zenon, <1>2, <1>4, <1>7 DEF NetOK

\* A frame is stored.
LEMMA NetStored ==
    ASSUME NEW k, NEW n, NEW w, NEW p, NEW first, NEW ses, NEW spent \in Int,
           NetOK(k, n, w, p, first, ses, spent), HasAvailable(n.rx),
           NEW f, f \in w \/ f.kind \in NoiseKinds, NEW m, m = DeviceStored(n, f)
    PROVE  NetOK(k, m, w, p, first, ses, spent + 1)
  <1>1. NicOK(n) /\ UnreadOK(n, w)
    BY Zenon DEF NetOK
  <1>2. /\ NicOK(m) /\ m.busy = n.busy /\ m.txBuffer = n.txBuffer
        /\ Pending(n.rx) \in Nat /\ Pending(m.rx) = Pending(n.rx) + 1 /\ UnreadOK(m, w)
    BY <1>1, StoredIs
  <1>3. LeaseOK(k, m, w, ses)
    BY Zenon, <1>2 DEF NetOK, LeaseOK
  <1>4. ConnectionOK(k.tcp, n, w, p, first, spent) /\ first \in 0 .. SeqMod
        => ConnectionOK(k.tcp, m, w, p, first, spent + 1)
    <2> SUFFICES ASSUME ConnectionOK(k.tcp, n, w, p, first, spent), first \in 0 .. SeqMod
                 PROVE  ConnectionOK(k.tcp, m, w, p, first, spent + 1)
      BY Zenon
    <2>1. Sent(k.tcp, first) \in Int
      BY StackAssumption DEF ConnectionOK, Sent, Offset
    <2>2. Sent(k.tcp, first) + Pending(m.rx) <= spent + 1
      BY <1>2, <2>1 DEF ConnectionOK
    <2> QED
      BY Zenon, <1>2, <2>2 DEF ConnectionOK
  <1>5. Pending(m.rx) <= spent + 1
    BY <1>2 DEF NetOK, TcpOK
  <1>6. TcpOK(k.tcp, m, w, p, first, spent + 1)
    BY Zenon, <1>2, <1>4, <1>5 DEF NetOK, TcpOK
  <1> QED
    BY Zenon, <1>2, <1>3, <1>6 DEF NetOK
PeerShape(p) == p = [state |-> p.state, rcv |-> p.rcv, snd |-> p.snd, left |-> p.left]

\* The device takes the frame that was given to it.
LEMMA NetSent ==
    ASSUME NEW k, NEW n, NEW w, NEW p, NEW first, NEW ses, NEW spent,
           NetOK(k, n, w, p, first, ses, spent), HasAvailable(n.tx), NEW m, m = DeviceSent(n)
    PROVE  NetOK(k, m, w, p, first, ses, spent) /\ n.busy /\ m.busy /\ m.txBuffer = n.txBuffer
  <1>1. NicOK(n)
    BY Zenon DEF NetOK
  <1>2. /\ NicOK(m) /\ m.rx = n.rx /\ m.rxBuffer = n.rxBuffer /\ m.txBuffer = n.txBuffer
        /\ m.busy = n.busy /\ n.busy
    BY Zenon, <1>1, SentIs
  <1>3. PICK none : none = {}
    BY Zenon
  <1>4. NicStep(n, m, none) /\ \A f \in none : FrameOK(f, k, p, first)
    BY Zenon, <1>2, <1>3 DEF NicStep
  <1> QED
    BY Zenon, <1>2, <1>4, NetSends

\* More frames on the wire, and a peer that has moved on.
LEMMA NetWorld ==
    ASSUME NEW k, NEW n, NEW w, NEW p, NEW first, NEW ses, NEW spent,
           NetOK(k, n, w, p, first, ses, spent),
           NEW d, \A g \in d : g.kind \in AnswerKinds /\ GrantOK(g, k),
           NEW v, v = w \cup d, NEW q, TcpOK(k.tcp, n, v, q, first, spent)
    PROVE  NetOK(k, n, v, q, first, ses, spent)
  <1>1. UnreadOK(n, v) /\ \A g \in v : g.kind \in AnswerKinds
    BY Zenon DEF UnreadOK, NetOK
  <1>2. LeaseOK(k, n, v, ses)
    BY Zenon DEF LeaseOK, NetOK
  <1> QED
    BY Zenon, <1>1, <1>2 DEF NetOK

\* What the other hosts answer names the server that was asked.
LEMMA AnswersRight ==
    ASSUME NEW f, NEW k, RequestOK(f, k), NEW granted, NEW g, g \in Answers(f, granted)
    PROVE  g.kind \in {"dhcp", "arp", "dns"} /\ GrantOK(g, k)
  <1>1. CASE f.kind = "dhcp" /\ f.type = "discover"
    <2>1. PICK server \in Servers : g = DhcpAnswer("offer", server, AddressOf(server))
      BY Zenon, <1>1 DEF Answers
    <2>2. PICK a : a = AddressOf(server)
      BY Zenon
    <2>3. g = DhcpAnswer("offer", server, a)
      BY Zenon, <2>1, <2>2
    <2>4. g.kind = "dhcp" /\ g.type = "offer" /\ g.server = server /\ g.to = a
      BY Zenon, <2>3 DEF DhcpAnswer
    <2> QED
      BY Zenon, <2>3, <2>4 DEF GrantOK
  <1>2. CASE f.kind = "dhcp" /\ f.type = "request"
    <2>1. \/ g = DhcpAnswer("ack", f.server, AddressOf(f.server))
          \/ g = DhcpAnswer("nak", f.server, Broadcast)
      BY Zenon, <1>2 DEF Answers
    <2>2. PICK server, a : server = f.server /\ a = AddressOf(f.server)
      BY Zenon
    <2>3. server = k.server /\ k.dhcp # "Discovering"
      BY Zenon, <1>2, <2>2 DEF RequestOK
    <2>4. CASE g = DhcpAnswer("ack", server, a)
      <3>1. g.kind = "dhcp" /\ g.type = "ack" /\ g.server = server /\ g.to = a
        BY Zenon, <2>4 DEF DhcpAnswer
      <3>2. a = AddressOf(server)
        BY Zenon, <2>2
      <3> QED
        BY Zenon, <2>3, <2>4, <3>1, <3>2 DEF GrantOK
    <2>5. CASE g = DhcpAnswer("nak", server, Broadcast)
      <3>1. g.kind = "dhcp" /\ g.type = "nak" /\ g.server = server /\ g.to = Broadcast
        BY Zenon, <2>5 DEF DhcpAnswer
      <3> QED
        BY Zenon, <2>5, <3>1 DEF GrantOK
    <2> QED
      BY Zenon, <2>1, <2>2, <2>4, <2>5
  <1>3. CASE f.kind = "arp" /\ f.operation = "request"
    <2>1. g = EthernetArp("reply", f.target, stack.ip)
      BY Zenon, <1>3 DEF Answers
    <2>2. g.kind = "arp"
      BY Zenon, <2>1 DEF EthernetArp
    <2> QED
      BY Zenon, <2>2 DEF GrantOK
  <1>4. CASE f.kind = "udp" /\ f.port = "dns"
    <2>1. g = DnsAnswer(f.to, stack.ip, f.id, granted)
      BY Zenon, <1>4 DEF Answers
    <2>2. g.kind = "dns"
      BY Zenon, <2>1 DEF DnsAnswer
    <2> QED
      BY Zenon, <2>2 DEF GrantOK
  <1>5. CASE /\ ~(f.kind = "dhcp" /\ f.type = "discover") /\ ~(f.kind = "dhcp" /\ f.type = "request")
             /\ ~(f.kind = "arp" /\ f.operation = "request") /\ ~(f.kind = "udp" /\ f.port = "dns")
    <2>1. Answers(f, granted) = {}
      BY Zenon, <1>5 DEF Answers
    <2> QED
      BY Zenon, <2>1
  <1> QED
    BY Zenon, <1>1, <1>2, <1>3, <1>4, <1>5

\* The peer takes a segment: it never has more than was sent, and acknowledges what
\* it has.
LEMMA PeerRight ==
    ASSUME NEW p, p = peer, PeerShape(p), NEW tcp, NEW n, NEW w, NEW first \in Numbers,
           NEW spent \in Int, spent < SeqMod, ConnectionOK(tcp, n, w, p, first, spent),
           Sent(tcp, first) \in Nat, Pending(n.rx) \in Nat, n.busy,
           NEW f, f = n.txBuffer, f.kind = "tcp", NEW q, q = PeerTakes(f),
           NEW d, d = PeerAnswers(f, q), NEW v, v = w \cup d
    PROVE  ConnectionOK(tcp, n, v, q, first, spent)
  <1>1. SeqMod \in Nat /\ SeqMod > 2 /\ first \in Nat
    BY StackAssumption DEF Numbers
  <1>2. SegmentOK(f, tcp, p, first)
    BY Zenon DEF ConnectionOK
  <1>3. /\ f.seq \in Numbers /\ f.length \in {0, 1}
        /\ p.state = "Listen" => "SYN" \in f.flags /\ f.seq = first
        /\ f.length # 0 => Offset(f.seq, first) + f.length <= Sent(tcp, first)
    BY Zenon, <1>2 DEF SegmentOK, Numbers
  <1>4. Sent(tcp, first) < SeqMod
    BY <1>1 DEF ConnectionOK
  <1>5. /\ q.state # "Listen" /\ q.rcv \in Numbers
        /\ Offset(q.rcv, first) <= 1 \/ Offset(q.rcv, first) <= Sent(tcp, first)
        /\ p.state # "Listen" => Offset(p.rcv, first) <= Offset(q.rcv, first)
    <2>1. CASE Syn(f) /\ p.state = "Listen"
      <3>1. q = [p EXCEPT !.state = "SynReceived", !.rcv = Wrap(f.seq + 1)]
        BY Zenon, <2>1 DEF PeerTakes
      <3>2. q.state = "SynReceived" /\ q.rcv = Wrap(f.seq + 1)
        BY Zenon, <3>1 DEF PeerShape
      <3>3. Offset(first, first) = 0 /\ 0 + 1 < SeqMod
        BY <1>1, OffsetOrder
      <3>4. Wrap(first + 1) \in Numbers /\ Offset(Wrap(first + 1), first) = 0 + 1
        BY Zenon, <3>3, OffsetNext
      <3>5. q.rcv \in Numbers /\ Offset(q.rcv, first) = 1
        BY <1>3, <2>1, <3>2, <3>4
      <3> QED
        BY <2>1, <3>2, <3>5
    <2>2. CASE Syn(f) /\ p.state # "Listen"
      <3>1. q = p
        BY Zenon, <2>2 DEF PeerTakes
      <3>2. p.rcv \in Numbers
            /\ (Offset(p.rcv, first) <= 1 \/ Offset(p.rcv, first) <= Sent(tcp, first))
        BY Zenon, <2>2 DEF ConnectionOK, Numbers
      <3>3. Offset(p.rcv, first) \in Int
        BY <1>1, <3>2, OffsetNext DEF Numbers
      <3>4. Offset(p.rcv, first) <= Offset(p.rcv, first)
        BY <3>3
      <3> QED
        BY Zenon, <2>2, <3>1, <3>2, <3>4
    <2>3. CASE ~Syn(f)
      <3>1. p.state # "Listen"
        BY Zenon, <1>3, <2>3 DEF Syn
      <3>2. p.rcv \in Numbers
            /\ (Offset(p.rcv, first) <= 1 \/ Offset(p.rcv, first) <= Sent(tcp, first))
        BY Zenon, <3>1 DEF ConnectionOK, Numbers
      <3>3. Offset(p.rcv, first) \in Nat
        BY <1>1, <3>2, OffsetNext DEF Numbers
      <3>4. PICK h : h = IF p.state = "SynReceived" /\ f.ack = Wrap(PeerIsn + 1)
                         THEN [p EXCEPT !.state = "Established", !.snd = Wrap(PeerIsn + 1)]
                         ELSE p
        BY Zenon
      <3>5. h.rcv = p.rcv /\ h.state # "Listen" /\ PeerShape(h)
        <4>1. CASE h = p
          BY Zenon, <3>1, <4>1
        <4>2. CASE h = [p EXCEPT !.state = "Established", !.snd = Wrap(PeerIsn + 1)]
          BY Zenon, <4>2 DEF PeerShape
        <4> QED
          BY Zenon, <3>4, <4>1, <4>2
      <3>6. q = IF h.state = "Established" /\ f.seq = h.rcv
                THEN [h EXCEPT !.rcv = Wrap(@ + f.length)] ELSE h
        BY <2>3, <3>4 DEF PeerTakes
      <3>7. CASE q = h
        BY <3>1, <3>2, <3>3, <3>5, <3>7
      <3>8. CASE f.seq = h.rcv /\ q = [h EXCEPT !.rcv = Wrap(@ + f.length)]
        <4>1. q.rcv = Wrap(f.seq + f.length) /\ q.state # "Listen" /\ p.rcv = f.seq
          BY Zenon, <3>5, <3>8 DEF PeerShape
        <4>2. CASE f.length = 0
          <5>1. f.seq + f.length = f.seq
            BY <1>1, <1>3, <4>2 DEF Numbers
          <5>2. q.rcv = p.rcv
            <6>1. f.seq = Wrap(f.seq)
              BY Zenon, <1>3, OffsetNext
            <6> QED
              BY Zenon, <4>1, <5>1, <6>1
          <5>3. Offset(p.rcv, first) <= Offset(p.rcv, first)
            BY <3>3
          <5> QED
            BY Zenon, <3>1, <3>2, <4>1, <5>2, <5>3
        <4>3. CASE f.length = 1
          <5>1. Offset(f.seq, first) \in Nat /\ Offset(f.seq, first) + 1 <= Sent(tcp, first)
            BY <1>3, <3>3, <4>1, <4>3
          <5>2. Offset(f.seq, first) + 1 < SeqMod
            BY <1>1, <1>4, <5>1
          <5>3. q.rcv \in Numbers /\ Offset(q.rcv, first) = Offset(f.seq, first) + 1
            BY <1>3, <4>1, <4>3, <5>2, OffsetNext
          <5>4. Offset(p.rcv, first) <= Offset(q.rcv, first)
            BY <4>1, <5>1, <5>3
          <5> QED
            BY Zenon, <4>1, <5>1, <5>3, <5>4
        <4> QED
          BY Zenon, <1>3, <4>2, <4>3
      <3> QED
        BY Zenon, <3>6, <3>7, <3>8
    <2> QED
      BY Zenon, <2>1, <2>2, <2>3
  <1>6. Offset(q.rcv, first) \in Int
    BY <1>1, <1>5, OffsetNext DEF Numbers
  <1>7. ASSUME NEW g \in v, g.kind = "tcp"
        PROVE  g.ack \in Numbers /\ Offset(g.ack, first) <= Offset(q.rcv, first)
    <2>1. CASE g \in w
      <3>1. p.state # "Listen"
        BY Zenon, <1>7, <2>1 DEF ConnectionOK
      <3>2. g.ack \in Numbers /\ Offset(g.ack, first) <= Offset(p.rcv, first) /\ p.rcv \in Numbers
        BY Zenon, <1>7, <2>1, <3>1 DEF ConnectionOK, Numbers
      <3>3. Offset(g.ack, first) \in Int /\ Offset(p.rcv, first) \in Int
        <4>1. Offset(g.ack, first) \in Numbers /\ Offset(p.rcv, first) \in Numbers
          BY Zenon, <3>2, OffsetNext
        <4> QED
          BY <1>1, <4>1 DEF Numbers
      <3> QED
        BY <1>5, <1>6, <3>1, <3>2, <3>3
    <2>2. CASE g \in d
      <3>1. g.ack = q.rcv
        BY <2>2 DEF PeerAnswers, TcpPacket
      <3> QED
        BY <1>5, <1>6, <3>1
    <2> QED
      BY Zenon, <1>7, <2>1, <2>2
  <1>8. SegmentOK(f, tcp, q, first)
    BY Zenon, <1>2, <1>5 DEF SegmentOK
  <1> QED
    BY Zenon, <1>5, <1>7, <1>8 DEF ConnectionOK, Numbers

-----------------------------------------------------------------------------
(* The main loop *)

\* The budget is a number below the one at which sequence numbers come round.
LEMMA SpentIs ==
    ASSUME NEW f \in 0 .. MaxFrames, NEW c \in 0 .. MaxCommands
    PROVE  /\ Spent(f, c) \in Int /\ Spent(f, c) < SeqMod
           /\ f > 0 => f - 1 \in 0 .. MaxFrames /\ Spent(f - 1, c) = Spent(f, c) + 1
           /\ c > 0 => /\ c - 1 \in 0 .. MaxCommands /\ Spent(f, c - 1) = Spent(f, c) + 1
                       /\ Spent(f, c) + 1 < SeqMod
  BY StackAssumption DEF Spent

\* The handlers start from the state of the loop.
LEMMA StateGood ==
    ASSUME NetInv
    PROVE  /\ Good(State, wire, peer, isn, session, Spent(frames, commands))
           /\ State.stack = stack /\ State.nic = nic
           /\ Spent(frames, commands) \in Int /\ Spent(frames, commands) < SeqMod
  <1>1. State.stack = stack /\ State.nic = nic /\ Shape(State)
    BY Zenon DEF State, Shape
  <1>2. Spent(frames, commands) \in Int /\ Spent(frames, commands) < SeqMod
    BY Zenon, SpentIs DEF NetInv
  <1> QED
    BY Zenon, <1>1, <1>2 DEF Good, NetInv

\* A step of the loop that leaves the world as it is.
LEMMA Applied ==
    ASSUME NetInv, UNCHANGED World,
           NetOK(stack', nic', wire, peer, isn, session, Spent(frames, commands)),
           pc' = "fin" => stack'.tcp.state = "Established"
    PROVE  NetInv'
  BY Zenon DEF NetInv, World

\* Stack::poll takes a frame.
LEMMA ReceiveKeeps ==
    ASSUME NetInv, Receive
    PROVE  NetInv' /\ AckRight(stack.tcp, stack'.tcp, peer, isn)
  <1>1. PICK k, n, w, p, first, ses, spent :
              /\ k = stack /\ n = nic /\ w = wire /\ p = peer /\ first = isn /\ ses = session
              /\ spent = Spent(frames, commands)
    BY Zenon
  <1>2. NetOK(k, n, w, p, first, ses, spent) /\ HasUsed(n.rx) /\ UNCHANGED World
    BY Zenon, <1>1 DEF NetInv, Receive
  <1>3. spent \in Int /\ spent < SeqMod /\ SeqMod \in Nat
    BY Zenon, <1>1, SpentIs, StackAssumption DEF NetInv
  <1>4. PICK m, f, less : m = Received(n) /\ f = FrameUsed(n) /\ less = spent - 1
    BY Zenon
  <1>5. NetOK(k, m, w, p, first, ses, less) /\ (f \in w \/ f.kind \in NoiseKinds)
    BY Zenon, <1>2, <1>3, <1>4, NetReceived
  <1>6. less \in Int /\ less + 1 = spent /\ less + 1 < SeqMod /\ spent >= less
    BY <1>3, <1>4
  <1>7. CASE f.kind = "runt"
    <2>1. nic' = m /\ stack' = k /\ pc' = Timer(stack, "dhcp")
      BY Zenon, <1>1, <1>4, <1>7 DEF Receive
    <2>2. NetOK(k, m, w, p, first, ses, spent)
      <3>1. SeqMod \in Nat \ {0}
        BY StackAssumption
      <3> QED
        BY Zenon, <1>3, <1>5, <1>6, <3>1, NetSpends
    <2>3. pc' # "fin"
      BY Zenon, <2>1 DEF Timer
    <2>4. NetInv'
      BY Zenon, <1>1, <1>2, <2>1, <2>2, <2>3, Applied
    <2> QED
      BY Zenon, <1>1, <2>1, <2>4 DEF AckRight, TcpWaiting
  <1>8. CASE f.kind # "runt"
    <2>1. PICK a, t : a = [State EXCEPT !.nic = Received(nic)] /\ t = HandleFrame(a, f)
      BY Zenon
    <2>2. Shape(a) /\ a.stack = k /\ a.nic = m
      BY Zenon, <1>1, <1>4, <2>1 DEF State, Shape
    <2>3. stack' = t.stack /\ nic' = t.nic /\ pc' = IF FinAhead(t, f) THEN "fin" ELSE "receive"
      BY Zenon, <1>1, <1>4, <1>8, <2>1 DEF Receive, Apply
    <2>4. Good(a, w, p, first, ses, less) /\ a.stack = k
      BY Zenon, <1>5, <2>2 DEF Good
    <2>5. Good(t, w, p, first, ses, less + 1) /\ AckRight(k.tcp, t.stack.tcp, p, first)
      BY Zenon, <1>5, <1>6, <1>8, <2>1, <2>4, GoodFrame
    <2>6. NetOK(t.stack, t.nic, w, p, first, ses, spent)
      BY Zenon, <1>6, <2>5 DEF Good
    <2>7. pc' = "fin" => stack'.tcp.state = "Established"
      BY Zenon, <2>3 DEF FinAhead
    <2>8. NetInv'
      BY Zenon, <1>1, <1>2, <2>3, <2>6, <2>7, Applied
    <2> QED
      BY Zenon, <1>1, <2>3, <2>5, <2>8
  <1> QED
    BY Zenon, <1>7, <1>8

\* The rest of Stack::poll.
LEMMA PollKeeps ==
    ASSUME NetInv, \/ Fin \/ ReceiveDone
                   \/ \E late \in BOOLEAN : PollDhcp(late) \/ PollDns(late) \/ PollTcp(late)
    PROVE  NetInv' /\ AckRight(stack.tcp, stack'.tcp, peer, isn)
  <1>1. PICK s, w, p, first, ses, spent :
              /\ s = State /\ w = wire /\ p = peer /\ first = isn /\ ses = session
              /\ spent = Spent(frames, commands)
    BY Zenon
  <1>2. Good(s, w, p, first, ses, spent) /\ s.stack = stack /\ s.nic = nic /\ spent \in Int
    BY Zenon, <1>1, StateGood
  <1>3. ASSUME NEW t, Good(t, w, p, first, ses, spent), stack' = t.stack, nic' = t.nic,
               UNCHANGED World, pc' # "fin"
        PROVE  NetInv'
    BY Zenon, <1>1, <1>3, Applied DEF Good
  <1>4. CASE Fin
    <2>1. PICK a, t : a = Wrap(stack.tcp.acknowledgement + 1) /\ t = FinTaken(s, a)
      BY Zenon
    <2>2. stack' = t.stack /\ nic' = t.nic /\ pc' = "receive" /\ UNCHANGED World
          /\ s.stack.tcp.state = "Established"
      BY Zenon, <1>1, <1>2, <1>4, <2>1 DEF Fin, Apply, NetInv
    <2>3. Good(t, w, p, first, ses, spent) /\ t.stack.tcp.pendingLen = s.stack.tcp.pendingLen
      BY <1>2, <2>1, <2>2, GoodFin
    <2>4. NetInv'
      BY Zenon, <1>3, <2>2, <2>3
    <2> QED
      BY Zenon, <1>2, <2>2, <2>3, <2>4 DEF AckRight, TcpWaiting
  <1>5. CASE ReceiveDone
    <2>1. stack' = s.stack /\ nic' = s.nic /\ UNCHANGED World /\ pc' # "fin"
      BY Zenon, <1>2, <1>5 DEF ReceiveDone, Timer
    <2>2. NetInv'
      BY Zenon, <1>2, <1>3, <2>1
    <2> QED
      BY Zenon, <1>2, <2>1, <2>2 DEF AckRight, TcpWaiting
  <1>6. ASSUME NEW late \in BOOLEAN, PollDhcp(late) \/ PollDns(late) \/ PollTcp(late)
        PROVE  NetInv' /\ AckRight(stack.tcp, stack'.tcp, peer, isn)
    <2>1. CASE PollDhcp(late)
      <3>1. PICK t : t = PolledDhcp(s, late)
        BY Zenon
      <3>2. stack' = t.stack /\ nic' = t.nic /\ UNCHANGED World /\ pc' # "fin"
        BY Zenon, <1>1, <2>1, <3>1 DEF PollDhcp, Apply, Timer
      <3>3. Good(t, w, p, first, ses, spent) /\ t.stack.tcp = s.stack.tcp
        BY <1>2, <3>1, GoodPolledDhcp
      <3>4. NetInv'
        BY Zenon, <1>3, <3>2, <3>3
      <3> QED
        BY Zenon, <1>2, <3>2, <3>3, <3>4 DEF AckRight, TcpWaiting
    <2>2. CASE PollDns(late)
      <3>1. PICK t : t = PolledDns(s, late)
        BY Zenon
      <3>2. stack' = t.stack /\ nic' = t.nic /\ UNCHANGED World /\ pc' # "fin"
        BY Zenon, <1>1, <2>2, <3>1 DEF PollDns, Apply, Timer
      <3>3. Good(t, w, p, first, ses, spent) /\ t.stack.tcp = s.stack.tcp
        BY <1>2, <3>1, GoodPolledDns
      <3>4. NetInv'
        BY Zenon, <1>3, <3>2, <3>3
      <3> QED
        BY Zenon, <1>2, <3>2, <3>3, <3>4 DEF AckRight, TcpWaiting
    <2>3. CASE PollTcp(late)
      <3>1. PICK t : t = PolledTcp(s, late)
        BY Zenon
      <3>2. stack' = t.stack /\ nic' = t.nic /\ UNCHANGED World /\ pc' # "fin"
        BY Zenon, <1>1, <2>3, <3>1 DEF PollTcp, Apply
      <3>3. Good(t, w, p, first, ses, spent) /\ AckRight(s.stack.tcp, t.stack.tcp, p, first)
        BY Zenon, <1>2, <3>1, GoodPolledTcp
      <3>4. NetInv'
        BY Zenon, <1>3, <3>2, <3>3
      <3> QED
        BY Zenon, <1>1, <1>2, <3>2, <3>3, <3>4
    <2> QED
      BY Zenon, <1>6, <2>1, <2>2, <2>3
  <1> QED
    BY Zenon, <1>4, <1>5, <1>6
\* What a step of the socket from k to j is, when no payload stops being pending.
LEMMA AckKept ==
    ASSUME NEW k, NEW j, NEW p, NEW first,
           j.pendingLen = k.pendingLen \/ k.state # "Established" \/ k.pendingLen = 0
    PROVE  AckRight(k, j, p, first)
  BY Zenon DEF AckRight, TcpWaiting

\* The end of the loop, with drivers::poll.
LEMMA Looped ==
    ASSUME NetInv, NEW s, LoopEnds(s), commands' \in 0 .. MaxCommands,
           Good(s, wire, peer, isn', session, Spent(frames, commands'))
    PROVE  NetInv' /\ stack' = s.stack
  <1>1. PICK w, p, first, ses, spent :
              /\ w = wire /\ p = peer /\ first = isn' /\ ses = session
              /\ spent = Spent(frames, commands')
    BY Zenon
  <1>2. PICK m, none : m = DriverPoll(s.nic) /\ none = {}
    BY Zenon
  <1>3. NetOK(s.stack, s.nic, w, p, first, ses, spent) /\ NicOK(s.nic)
    BY Zenon, <1>1 DEF Good, NetOK
  <1>4. NicStep(s.nic, m, none)
    <2>1. /\ NicOK(m) /\ m.rx = s.nic.rx /\ m.rxBuffer = s.nic.rxBuffer
          /\ m.txBuffer = s.nic.txBuffer /\ (m.busy => s.nic.busy)
      BY Zenon, <1>2, <1>3, DriverPollIs
    <2> QED
      BY Zenon, <2>1 DEF NicStep
  <1>5. NetOK(s.stack, m, w, p, first, ses, spent)
    <2>1. \A f \in none : FrameOK(f, s.stack, p, first)
      BY Zenon, <1>2
    <2> QED
      BY Zenon, <1>3, <1>4, <2>1, NetSends
  <1>6. /\ stack' = s.stack /\ nic' = m /\ pc' = "receive" /\ UNCHANGED <<wire, peer, session, frames>>
    BY Zenon, <1>2 DEF LoopEnds
  <1> QED
    BY Zenon, <1>1, <1>5, <1>6 DEF NetInv

\* A command that was issued.
LEMMA Issued ==
    ASSUME NetInv, NEW s, Issue(s), isn' = isn,
           \/ Good(s, wire, peer, isn, session, Spent(frames, commands))
           \/ Good(s, wire, peer, isn, session, Spent(frames, commands) + 1)
    PROVE  NetInv' /\ stack' = s.stack
  <1>1. PICK w, p, first, ses, spent, more :
              /\ w = wire /\ p = peer /\ first = isn /\ ses = session
              /\ spent = Spent(frames, commands) /\ more = Spent(frames, commands')
    BY Zenon
  <1>2. commands > 0 /\ commands' = commands - 1 /\ LoopEnds(s)
    BY Zenon DEF Issue
  <1>3. /\ spent \in Int /\ more = spent + 1 /\ commands' \in 0 .. MaxCommands
    BY Zenon, <1>1, <1>2, SpentIs DEF NetInv
  <1>4. Good(s, w, p, first, ses, more)
    <2>1. CASE Good(s, w, p, first, ses, spent)
      <3>1. more \in Int /\ more >= spent
        BY <1>3
      <3> QED
        BY Zenon, <1>3, <2>1, <3>1, GoodSpends
    <2>2. CASE Good(s, w, p, first, ses, spent + 1)
      BY Zenon, <1>3, <2>2
    <2> QED
      BY Zenon, <1>1, <2>1, <2>2
  <1>5. Good(s, wire, peer, isn', session, Spent(frames, commands'))
    BY Zenon, <1>1, <1>4
  <1> QED
    BY Zenon, <1>2, <1>3, <1>5, Looped

\* Commands that send a datagram, and the query of the resolver.
LEMMA DatagramKeeps ==
    ASSUME NetInv, \/ TransmitPacket \/ Resolve
                   \/ \E d \in {Peer, stack.gateway} : Ping(d) \/ UdpSend(d)
    PROVE  NetInv' /\ AckRight(stack.tcp, stack'.tcp, peer, isn)
  <1>1. PICK s, w, p, first, ses, spent :
              /\ s = State /\ w = wire /\ p = peer /\ first = isn /\ ses = session
              /\ spent = Spent(frames, commands)
    BY Zenon
  <1>2. Good(s, w, p, first, ses, spent) /\ s.stack = stack /\ s.nic = nic /\ spent \in Int
    BY Zenon, <1>1, StateGood
  <1>3. ASSUME NEW t, Good(t, w, p, first, ses, spent), t.stack.tcp = s.stack.tcp, Issue(t),
               isn' = isn
        PROVE  NetInv' /\ AckRight(stack.tcp, stack'.tcp, peer, isn)
    <2>1. NetInv' /\ stack' = t.stack
      BY Zenon, <1>1, <1>3, Issued
    <2> QED
      BY Zenon, <1>2, <1>3, <2>1, AckKept
  <1>4. CASE TransmitPacket
    <2>1. PICK f, t : f = BadFrame /\ t = Send(s, f)
      BY Zenon
    <2>2. Issue(t) /\ isn' = isn
      BY Zenon, <1>1, <1>4, <2>1 DEF TransmitPacket
    <2>3. FrameOK(f, s.stack, p, first)
      <3>1. f.kind = "bad"
        BY Zenon, <2>1 DEF BadFrame
      <3> QED
        BY <3>1, PlainFrame
    <2>4. Good(t, w, p, first, ses, spent) /\ t.stack = s.stack
      BY <1>2, <2>1, <2>3, GoodSend
    <2> QED
      BY Zenon, <1>3, <2>2, <2>4
  <1>5. CASE Resolve
    <2>1. PICK id, t : t = DnsQuery(s, id) /\ Issue(t) /\ isn' = isn
      BY Zenon, <1>1, <1>5 DEF Resolve
    <2>2. Issue(t) /\ isn' = isn
      BY Zenon, <2>1
    <2>3. Good(t, w, p, first, ses, spent) /\ t.stack.tcp = s.stack.tcp
      BY <1>2, <2>1, GoodDnsQuery
    <2> QED
      BY Zenon, <1>3, <2>2, <2>3
  <1>6. ASSUME NEW d \in {Peer, stack.gateway}, Ping(d) \/ UdpSend(d)
        PROVE  NetInv' /\ AckRight(stack.tcp, stack'.tcp, peer, isn)
    <2>1. PICK f, t : /\ f = IcmpFrame(d, "echo") \/ f = UdpFrame(d, "test", 0)
                      /\ t = SendTo(s, d, f) /\ Issue(t) /\ isn' = isn
      BY Zenon, <1>1, <1>6 DEF Ping, UdpSend
    <2>2. FrameOK(f, s.stack, p, first)
      <3>1. f.kind \in {"icmp", "udp"}
        BY <2>1 DEF IcmpFrame, UdpFrame
      <3> QED
        BY <3>1, PlainFrame
    <2>3. Good(t, w, p, first, ses, spent) /\ t.stack = s.stack
      BY <1>2, <2>1, <2>2, GoodSendTo
    <2> QED
      BY Zenon, <1>3, <2>1, <2>3
  <1> QED
    BY Zenon, <1>4, <1>5, <1>6
\* The commands that read, and none.
LEMMA ReadKeeps ==
    ASSUME NetInv, NoCommand \/ UdpReceive \/ TcpReceive \/ ReceivePacket
    PROVE  NetInv' /\ AckRight(stack.tcp, stack'.tcp, peer, isn)
  <1>1. PICK s, w, p, first, ses, spent :
              /\ s = State /\ w = wire /\ p = peer /\ first = isn /\ ses = session
              /\ spent = Spent(frames, commands)
    BY Zenon
  <1>2. Good(s, w, p, first, ses, spent) /\ s.stack = stack /\ s.nic = nic /\ spent \in Int
    BY Zenon, <1>1, StateGood
  <1>3. ASSUME NEW t, Good(t, w, p, first, ses, spent), LoopEnds(t), UNCHANGED <<isn, commands>>,
               t.stack.tcp.pendingLen = s.stack.tcp.pendingLen
        PROVE  NetInv' /\ AckRight(stack.tcp, stack'.tcp, peer, isn)
    <2>1. Good(t, wire, peer, isn', session, Spent(frames, commands'))
      BY Zenon, <1>1, <1>3
    <2>2. commands' \in 0 .. MaxCommands
      BY Zenon, <1>3 DEF NetInv
    <2>3. NetInv' /\ stack' = t.stack
      BY Zenon, <1>3, <2>1, <2>2, Looped
    <2> QED
      BY Zenon, <1>2, <1>3, <2>3, AckKept
  <1>4. CASE NoCommand
    <2>1. LoopEnds(s) /\ UNCHANGED <<isn, commands>>
      BY Zenon, <1>1, <1>4 DEF NoCommand
    <2> QED
      BY Zenon, <1>2, <1>3, <2>1
  <1>5. CASE UdpReceive
    <2>1. PICK none : none = 0
      BY Zenon
    <2>2. PICK t : t = [s EXCEPT !.stack.udpLen = none]
      BY Zenon
    <2>3. LoopEnds(t) /\ UNCHANGED <<isn, commands>>
      BY Zenon, <1>1, <1>5, <2>1, <2>2 DEF UdpReceive
    <2>4. t = s \/ t = [s EXCEPT !.stack.udpLen = none]
      BY Zenon, <2>2
    <2>5. Good(t, w, p, first, ses, spent) /\ t.stack.tcp = s.stack.tcp
      BY <1>2, <2>4, GoodUdp
    <2> QED
      BY Zenon, <1>3, <2>3, <2>5
  <1>6. CASE TcpReceive
    <2>1. PICK none, k, tcp, t : /\ none = 0 /\ k = s.stack.tcp /\ tcp = [k EXCEPT !.receivedLen = none]
                                 /\ t = [s EXCEPT !.stack.tcp.receivedLen = none]
      BY Zenon
    <2>2. LoopEnds(t) /\ UNCHANGED <<isn, commands>>
      BY Zenon, <1>1, <1>6, <2>1 DEF TcpReceive
    <2>3. Shape(s) /\ StackOK(s.stack)
      BY Zenon, <1>2 DEF Good, NetOK
    <2>4. /\ k = [state |-> k.state, sequence |-> k.sequence,
                  acknowledgement |-> k.acknowledgement, pendingLen |-> k.pendingLen,
                  pendingSequence |-> k.pendingSequence, retries |-> k.retries,
                  receivedLen |-> k.receivedLen, remote |-> k.remote]
      BY Zenon, <2>1, <2>3 DEF StackOK
    <2>5. /\ tcp.state = s.stack.tcp.state /\ tcp.sequence = s.stack.tcp.sequence
          /\ tcp.pendingLen = s.stack.tcp.pendingLen
          /\ tcp.pendingSequence = s.stack.tcp.pendingSequence /\ TcpShape(tcp)
      BY Zenon, <2>1, <2>4 DEF TcpShape
    <2>6. NewSocket(s, t, tcp)
      <3>1. /\ t.nic = s.nic /\ Shape(t) /\ t.stack = [s.stack EXCEPT !.tcp.receivedLen = none]
        BY Zenon, <2>1, <2>3 DEF Shape
      <3>2. t.stack = [s.stack EXCEPT !.tcp = tcp]
        BY Zenon, <2>1, <2>3, <3>1 DEF StackOK
      <3> QED
        BY Zenon, <2>5, <3>1, <3>2 DEF NewSocket
    <2>7. Good(t, w, p, first, ses, spent) /\ t.stack.tcp = tcp
      BY <1>2, <2>5, <2>6, GoodFields
    <2> QED
      BY Zenon, <1>3, <2>2, <2>5, <2>7
  <1>7. CASE ReceivePacket
    <2>1. PICK n, m, t : n = s.nic /\ m = Received(n) /\ t = [s EXCEPT !.nic = m]
      BY Zenon
    <2>2. LoopEnds(t) /\ UNCHANGED <<isn, commands>> /\ HasUsed(n.rx)
      BY Zenon, <1>1, <1>2, <1>7, <2>1 DEF ReceivePacket
    <2>3. Shape(s) /\ NetOK(s.stack, n, w, p, first, ses, spent)
      BY Zenon, <1>2, <2>1 DEF Good
    <2>4. NetOK(s.stack, m, w, p, first, ses, spent - 1)
      BY Zenon, <1>2, <2>1, <2>2, <2>3, NetReceived
    <2>5. NetOK(s.stack, m, w, p, first, ses, spent)
      <3>1. PICK less : less = spent - 1
        BY Zenon
      <3>2. less \in Int /\ spent >= less /\ SeqMod \in Nat \ {0}
        BY <1>2, <3>1, StackAssumption
      <3> QED
        BY Zenon, <1>2, <2>4, <3>1, <3>2, NetSpends
    <2>6. t.stack = s.stack /\ t.nic = m /\ Shape(t)
      BY Zenon, <2>1, <2>3 DEF Shape
    <2>7. Good(t, w, p, first, ses, spent)
      BY Zenon, <2>5, <2>6 DEF Good
    <2> QED
      BY Zenon, <1>3, <2>2, <2>6, <2>7
  <1> QED
    BY Zenon, <1>4, <1>5, <1>6, <1>7

\* The commands of the TCP socket.
LEMMA SocketKeeps ==
    ASSUME NetInv, (\E n \in ClientIsns : TcpConnect(n)) \/ TcpSend(1)
    PROVE  NetInv' /\ AckRight(stack.tcp, stack'.tcp, peer, isn)
  <1>1. PICK s, w, p, first, ses, spent, more :
              /\ s = State /\ w = wire /\ p = peer /\ first = isn /\ ses = session
              /\ spent = Spent(frames, commands) /\ more = Spent(frames, commands')
    BY Zenon
  <1>2. Good(s, w, p, first, ses, spent) /\ s.stack = stack /\ s.nic = nic /\ spent \in Int
    BY Zenon, <1>1, StateGood
  <1>3. CASE TcpSend(1)
    <2>1. PICK t : t = SendTcp(s, 1)
      BY Zenon
    <2>2. /\ Issue(t) /\ isn' = isn /\ s.stack.tcp.state = "Established"
          /\ s.stack.tcp.pendingLen = 0
      BY Zenon, <1>1, <1>2, <1>3, <2>1 DEF TcpSend
    <2>3. spent + 1 < SeqMod
      BY <1>1, <2>2, SpentIs DEF NetInv, Issue
    <2>4. Good(t, w, p, first, ses, spent + 1)
      BY Zenon, <1>2, <2>1, <2>2, <2>3, GoodSendTcp
    <2>5. NetInv'
      BY Zenon, <1>1, <2>2, <2>4, Issued
    <2> QED
      BY Zenon, <1>2, <2>2, <2>5, AckKept
  <1>4. ASSUME NEW n \in ClientIsns, TcpConnect(n)
        PROVE  NetInv' /\ AckRight(stack.tcp, stack'.tcp, peer, isn)
    <2>1. PICK t : t = StartTcp(s, n)
      BY Zenon
    <2>2. /\ Issue(t) /\ isn' = (IF t.ok THEN n ELSE isn) /\ first = SeqMod
          /\ stack.tcp.state = "Closed"
      BY Zenon, <1>1, <1>4, <2>1 DEF TcpConnect
    <2>3. n \in Numbers
      BY Zenon, StackAssumption DEF Numbers
    <2>4. /\ t.ok => Good(t, w, p, n, ses, spent)
          /\ ~t.ok => Good(t, w, p, first, ses, spent)
      BY Zenon, <1>2, <2>1, <2>2, <2>3, GoodStartTcp
    <2>5. PICK later : later = isn'
      BY Zenon
    <2>6. Good(t, w, p, later, ses, spent)
      BY Zenon, <1>1, <2>2, <2>4, <2>5
    <2>7. commands > 0 /\ commands' = commands - 1 /\ LoopEnds(t)
      BY Zenon, <2>2 DEF Issue
    <2>8. more = spent + 1 /\ commands' \in 0 .. MaxCommands
      BY Zenon, <1>1, <2>7, SpentIs DEF NetInv
    <2>9. Good(t, w, p, later, ses, more)
      <3>1. more \in Int /\ more >= spent
        BY <1>2, <2>8
      <3> QED
        BY Zenon, <1>2, <2>6, <3>1, GoodSpends
    <2>10. NetInv'
      <3>1. Good(t, wire, peer, isn', session, Spent(frames, commands'))
        BY Zenon, <1>1, <2>5, <2>9
      <3> QED
        BY Zenon, <2>7, <2>8, <3>1, Looped
    <2> QED
      BY Zenon, <2>2, <2>10, AckKept
  <1> QED
    BY Zenon, <1>3, <1>4
-----------------------------------------------------------------------------
(* The device and the network *)

\* The device and the network leave the socket alone.
LEMMA NetworkApplied ==
    ASSUME NetInv, NEW more, more = Spent(frames', commands), frames' \in 0 .. MaxFrames,
           UNCHANGED <<stack, pc, isn, session, commands>>,
           NetOK(stack, nic', wire', peer', isn, session, more), PeerShape(peer')
    PROVE  NetInv' /\ AckRight(stack.tcp, stack'.tcp, peer, isn)
  <1>1. NetInv'
    BY Zenon DEF NetInv, PeerShape
  <1> QED
    BY Zenon, <1>1, AckKept

\* A frame arrives.
LEMMA DeviceReceiveKeeps ==
    ASSUME NetInv, DeviceReceive
    PROVE  NetInv' /\ AckRight(stack.tcp, stack'.tcp, peer, isn)
  <1>1. PICK k, n, w, p, first, ses, spent, more :
              /\ k = stack /\ n = nic /\ w = wire /\ p = peer /\ first = isn /\ ses = session
              /\ spent = Spent(frames, commands) /\ more = Spent(frames', commands)
    BY Zenon
  <1>2. PICK f \in wire \cup Noise : nic' = DeviceStored(nic, f)
    BY Zenon DEF DeviceReceive
  <1>3. PICK m : m = DeviceStored(n, f)
    BY Zenon
  <1>4. NetOK(k, n, w, p, first, ses, spent) /\ PeerShape(p)
    BY Zenon, <1>1 DEF NetInv, PeerShape
  <1>5. /\ frames > 0 /\ frames' = frames - 1 /\ HasAvailable(n.rx) /\ nic' = m
        /\ UNCHANGED <<stack, pc, wire, peer, isn, session, commands>>
    BY Zenon, <1>1, <1>2, <1>3 DEF DeviceReceive
  <1>6. spent \in Int /\ more = spent + 1 /\ frames' \in 0 .. MaxFrames
    BY Zenon, <1>1, <1>5, SpentIs DEF NetInv
  <1>7. f \in w \/ f.kind \in NoiseKinds
    <2>1. ASSUME f \in Noise PROVE f.kind \in NoiseKinds
      <3>1. session \in {"boot", "names", "stream", "datagrams"}
        BY Zenon DEF NetInv
      <3> QED
        BY <2>1, <3>1 DEF Noise, NoiseKinds, BadFrame, RuntFrame, EthernetArp, IcmpPacket, UdpPacket
    <2> QED
      BY Zenon, <1>1, <1>2, <2>1
  <1>8. NetOK(k, m, w, p, first, ses, more)
    BY Zenon, <1>3, <1>4, <1>5, <1>6, <1>7, NetStored
  <1>9. NetOK(stack, nic', wire', peer', isn, session, more) /\ PeerShape(peer')
    BY Zenon, <1>1, <1>4, <1>5, <1>8
  <1> QED
    BY Zenon, <1>1, <1>5, <1>6, <1>9, NetworkApplied

\* More answers that are not TCP segments do not concern the socket.
LEMMA TcpPlain ==
    ASSUME NEW tcp, NEW n, NEW w, NEW p, NEW first, NEW spent, TcpOK(tcp, n, w, p, first, spent),
           NEW d, \A g \in d : g.kind # "tcp", NEW v, v = w \cup d
    PROVE  TcpOK(tcp, n, v, p, first, spent)
  <1>1. \A g \in v : g.kind = "tcp" => g \in w
    BY Zenon
  <1>2. ASSUME ConnectionOK(tcp, n, w, p, first, spent)
        PROVE  ConnectionOK(tcp, n, v, p, first, spent)
    BY Zenon, <1>1, <1>2 DEF ConnectionOK
  <1> QED
    BY Zenon, <1>1, <1>2 DEF TcpOK

\* The socket when the peer takes a segment and answers it.
LEMMA TcpAnswered ==
    ASSUME NEW p, p = peer, PeerShape(p), NEW tcp, NEW n, NEW w, NEW first, NEW spent \in Int,
           spent < SeqMod, TcpOK(tcp, n, w, p, first, spent), NicOK(n), n.busy,
           NEW f, f = n.txBuffer, f.kind = "tcp", NEW q, q = PeerTakes(f),
           NEW d, d = PeerAnswers(f, q), NEW v, v = w \cup d
    PROVE  TcpOK(tcp, n, v, q, first, spent)
  <1>1. first # SeqMod /\ first \in 0 .. SeqMod /\ Pending(n.rx) <= spent
    BY Zenon DEF TcpOK
  <1>2. first \in Numbers
    BY <1>1, StackAssumption DEF Numbers
  <1>3. ASSUME tcp.state # "Closed" PROVE ConnectionOK(tcp, n, v, q, first, spent)
    <2>1. ConnectionOK(tcp, n, w, p, first, spent)
      BY Zenon, <1>1, <1>3 DEF TcpOK
    <2>2. Pending(n.rx) \in Nat
      BY Sizes DEF NicOK, RxOK
    <2>3. Sent(tcp, first) \in Nat
      <3>1. tcp.sequence \in Numbers /\ tcp.pendingLen \in {0, 1}
        BY Zenon, <2>1 DEF ConnectionOK, Numbers
      <3>2. Offset(tcp.sequence, first) \in Numbers
        BY Zenon, <1>2, <3>1, OffsetNext
      <3>3. Offset(tcp.sequence, first) \in Nat
        BY <3>2, StackAssumption DEF Numbers
      <3> QED
        BY <3>1, <3>3 DEF Sent
    <2> QED
      BY <1>2, <2>1, <2>2, <2>3, PeerRight
  <1> QED
    BY Zenon, <1>1, <1>3 DEF TcpOK
\* The device takes a frame, and the hosts answer it.
LEMMA DeviceTransmitKeeps ==
    ASSUME NetInv, DeviceTransmit
    PROVE  NetInv' /\ AckRight(stack.tcp, stack'.tcp, peer, isn)
  <1>1. PICK k, n, w, p, first, ses, spent :
              /\ k = stack /\ n = nic /\ w = wire /\ p = peer /\ first = isn /\ ses = session
              /\ spent = Spent(frames, commands)
    BY Zenon
  <1>2. PICK m, f : m = DeviceSent(n) /\ f = n.txBuffer
    BY Zenon
  <1>3. PICK granted \in BOOLEAN :
              IF f.kind = "tcp"
              THEN peer' = PeerTakes(f) /\ wire' = wire \cup PeerAnswers(f, PeerTakes(f))
              ELSE wire' = wire \cup Answers(f, granted) /\ UNCHANGED peer
    BY Zenon, <1>1, <1>2 DEF DeviceTransmit
  <1>4. /\ HasAvailable(n.tx) /\ nic' = m /\ UNCHANGED <<stack, pc, isn, session, frames, commands>>
    BY Zenon, <1>1, <1>2 DEF DeviceTransmit
  <1>5. NetOK(k, n, w, p, first, ses, spent) /\ PeerShape(p) /\ frames' \in 0 .. MaxFrames
    BY Zenon, <1>1, <1>4 DEF NetInv, PeerShape
  <1>6. spent \in Int /\ spent < SeqMod
    BY Zenon, <1>1, StateGood
  <1>7. NetOK(k, m, w, p, first, ses, spent) /\ m.busy /\ m.txBuffer = f
    BY Zenon, <1>2, <1>4, <1>5, NetSent
  <1>8. NicOK(m) /\ LeaseOK(k, m, w, ses) /\ TcpOK(k.tcp, m, w, p, first, spent)
    BY Zenon, <1>7 DEF NetOK
  <1>9. PICK v, q : v = wire' /\ q = peer'
    BY Zenon
  <1>10. NetOK(k, m, v, q, first, ses, spent) /\ PeerShape(q)
    <2>1. CASE f.kind = "tcp"
      <3>1. PICK d : d = PeerAnswers(f, q)
        BY Zenon
      <3>2. q = PeerTakes(f) /\ v = w \cup d
        BY Zenon, <1>1, <1>3, <1>9, <2>1, <3>1
      <3>3. TcpOK(k.tcp, m, v, q, first, spent)
        BY <1>1, <1>5, <1>6, <1>7, <1>8, <2>1, <3>1, <3>2, TcpAnswered
      <3>4. \A g \in d : g.kind \in AnswerKinds /\ GrantOK(g, k)
        BY <3>1 DEF PeerAnswers, TcpPacket, AnswerKinds, GrantOK
      <3>5. PeerShape(q)
        <4>1. peer = [state |-> peer.state, rcv |-> peer.rcv, snd |-> peer.snd, left |-> peer.left]
          BY Zenon DEF NetInv
        <4> QED
          BY Zenon, <3>2, <4>1 DEF PeerTakes, PeerShape
      <3> QED
        BY Zenon, <1>7, <3>2, <3>3, <3>4, <3>5, NetWorld
    <2>2. CASE f.kind # "tcp"
      <3>1. PICK d : d = Answers(f, granted)
        BY Zenon
      <3>2. q = p /\ v = w \cup d
        BY Zenon, <1>1, <1>3, <1>9, <2>2, <3>1
      <3>3. RequestOK(f, k)
        BY Zenon, <1>7, <1>8 DEF LeaseOK
      <3>4. \A g \in d : g.kind \in {"dhcp", "arp", "dns"} /\ GrantOK(g, k)
        BY Zenon, <3>1, <3>3, AnswersRight
      <3>5. /\ \A g \in d : g.kind \in AnswerKinds /\ GrantOK(g, k)
            /\ \A g \in d : g.kind # "tcp"
        BY Zenon, <3>4 DEF AnswerKinds
      <3>6. TcpOK(k.tcp, m, v, p, first, spent)
        BY Zenon, <1>8, <3>2, <3>5, TcpPlain
      <3> QED
        BY Zenon, <1>5, <1>7, <3>2, <3>5, <3>6, NetWorld
    <2> QED
      BY Zenon, <2>1, <2>2
  <1>11. NetOK(stack, nic', wire', peer', isn, session, spent) /\ PeerShape(peer')
    BY Zenon, <1>1, <1>4, <1>9, <1>10
  <1>12. spent = Spent(frames', commands)
    BY Zenon, <1>1, <1>4
  <1> QED
    BY Zenon, <1>4, <1>5, <1>11, <1>12, NetworkApplied

\* The peer sends data, or ends the connection.
LEMMA PeerSendKeeps ==
    ASSUME NetInv, NEW length, NEW flags, PeerSend(length, flags)
    PROVE  NetInv' /\ AckRight(stack.tcp, stack'.tcp, peer, isn)
  <1>1. PICK k, n, w, p, first, ses, spent :
              /\ k = stack /\ n = nic /\ w = wire /\ p = peer /\ first = isn /\ ses = session
              /\ spent = Spent(frames, commands)
    BY Zenon
  <1>2. PICK g, d, v, q : /\ g = TcpPacket(stack.ip, p.snd, p.rcv, flags, length)
                          /\ d = {g} /\ v = w \cup d /\ q = peer'
    BY Zenon
  <1>3. /\ p.state = "Established" /\ wire' = v
        /\ nic' = n /\ UNCHANGED <<stack, pc, isn, session, frames, commands>>
    BY Zenon, <1>1, <1>2 DEF PeerSend
  <1>4. NetOK(k, n, w, p, first, ses, spent) /\ PeerShape(p) /\ frames' \in 0 .. MaxFrames
    BY Zenon, <1>1, <1>3 DEF NetInv, PeerShape
  <1>5. PeerShape(q) /\ q.rcv = p.rcv /\ q.state \in {"Established", "Closed"}
    <2>1. PICK snd, left, state :
             /\ q = [p EXCEPT !.snd = snd, !.left = left, !.state = state]
             /\ state \in {"Established", "Closed"}
      BY Zenon, <1>1, <1>2, <1>3 DEF PeerSend
    <2> QED
      BY Zenon, <1>4, <2>1 DEF PeerShape
  <1>6. g.kind = "tcp" /\ g.ack = p.rcv
    BY Zenon, <1>2 DEF TcpPacket
  <1>7. TcpOK(k.tcp, n, v, q, first, spent)
    <2>1. TcpOK(k.tcp, n, w, p, first, spent)
      BY Zenon, <1>4 DEF NetOK
    <2>2. first # SeqMod /\ first \in 0 .. SeqMod
      BY Zenon, <1>3, <2>1 DEF TcpOK
    <2>3. ASSUME k.tcp.state # "Closed" PROVE ConnectionOK(k.tcp, n, v, q, first, spent)
      <3>1. ConnectionOK(k.tcp, n, w, p, first, spent)
        BY Zenon, <2>1, <2>2, <2>3 DEF TcpOK
      <3>2. p.rcv \in Numbers
        BY Zenon, <1>3, <3>1 DEF ConnectionOK, Numbers
      <3>3. Offset(p.rcv, first) <= Offset(p.rcv, first)
        <4>1. first \in Numbers
          BY <2>2, StackAssumption DEF Numbers
        <4>2. Offset(p.rcv, first) \in Numbers
          BY Zenon, <3>2, <4>1, OffsetNext
        <4> QED
          BY <4>2, StackAssumption DEF Numbers
      <3>4. \A f \in v : f.kind = "tcp" =>
               f.ack \in Numbers /\ Offset(f.ack, first) <= Offset(q.rcv, first)
        BY Zenon, <1>2, <1>5, <1>6, <3>1, <3>2, <3>3 DEF ConnectionOK, Numbers
      <3>5. n.busy => SegmentOK(n.txBuffer, k.tcp, q, first)
        BY Zenon, <1>5, <3>1 DEF ConnectionOK, SegmentOK
      <3> QED
        BY Zenon, <1>3, <1>5, <3>1, <3>4, <3>5 DEF ConnectionOK, Numbers
    <2> QED
      BY Zenon, <2>1, <2>2, <2>3 DEF TcpOK
  <1>8. NetOK(k, n, v, q, first, ses, spent)
    <2>1. \A h \in d : h.kind \in AnswerKinds /\ GrantOK(h, k)
      BY Zenon, <1>2, <1>6 DEF AnswerKinds, GrantOK
    <2> QED
      BY Zenon, <1>2, <1>4, <1>7, <2>1, NetWorld
  <1>9. NetOK(stack, nic', wire', peer', isn, session, spent) /\ PeerShape(peer')
    BY Zenon, <1>1, <1>2, <1>3, <1>5, <1>8
  <1>10. spent = Spent(frames', commands)
    BY Zenon, <1>1, <1>3
  <1> QED
    BY Zenon, <1>3, <1>4, <1>9, <1>10, NetworkApplied
-----------------------------------------------------------------------------
(* The initial states *)

\* Runtime::new: all receive buffers are published, and nothing is to be sent.
LEMMA NewAdapterIs ==
    ASSUME NEW n, n = NewAdapter
    PROVE  NicOK(n) /\ n.busy = FALSE /\ Pending(n.rx) = 0
  <1>1. PICK q, e : q = n.rx /\ e = n.tx
    BY Zenon
  <1>2. /\ q = [ring |-> [i \in Slots |-> IF i < RxBuffers THEN i ELSE 0], available |-> RxBuffers,
                used |-> 0, done |-> [i \in Slots |-> 0], deviceUsed |-> 0, seen |-> 0]
        /\ e = [ring |-> [i \in Slots |-> 0], available |-> 0,
                used |-> 0, done |-> [i \in Slots |-> 0], deviceUsed |-> 0, seen |-> 0]
    BY Zenon, <1>1 DEF NewAdapter, NewQueue
  <1>3. 0 \in Buffers /\ 0 \in Indices /\ RxBuffers \in Indices
    BY Sizes DEF Buffers, Indices
  <1>4. q \in Queues
    <2>1. [i \in Slots |-> IF i < RxBuffers THEN i ELSE 0] \in [Slots -> Buffers]
      BY <1>3, Sizes DEF Slots, Buffers
    <2>2. [i \in Slots |-> 0] \in [Slots -> Buffers]
      BY Zenon, <1>3
    <2> QED
      BY Zenon, <1>2, <1>3, <2>1, <2>2 DEF Queues
  <1>5. e \in Queues
    <2>1. [i \in Slots |-> 0] \in [Slots -> Buffers]
      BY Zenon, <1>3
    <2> QED
      BY Zenon, <1>2, <1>3, <2>1 DEF Queues
  <1>6. /\ Pending(q) = 0 /\ Pending(e) = 0
        /\ (0 + RxBuffers) % IndexMod = RxBuffers /\ (0 + 0) % IndexMod = 0
    BY <1>2, Sizes DEF Pending
  <1>7. \A i \in Buffers : Circulating(q, i) = i
    <2>1. TAKE i \in Buffers
    <2>2. i \in Slots /\ i < RxBuffers /\ i >= 0 /\ SlotAt(0, i) = i
      BY Sizes DEF Buffers, Slots, SlotAt
    <2>3. Circulating(q, i) = q.ring[SlotAt(0, i)]
      BY <1>2, <1>6, <2>2, Sizes DEF Circulating, Buffers
    <2> QED
      BY Zenon, <1>2, <2>2, <2>3
  <1>8. RxOK(q)
    BY <1>2, <1>4, <1>6, <1>7, Sizes DEF RxOK
  <1>9. TxOK(e, FALSE)
    BY <1>2, <1>5, <1>6 DEF TxOK
  <1>10. /\ n.busy = FALSE /\ n.rxBuffer = [b \in Buffers |-> NoFrame]
         /\ n = [rx |-> n.rx, tx |-> n.tx, rxBuffer |-> n.rxBuffer, txBuffer |-> n.txBuffer,
                 busy |-> n.busy]
    BY Zenon DEF NewAdapter, Buffers
  <1> QED
    BY Zenon, <1>1, <1>6, <1>8, <1>9, <1>10 DEF NicOK

\* Stack::new, with a DHCP client that is off or has started.
LEMMA NewStackIs ==
    ASSUME NEW k, k = NewStack \/ k = [NewStack EXCEPT !.dhcp = "Discovering"], NEW n, n = NewAdapter,
           NEW p, p = NewPeer, NEW w, w = {}
    PROVE  /\ NetOK(k, n, w, p, SeqMod, "boot", 0)
           /\ k = [NewStack EXCEPT !.dhcp = "Discovering"] => k.dhcp = "Discovering"
  <1>1. NicOK(n) /\ n.busy = FALSE /\ Pending(n.rx) = 0
    BY Zenon, NewAdapterIs
  <1>2. /\ k.configured = FALSE /\ k.dhcp \in {"Idle", "Discovering"} /\ k.dns.result = 0
        /\ k.tcp.state = "Closed" /\ k.tcp.pendingLen = 0
        /\ k = [NewStack EXCEPT !.dhcp = "Discovering"] => k.dhcp = "Discovering"
    BY DEF NewStack, NewDns, NewTcp
  <1>3. StackOK(k)
    <2>1. /\ k = [configured |-> k.configured, ip |-> k.ip, gateway |-> k.gateway,
                  dnsServer |-> k.dnsServer, arp |-> k.arp, arpNext |-> k.arpNext,
                  dhcp |-> k.dhcp, offered |-> k.offered, server |-> k.server,
                  dhcpRetries |-> k.dhcpRetries, udpLen |-> k.udpLen, dns |-> k.dns, tcp |-> k.tcp]
          /\ k.dns = NewDns /\ k.tcp = NewTcp
      BY DEF NewStack
    <2>2. PICK dns, tcp : dns = NewDns /\ tcp = NewTcp
      BY Zenon
    <2>3. dns = [pending |-> dns.pending, id |-> dns.id, result |-> dns.result]
      BY Zenon, <2>2 DEF NewDns
    <2>4. tcp = [state |-> tcp.state, sequence |-> tcp.sequence,
                 acknowledgement |-> tcp.acknowledgement, pendingLen |-> tcp.pendingLen,
                 pendingSequence |-> tcp.pendingSequence, retries |-> tcp.retries,
                 receivedLen |-> tcp.receivedLen, remote |-> tcp.remote]
      BY Zenon, <2>2 DEF NewTcp
    <2>5. k.dns = dns /\ k.tcp = tcp
      BY Zenon, <2>1, <2>2
    <2> QED
      BY Zenon, <1>2, <2>1, <2>3, <2>4, <2>5 DEF StackOK
  <1>4. UnreadOK(n, w)
    BY <1>1 DEF UnreadOK
  <1>5. LeaseOK(k, n, w, "boot")
    BY Zenon, <1>1, <1>2 DEF LeaseOK
  <1>6. TcpOK(k.tcp, n, w, p, SeqMod, 0)
    <2>1. p.state = "Listen" /\ SeqMod \in 0 .. SeqMod
      BY StackAssumption DEF NewPeer
    <2> QED
      BY <1>1, <1>2, <2>1 DEF TcpOK
  <1> QED
    BY Zenon, <1>1, <1>2, <1>3, <1>4, <1>5, <1>6 DEF NetOK, DnsOK
\* A frame is with the device, and none is to be read.
Waiting(s) == s.nic.busy /\ HasAvailable(s.nic.tx) /\ Pending(s.nic.rx) = 0

\* A free transmitter takes the frame.
LEMMA SendWaits ==
    ASSUME NEW s, Shape(s), NicOK(s.nic), Pending(s.nic.rx) = 0, ~s.nic.busy \/ HasUsed(s.nic.tx),
           NEW frame, NEW t, t = Send(s, frame)
    PROVE  Waiting(t)
  <1>1. PICK n, m : n = s.nic /\ m = Transmitted(n, frame)
    BY Zenon
  <1>2. t.nic = m
    BY Zenon, <1>1 DEF Send, Shape
  <1>3. NicStep(n, m, {frame}) /\ (~n.busy \/ HasUsed(n.tx) => CanTransmit(n))
        /\ (CanTransmit(n) => m.busy /\ HasAvailable(m.tx))
    BY Zenon, <1>1, TransmittedIs
  <1>4. m.rx = n.rx /\ m.busy /\ HasAvailable(m.tx)
    BY Zenon, <1>1, <1>3 DEF NicStep
  <1> QED
    BY Zenon, <1>1, <1>2, <1>4 DEF Waiting

\* A device that has received nothing unread has buffers.
LEMMA BuffersThere ==
    ASSUME NEW q, RxOK(q), Pending(q) = 0
    PROVE  HasAvailable(q)
  <1>1. PICK a, M, b : a = q.used /\ M = IndexMod /\ b = RxBuffers
    BY Zenon
  <1>2. /\ a \in 0 .. M - 1 /\ M \in Nat \ {0} /\ b \in 1 .. M - 1
        /\ q.seen = q.deviceUsed /\ q.available = (a + b) % M
    BY <1>1, Sizes DEF RxOK, Queues, Indices
  <1>3. q.deviceUsed = (a + 0) % M
    BY Zenon, <1>1, PendingIs DEF RxOK
  <1>4. (a + b) % M = IF a + b >= M THEN a + b - M ELSE a + b
    BY <1>2
  <1>5. (a + 0) % M = a
    BY <1>2
  <1> QED
    BY <1>2, <1>3, <1>4, <1>5 DEF HasAvailable

\* The device sends the frame it has and receives f, and the driver reads that.
Exchanged(s, f) == [s EXCEPT !.nic = Received(DeviceStored(DeviceSent(@), f))]

\* What is left of such an exchange.
LEMMA ExchangeIs ==
    ASSUME NEW s, NEW w, NEW p, NEW first, NEW ses, Good(s, w, p, first, ses, 0), Waiting(s),
           NEW f, f \in w \/ f.kind \in NoiseKinds,
           NEW t, t = Exchanged(s, f)
    PROVE  /\ Good(t, w, p, first, ses, 0) /\ t.stack = s.stack
           /\ HasUsed(t.nic.tx) /\ Pending(t.nic.rx) = 0
  <1>1. PICK k, n, a, b, m : /\ k = s.stack /\ n = s.nic /\ a = DeviceSent(n)
                             /\ b = DeviceStored(a, f) /\ m = Received(b)
    BY Zenon
  <1>2. /\ Shape(s) /\ NetOK(k, n, w, p, first, ses, 0)
        /\ n.busy /\ HasAvailable(n.tx) /\ Pending(n.rx) = 0
    BY Zenon, <1>1 DEF Good, Waiting
  <1>3. t.stack = k /\ t.nic = m /\ Shape(t)
    BY Zenon, <1>1, <1>2 DEF Shape, Exchanged
  <1>4. PICK none : none = 0
    BY Zenon
  <1>5. none \in Int /\ none + 1 \in Int /\ (none + 1) - 1 = none
    BY <1>4
  <1>6. NetOK(k, a, w, p, first, ses, none) /\ NicOK(n)
    <2>1. NicOK(n)
      BY Zenon, <1>2 DEF NetOK
    <2>2. NetOK(k, n, w, p, first, ses, none)
      BY Zenon, <1>2, <1>4
    <2> QED
      BY Zenon, <1>1, <1>2, <1>5, <2>1, <2>2, NetSent
  <1>7. NicOK(a) /\ a.rx = n.rx /\ HasUsed(a.tx) /\ UnreadOK(a, w)
    BY <1>1, <1>2, <1>6, SentIs DEF NetOK
  <1>8. HasAvailable(a.rx)
    BY Zenon, <1>2, <1>6, <1>7, BuffersThere DEF NicOK
  <1>9. NetOK(k, b, w, p, first, ses, none + 1)
    BY Zenon, <1>1, <1>5, <1>6, <1>8, NetStored
  <1>10. /\ NicOK(b) /\ b.tx = a.tx /\ Pending(b.rx) = Pending(a.rx) + 1 /\ HasUsed(b.rx)
         /\ UnreadOK(b, w)
    BY <1>1, <1>7, <1>8, StoredIs
  <1>11. NetOK(k, m, w, p, first, ses, (none + 1) - 1)
    BY Zenon, <1>1, <1>5, <1>9, <1>10, NetReceived
  <1>12. Pending(m.rx) = Pending(b.rx) - 1
    BY Zenon, <1>1, <1>10, ReceivedIs
  <1>13. m.tx = b.tx
    BY Zenon, <1>1, <1>10 DEF Received, NicOK
  <1>14. HasUsed(m.tx) /\ Pending(m.rx) = 0
    <2>1. Pending(a.rx) = 0
      BY Zenon, <1>2, <1>7
    <2> QED
      BY <1>7, <1>10, <1>12, <1>13, <2>1
  <1>15. NetOK(k, m, w, p, first, ses, 0)
    BY Zenon, <1>4, <1>5, <1>11
  <1> QED
    BY Zenon, <1>1, <1>3, <1>14, <1>15 DEF Good

\* The loop turns once without a frame.
LEMMA IdledIs ==
    ASSUME NEW s, NEW w, NEW p, NEW first, NEW ses, NEW spent, Good(s, w, p, first, ses, spent),
           NEW t, t = Idled(s)
    PROVE  /\ Good(t, w, p, first, ses, spent) /\ t.stack = s.stack /\ t.nic.rx = s.nic.rx
           /\ HasUsed(s.nic.tx) => ~t.nic.busy
  <1>1. PICK m, none : m = DriverPoll(s.nic) /\ none = {}
    BY Zenon
  <1>2. Shape(s) /\ NetOK(s.stack, s.nic, w, p, first, ses, spent) /\ NicOK(s.nic)
    BY Zenon DEF Good, NetOK
  <1>3. t.stack = s.stack /\ t.nic = m /\ Shape(t)
    BY Zenon, <1>1, <1>2 DEF Shape, Idled
  <1>4. /\ NicOK(m) /\ m.rx = s.nic.rx /\ m.rxBuffer = s.nic.rxBuffer
        /\ m.txBuffer = s.nic.txBuffer /\ (m.busy => s.nic.busy) /\ (HasUsed(s.nic.tx) => ~m.busy)
    BY Zenon, <1>1, <1>2, DriverPollIs
  <1>5. NicStep(s.nic, m, none)
    BY Zenon, <1>4 DEF NicStep
  <1>6. NetOK(s.stack, m, w, p, first, ses, spent)
    <2>1. \A f \in none : FrameOK(f, s.stack, p, first)
      BY Zenon, <1>1
    <2> QED
      BY Zenon, <1>2, <1>5, <2>1, NetSends
  <1> QED
    BY Zenon, <1>3, <1>4, <1>6 DEF Good
\* A server has answered.
LEMMA GoodOnWire ==
    ASSUME NEW s, NEW w, NEW p, NEW first, NEW ses, NEW spent, Good(s, w, p, first, ses, spent),
           NEW f, f.kind = "dhcp", GrantOK(f, s.stack), NEW v, v = w \cup {f}
    PROVE  Good(s, v, p, first, ses, spent)
  <1>1. PICK d : d = {f}
    BY Zenon
  <1>2. NetOK(s.stack, s.nic, w, p, first, ses, spent) /\ Shape(s)
        /\ TcpOK(s.stack.tcp, s.nic, w, p, first, spent)
    BY Zenon DEF Good, NetOK
  <1>3. /\ \A g \in d : g.kind # "tcp"
        /\ \A g \in d : g.kind \in AnswerKinds /\ GrantOK(g, s.stack)
        /\ v = w \cup d
    BY Zenon, <1>1 DEF AnswerKinds
  <1>4. TcpOK(s.stack.tcp, s.nic, v, p, first, spent)
    BY Zenon, <1>2, <1>3, TcpPlain
  <1>5. NetOK(s.stack, s.nic, v, p, first, ses, spent)
    BY Zenon, <1>2, <1>3, <1>4, NetWorld
  <1> QED
    BY Zenon, <1>2, <1>5 DEF Good

\* init: DISCOVER is with the device.
LEMMA BootedIs ==
    ASSUME NEW t, t = Booted, NEW p, p = NewPeer, NEW w, w = {}
    PROVE  Good(t, w, p, SeqMod, "boot", 0) /\ Waiting(t) /\ t.stack.dhcp = "Discovering"
  <1>1. PICK k, n, f : /\ k = [NewStack EXCEPT !.dhcp = "Discovering"] /\ n = NewAdapter
                       /\ f = DhcpPayload("discover", Zero, Zero)
    BY Zenon
  <1>2. PICK s : s = [stack |-> k, nic |-> n, ok |-> TRUE]
    BY Zenon
  <1>3. t = Send(s, f)
    BY Zenon, <1>1, <1>2 DEF Booted, SendDhcpDiscover
  <1>4. NetOK(k, n, w, p, SeqMod, "boot", 0) /\ k.dhcp = "Discovering"
    BY Zenon, <1>1, NewStackIs
  <1>5. NicOK(n) /\ n.busy = FALSE /\ Pending(n.rx) = 0
    BY Zenon, <1>1, NewAdapterIs
  <1>6. s.stack = k /\ s.nic = n /\ Shape(s)
    BY Zenon, <1>2 DEF Shape
  <1>7. Good(s, w, p, SeqMod, "boot", 0)
    BY Zenon, <1>4, <1>6 DEF Good
  <1>8. FrameOK(f, s.stack, p, SeqMod)
    <2>1. f.kind = "dhcp" /\ f.type = "discover"
      BY Zenon, <1>1 DEF DhcpPayload
    <2> QED
      BY Zenon, <2>1 DEF FrameOK, RequestOK
  <1>9. Good(t, w, p, SeqMod, "boot", 0) /\ t.stack = s.stack
    BY <1>3, <1>7, <1>8, GoodSend
  <1>10. Waiting(t)
    BY Zenon, <1>3, <1>5, <1>6, SendWaits
  <1> QED
    BY Zenon, <1>4, <1>6, <1>9, <1>10

\* The offer is taken, and REQUEST is with the device.
LEMMA OfferTaken ==
    ASSUME NEW s, NEW w, NEW p, NEW first, Good(s, w, p, first, "boot", 0), Waiting(s),
           s.stack.dhcp = "Discovering", NEW f \in w, NEW server,
           f.kind = "dhcp", f.type = "offer", f.server = server, NEW t, t = Answered(s, f)
    PROVE  /\ Good(t, w, p, first, "boot", 0) /\ Waiting(t)
           /\ t.stack.dhcp = "Requesting" /\ t.stack.server = server
  <1>1. PICK u : u = Exchanged(s, f)
    BY Zenon
  <1>2. t = HandleFrame(u, f)
    BY Zenon, <1>1 DEF Answered, Exchanged
  <1>3. /\ Good(u, w, p, first, "boot", 0) /\ u.stack = s.stack
        /\ HasUsed(u.nic.tx) /\ Pending(u.nic.rx) = 0
    BY <1>1, ExchangeIs
  <1>4. f.kind = "dhcp" /\ f.type = "offer" /\ f.server = server
    OBVIOUS
  <1>5. Good(t, w, p, first, "boot", 0)
    <2>1. PICK ses, spent : ses = "boot" /\ spent = 0
      BY Zenon
    <2> QED
      BY <1>2, <1>3, <1>4, <2>1, GoodPlain
  <1>6. Shape(u) /\ StackOK(u.stack) /\ NicOK(u.nic) /\ u.stack.configured = FALSE
        /\ u.stack.dhcp = "Discovering"
    BY Zenon, <1>3 DEF Good, NetOK, LeaseOK, StackOK
  <1>7. t = Offered(u, f)
    <2>1. Accepts(u.stack, f)
      BY Zenon, <1>4, <1>6 DEF Accepts
    <2> QED
      BY Zenon, <1>2, <1>4, <1>6, <2>1 DEF HandleFrame, HandleDhcp
  <1>8. PICK address : address = f.address
    BY Zenon
  <1>9. PICK r : r = [u EXCEPT !.stack.offered = address, !.stack.server = server,
                               !.stack.dhcp = "Requesting", !.stack.dhcpRetries = 0]
    BY Zenon
  <1>10. PICK g : g = DhcpPayload("request", r.stack.server, r.stack.offered)
    BY Zenon
  <1>11. t = Send(r, g)
    BY Zenon, <1>4, <1>6, <1>7, <1>8, <1>9, <1>10 DEF Offered, SendDhcpRequest
  <1>12. /\ Shape(r) /\ r.nic = u.nic /\ r.stack.dhcp = "Requesting" /\ r.stack.server = server
    BY Zenon, <1>6, <1>9 DEF Shape, StackOK
  <1>13. Waiting(t)
    BY Zenon, <1>3, <1>6, <1>11, <1>12, SendWaits
  <1>14. t.stack = r.stack
    BY Zenon, <1>11, <1>12 DEF Send, Shape
  <1> QED
    BY Zenon, <1>5, <1>12, <1>13, <1>14

\* The lease is acknowledged.
LEMMA AckTakenIs ==
    ASSUME NEW s, NEW w, NEW p, NEW first, Good(s, w, p, first, "boot", 0), Waiting(s),
           s.stack.dhcp = "Requesting", NEW f \in w,
           f.kind = "dhcp", f.type = "ack", NEW t, t = Answered(s, f)
    PROVE  /\ Good(t, w, p, first, "boot", 0) /\ HasUsed(t.nic.tx) /\ Pending(t.nic.rx) = 0
           /\ t.stack.dhcp = "Bound"
  <1>1. PICK u : u = Exchanged(s, f)
    BY Zenon
  <1>2. t = HandleFrame(u, f)
    BY Zenon, <1>1 DEF Answered, Exchanged
  <1>3. /\ Good(u, w, p, first, "boot", 0) /\ u.stack = s.stack
        /\ HasUsed(u.nic.tx) /\ Pending(u.nic.rx) = 0
    BY <1>1, ExchangeIs
  <1>4. f.kind = "dhcp" /\ f.type = "ack"
    OBVIOUS
  <1>5. Good(t, w, p, first, "boot", 0)
    <2>1. PICK ses, spent : ses = "boot" /\ spent = 0
      BY Zenon
    <2> QED
      BY <1>2, <1>3, <1>4, <2>1, GoodPlain
  <1>6. Shape(u) /\ StackOK(u.stack) /\ u.stack.configured = FALSE /\ u.stack.dhcp = "Requesting"
    BY Zenon, <1>3 DEF Good, NetOK, LeaseOK, StackOK
  <1>7. t = Acknowledged(u, f)
    <2>1. Accepts(u.stack, f)
      BY Zenon, <1>4, <1>6 DEF Accepts
    <2> QED
      BY Zenon, <1>2, <1>4, <1>6, <2>1 DEF HandleFrame, HandleDhcp
  <1>8. t.nic = u.nic /\ t.stack.dhcp = "Bound"
    <2>1. PICK address, name, k : address = f.address /\ name = f.server /\ k = u.stack
      BY Zenon
    <2>2. t = [u EXCEPT !.stack.ip = address, !.stack.gateway = name, !.stack.dnsServer = name,
                        !.stack.configured = TRUE, !.stack.dhcp = "Bound"]
      BY Zenon, <1>6, <1>7, <2>1 DEF Acknowledged
    <2>3. t.nic = u.nic /\ t.stack = [k EXCEPT !.ip = address, !.gateway = name, !.dnsServer = name,
                                              !.configured = TRUE, !.dhcp = "Bound"]
      <3>1. t.nic = u.nic
        BY Zenon, <1>6, <2>2 DEF Shape
      <3>2. "stack" \in DOMAIN u
        BY <1>6 DEF Shape
      <3> QED
        BY Zenon, <2>1, <2>2, <3>1, <3>2
    <2>4. "dhcp" \in DOMAIN k
      BY Zenon, <1>6, <2>1 DEF StackOK
    <2> QED
      BY Zenon, <2>3, <2>4
  <1> QED
    BY Zenon, <1>3, <1>5, <1>8
\* What the exchange left on the wire is gone: the lease counts as one of a session
\* after boot.
LEMMA LeasedLater ==
    ASSUME NEW s, NEW w, NEW p, NEW first, Good(s, w, p, first, "boot", 0), Pending(s.nic.rx) = 0,
           s.stack.dhcp = "Bound", first = SeqMod, NEW ses, ses # "boot", NEW v, v = {}
    PROVE  Good(s, v, p, first, ses, 0)
  <1>1. /\ Shape(s) /\ StackOK(s.stack) /\ NicOK(s.nic) /\ DnsOK(s.stack)
        /\ LeaseOK(s.stack, s.nic, w, "boot") /\ TcpOK(s.stack.tcp, s.nic, w, p, first, 0)
    BY Zenon DEF Good, NetOK
  <1>2. UnreadOK(s.nic, v)
    BY DEF UnreadOK
  <1>3. LeaseOK(s.stack, s.nic, v, ses)
    BY Zenon, <1>1 DEF LeaseOK
  <1>4. TcpOK(s.stack.tcp, s.nic, v, p, first, 0)
    BY Zenon, <1>1 DEF TcpOK
  <1> QED
    BY Zenon, <1>1, <1>2, <1>3, <1>4 DEF Good, NetOK

\* The state with a lease.
LEMMA LeasedIs ==
    ASSUME NEW t, t = Leased, NEW p, p = NewPeer, NEW w, w = {}, NEW ses, ses # "boot"
    PROVE  Good(t, w, p, SeqMod, ses, 0) /\ ~t.nic.busy /\ Pending(t.nic.rx) = 0
  <1>1. PICK server : server = "s1"
    BY Zenon
  <1>2. PICK offer, ack, one, two, first :
              /\ offer = DhcpAnswer("offer", server, AddressOf(server))
              /\ ack = DhcpAnswer("ack", server, AddressOf(server))
              /\ one = w \cup {offer} /\ two = one \cup {ack} /\ first = SeqMod
    BY Zenon
  <1>3. PICK a, b, c : a = Booted /\ b = Answered(a, offer) /\ c = Answered(b, ack)
    BY Zenon
  <1>4. t = Idled(c)
    BY Zenon, <1>1, <1>2, <1>3 DEF Leased
  <1>5. Good(a, w, p, first, "boot", 0) /\ Waiting(a) /\ a.stack.dhcp = "Discovering"
    BY Zenon, <1>2, <1>3, BootedIs
  <1>6. /\ offer.kind = "dhcp" /\ offer.type = "offer" /\ offer.server = server
        /\ offer.to = AddressOf(server)
        /\ ack.kind = "dhcp" /\ ack.type = "ack" /\ ack.server = server
        /\ ack.to = AddressOf(server)
    BY Zenon, <1>2 DEF DhcpAnswer
  <1>7. GrantOK(offer, a.stack)
    BY Zenon, <1>2, <1>6 DEF GrantOK
  <1>8. Good(a, one, p, first, "boot", 0) /\ offer \in one
    BY Zenon, <1>2, <1>5, <1>6, <1>7, GoodOnWire
  <1>9. /\ Good(b, one, p, first, "boot", 0) /\ Waiting(b)
        /\ b.stack.dhcp = "Requesting" /\ b.stack.server = server
    BY <1>3, <1>5, <1>6, <1>8, OfferTaken
  <1>10. GrantOK(ack, b.stack)
    BY Zenon, <1>2, <1>6, <1>9 DEF GrantOK
  <1>11. Good(b, two, p, first, "boot", 0) /\ ack \in two
    BY Zenon, <1>2, <1>6, <1>9, <1>10, GoodOnWire
  <1>12. /\ Good(c, two, p, first, "boot", 0) /\ HasUsed(c.nic.tx) /\ Pending(c.nic.rx) = 0
         /\ c.stack.dhcp = "Bound"
    BY <1>3, <1>6, <1>9, <1>11, AckTakenIs
  <1>13. Good(c, w, p, first, ses, 0)
    BY Zenon, <1>2, <1>12, LeasedLater
  <1>14. /\ Good(t, w, p, first, ses, 0) /\ ~t.nic.busy /\ t.nic.rx = c.nic.rx
    BY <1>4, <1>12, <1>13, IdledIs
  <1> QED
    BY Zenon, <1>2, <1>12, <1>14

\* The state in which the gateway is also known.
LEMMA ResolvedIs ==
    ASSUME NEW t, t = Resolved, NEW p, p = NewPeer, NEW w, w = {}, NEW ses, ses # "boot"
    PROVE  Good(t, w, p, SeqMod, ses, 0)
  <1>1. PICK server, first, none : server = "s1" /\ first = SeqMod /\ none = 0
    BY Zenon
  <1>2. PICK f, g : f = ArpFrame("request", server) /\ g = EthernetArp("reply", server, AddressOf(server))
    BY Zenon
  <1>3. PICK a, b, u, c : /\ a = Leased /\ b = Send(a, f) /\ u = Exchanged(b, g)
                          /\ c = HandleFrame(u, g)
    BY Zenon
  <1>4. t = Idled(c)
    BY Zenon, <1>1, <1>2, <1>3 DEF Resolved, Answered, Exchanged
  <1>5. Good(a, w, p, first, ses, none) /\ ~a.nic.busy /\ Pending(a.nic.rx) = 0
    BY <1>1, <1>3, LeasedIs
  <1>6. FrameOK(f, a.stack, p, first)
    <2>1. f.kind = "arp"
      BY Zenon, <1>2 DEF ArpFrame
    <2> QED
      BY <2>1, PlainFrame
  <1>7. Good(b, w, p, first, ses, none)
    BY Zenon, <1>3, <1>5, <1>6, GoodSend
  <1>8. Waiting(b)
    <2>1. Shape(a) /\ NicOK(a.nic)
      BY Zenon, <1>5 DEF Good, NetOK
    <2> QED
      BY Zenon, <1>3, <1>5, <2>1, SendWaits
  <1>9. g.kind = "arp" /\ g.kind \in NoiseKinds
    BY Zenon, <1>2 DEF EthernetArp, NoiseKinds
  <1>10. Good(u, w, p, first, ses, none)
    BY Zenon, <1>1, <1>3, <1>7, <1>8, <1>9, ExchangeIs
  <1>11. Good(c, w, p, first, ses, none)
    BY Zenon, <1>3, <1>9, <1>10, GoodPlain
  <1>12. Good(t, w, p, first, ses, none)
    BY Zenon, <1>4, <1>11, IdledIs
  <1> QED
    BY Zenon, <1>1, <1>12

\* Every initial state, with and without an adapter.
LEMMA NetInitInv ==
    ASSUME Init
    PROVE  NetInv
  <1>1. PICK p, w, spent : p = NewPeer /\ w = {} /\ spent = Spent(frames, commands)
    BY Zenon
  <1>2. /\ wire = w /\ peer = p /\ isn = SeqMod /\ frames = MaxFrames /\ commands = MaxCommands
        /\ session \in {"boot", "names", "stream", "datagrams"} /\ pc # "fin"
    BY Zenon, <1>1 DEF Init
  <1>3. /\ spent = 0 /\ frames \in 0 .. MaxFrames /\ commands \in 0 .. MaxCommands
    BY <1>1, <1>2, StackAssumption DEF Spent
  <1>4. PeerShape(p)
    BY Zenon, <1>1 DEF PeerShape, NewPeer
  <1>5. NetOK(stack, nic, w, p, SeqMod, session, 0)
    <2>1. \/ session = "boot" /\ \E t : t = Booted /\ stack = t.stack /\ nic = t.nic
          \/ session # "boot" /\ \E t : t = Leased /\ stack = t.stack /\ nic = t.nic
          \/ session # "boot" /\ \E t : t = Resolved /\ stack = t.stack /\ nic = t.nic
          \/ session = "boot" /\ stack = NewStack /\ nic = NewAdapter
      BY Zenon DEF Init
    <2>2. CASE session = "boot" /\ \E t : t = Booted /\ stack = t.stack /\ nic = t.nic
      BY Zenon, <1>1, <2>2, BootedIs DEF Good
    <2>3. CASE session # "boot" /\ \E t : t = Leased /\ stack = t.stack /\ nic = t.nic
      BY Zenon, <1>1, <2>3, LeasedIs DEF Good
    <2>4. CASE session # "boot" /\ \E t : t = Resolved /\ stack = t.stack /\ nic = t.nic
      BY Zenon, <1>1, <2>4, ResolvedIs DEF Good
    <2>5. CASE session = "boot" /\ stack = NewStack /\ nic = NewAdapter
      BY Zenon, <1>1, <2>5, NewStackIs
    <2> QED
      BY Zenon, <2>1, <2>2, <2>3, <2>4, <2>5
  <1> QED
    BY Zenon, <1>1, <1>2, <1>3, <1>4, <1>5 DEF NetInv, PeerShape
-----------------------------------------------------------------------------
(* The theorems *)

\* Every step keeps the invariant and takes a payload off only when it was received.
LEMMA NetNextInv ==
    ASSUME NetInv, [Next]_vars
    PROVE  NetInv' /\ AckRight(stack.tcp, stack'.tcp, peer, isn)
  <1>1. CASE UNCHANGED vars
    <2>1. NetInv'
      BY Zenon, <1>1 DEF NetInv, vars
    <2>2. stack' = stack
      BY Zenon, <1>1 DEF vars
    <2> QED
      BY Zenon, <2>1, <2>2, AckKept
  <1>2. CASE Loop
    <2>1. \/ Receive
          \/ Fin \/ ReceiveDone \/ \E late \in BOOLEAN : PollDhcp(late) \/ PollDns(late) \/ PollTcp(late)
          \/ NoCommand \/ UdpReceive \/ TcpReceive \/ ReceivePacket
          \/ TransmitPacket \/ Resolve \/ \E d \in {Peer, stack.gateway} : Ping(d) \/ UdpSend(d)
          \/ (\E n \in ClientIsns : TcpConnect(n)) \/ TcpSend(1)
      BY Zenon, <1>2 DEF Loop
    <2> QED
      BY Zenon, <2>1, ReceiveKeeps, PollKeeps, ReadKeeps, DatagramKeeps, SocketKeeps
  <1>3. CASE Network
    <2>1. \/ DeviceReceive \/ DeviceTransmit \/ \E length, flags : PeerSend(length, flags)
      BY Zenon, <1>3 DEF Network
    <2> QED
      BY Zenon, <2>1, DeviceReceiveKeeps, DeviceTransmitKeeps, PeerSendKeeps
  <1>4. CASE Absent
    BY Zenon, <1>1, <1>4 DEF Absent
  <1> QED
    BY Zenon, <1>1, <1>2, <1>3, <1>4 DEF Next

\* NetInv is an invariant of the main loop, the device, the servers and the peer.
LEMMA NetInvHolds == Spec => []NetInv
  <1>1. Init => NetInv
    BY Zenon, NetInitInv
  <1>2. NetInv /\ [Next]_vars => NetInv'
    BY Zenon, NetNextInv
  <1> QED
    BY <1>1, <1>2, PTL DEF Spec

\* BuffersOwned: each receive buffer is once either with the device or with the
\* driver, and the transmit buffer is with the device exactly while the driver is
\* busy, for every queue size and width of the indices (Queue, Runtime::receive).
THEOREM BuffersStayOwned == Spec => []BuffersOwned
  <1>1. NetInv => BuffersOwned
    <2> SUFFICES ASSUME NetInv PROVE BuffersOwned
      BY Zenon
    <2>1. PICK q, e, busy : q = nic.rx /\ e = nic.tx /\ busy = nic.busy
      BY Zenon
    <2>2. RxOK(q) /\ TxOK(e, busy)
      BY Zenon, <2>1 DEF NetInv, NetOK, NicOK
    <2>3. PICK given, unread : /\ given = Between(q.ring, q.seen, q.available)
                               /\ unread = Between(q.done, q.used, q.deviceUsed)
      BY Zenon
    <2>4. /\ Values(given) \cup Values(unread) = 0 .. RxBuffers - 1
          /\ Len(given) + Len(unread) = RxBuffers
      BY Zenon, <2>2, <2>3, BuffersFromNic DEF Buffers
    <2>5. (e.available - e.used) % IndexMod = IF busy THEN 1 ELSE 0
      <3>1. PICK one : one = IF busy THEN 1 ELSE 0
        BY Zenon
      <3>2. /\ one \in 0 .. QueueSize /\ e.used \in Indices
            /\ e.available = (e.used + one) % IndexMod
        BY <2>2, <3>1, Sizes DEF TxOK, Queues
      <3>3. (((e.used + one) % IndexMod) - e.used) % IndexMod = one
        BY Zenon, <3>2, IndexAdd
      <3> QED
        BY Zenon, <3>1, <3>2, <3>3
    <2> QED
      BY Zenon, <2>1, <2>3, <2>4, <2>5 DEF BuffersOwned
  <1> QED
    BY <1>1, NetInvHolds, PTL

\* LeaseFromServer: the address in use was acknowledged by the server whose offer
\* was taken, and gateway and resolver are of that lease (handle_dhcp).
THEOREM LeaseIsFromServer == Spec => []LeaseFromServer
  <1>1. NetInv => LeaseFromServer
    BY Zenon DEF NetInv, NetOK, LeaseOK, LeaseFromServer
  <1> QED
    BY <1>1, NetInvHolds, PTL

\* AnswerMatchesQuery: a resolved address comes from an answer with the identifier
\* of the last query (handle_dns).
THEOREM AnswersMatchQueries == Spec => []AnswerMatchesQuery
  <1>1. NetInv => AnswerMatchesQuery
    BY Zenon DEF NetInv, NetOK, DnsOK, AnswerMatchesQuery
  <1> QED
    BY <1>1, NetInvHolds, PTL

\* AckedWasReceived: on a connection whose numbers have not wrapped, a payload stops
\* being retransmitted only when the peer has it (handle_tcp).
THEOREM AcknowledgedIsReceived == Spec => AckedWasReceived
  <1>1. NetInv /\ [Next]_vars =>
          [/\ TcpWaiting(stack.tcp) /\ stack.tcp.state = "Established"
           /\ stack'.tcp.state = "Established" /\ stack'.tcp.pendingLen = 0
           /\ PendingEnd(stack.tcp) > isn
           => peer.rcv = PendingEnd(stack.tcp)]_vars
    BY Zenon, NetNextInv DEF AckRight
  <1> QED
    BY <1>1, NetInvHolds, PTL DEF Spec, AckedWasReceived
=============================================================================
