--------------------------- MODULE StorageProofs ---------------------------
(***************************************************************************)
(* Proofs about what is on a disk and what outlives a reboot: the block    *)
(* layer (BlockQueue.tla), for every depth of the queue, size of the disk  *)
(* and set of calls, and the warm-reboot log (WarmLog.tla), for every      *)
(* number of records and every bound on the sequence numbers.              *)
(***************************************************************************)
EXTENDS BlockQueue, WarmLog, WellFoundedInduction, TLAPS

(* The block layer *)

\* A nonempty set of numbers has a least element.
LEMMA LeastNumber ==
    ASSUME NEW F \in SUBSET Nat, F # {}
    PROVE  \E s \in F : \A x \in F : s <= x
  <1>1. \E s \in F : \A x \in F : ~(<<x, s>> \in OpToRel(<, Nat))
    <2>1. IsWellFoundedOn(OpToRel(<, Nat), Nat)
      BY Zenon, NatLessThanWellFounded
    <2>2. PICK R : R = OpToRel(<, Nat)
      BY Zenon
    <2> QED
      BY Zenon, <2>1, <2>2, WFMin
  <1>2. PICK s \in F : \A x \in F : ~(<<x, s>> \in OpToRel(<, Nat))
    BY Zenon, <1>1
  <1>3. \A x \in F : ~(x < s)
    <2> TAKE x \in F
    <2>1. <<x, s>> \in Nat \X Nat
      BY Zenon
    <2> QED
      BY Zenon, <1>2, <2>1 DEF OpToRel
  <1> QED
    BY <1>3

\* What holds of 0 and goes from each number to the next holds of all.
LEMMA CountUp ==
    ASSUME NEW H \in SUBSET Nat, 0 \in H, \A n \in H : n + 1 \in H
    PROVE  H = Nat
  <1> SUFFICES ASSUME H # Nat PROVE FALSE
    BY Zenon
  <1>1. PICK F : F = Nat \ H
    BY Zenon
  <1>2. F \in SUBSET Nat /\ F # {}
    BY Zenon, <1>1
  <1>3. PICK s \in F : \A x \in F : s <= x
    BY Zenon, <1>2, LeastNumber
  <1>4. s \in Nat /\ s \notin H /\ s # 0
    BY Zenon, <1>1
  <1>5. s - 1 \in Nat /\ ~(s <= s - 1) /\ (s - 1) + 1 = s
    BY <1>4
  <1>6. s - 1 \in H
    BY Zenon, <1>1, <1>3, <1>5
  <1> QED
    BY Zenon, <1>4, <1>5, <1>6

-----------------------------------------------------------------------------
(* The block queue *)

PollStep(b, f, k) == IF k = 0 THEN b ELSE Process(f[k - 1], k)
PollRun(b, n, f) == f = [k \in 0 .. n |-> PollStep(b, f, k)]

\* poll_queue goes over the slots, one after the other.
LEMMA RunExists ==
    ASSUME NEW b, NEW n \in Nat
    PROVE  \E f : PollRun(b, n, f)
  <1>1. PICK H : H = {m \in Nat : \E f : PollRun(b, m, f)}
    BY Zenon
  <1>2. 0 \in H
    <2>1. PICK f : f = [k \in 0 .. 0 |-> b]
      BY Zenon
    <2>2. \A k \in 0 .. 0 : PollStep(b, f, k) = b
      BY DEF PollStep
    <2>3. PollRun(b, 0, f)
      BY Zenon, <2>1, <2>2 DEF PollRun
    <2> QED
      BY <1>1, <2>3
  <1>3. ASSUME NEW m \in H PROVE m + 1 \in H
    <2>1. m \in Nat /\ m + 1 \in Nat /\ m + 1 # 0 /\ (m + 1) - 1 = m
      BY <1>1
    <2>2. PICK f : PollRun(b, m, f)
      BY Zenon, <1>1
    <2>3. PICK g : g = [k \in 0 .. m + 1 |-> IF k = m + 1 THEN Process(f[m], m + 1) ELSE f[k]]
      BY Zenon
    <2>4. \A k \in 0 .. m + 1 : \/ k = m + 1
                                \/ k \in 0 .. m /\ k # m + 1
      BY <2>1
    <2>5. \A k \in 0 .. m : /\ k \in 0 .. m + 1 /\ k # m + 1
                            /\ k # 0 => k - 1 \in 0 .. m
      BY <2>1
    <2>6. \A k \in 0 .. m : g[k] = f[k]
      BY Zenon, <2>3, <2>5
    <2>7. \A k \in 0 .. m : f[k] = PollStep(b, f, k)
      BY Zenon, <2>2 DEF PollRun
    <2>8. \A k \in 0 .. m : f[k] = PollStep(b, g, k)
      BY Zenon, <2>5, <2>6, <2>7 DEF PollStep
    <2>9. m \in 0 .. m /\ m + 1 \in 0 .. m + 1
      BY <2>1
    <2>10. Process(f[m], m + 1) = PollStep(b, g, m + 1)
      BY Zenon, <2>1, <2>6, <2>9 DEF PollStep
    <2>11. \A k \in 0 .. m + 1 : g[k] = PollStep(b, g, k)
      BY Zenon, <2>3, <2>4, <2>8, <2>9, <2>10
    <2>12. PollRun(b, m + 1, g)
      <3>1. g = [k \in 0 .. m + 1 |-> g[k]]
        BY Zenon, <2>3
      <3> QED
        BY Zenon, <2>11, <3>1 DEF PollRun
    <2> QED
      BY Zenon, <1>1, <2>1, <2>12
  <1>4. H \in SUBSET Nat
    BY Zenon, <1>1
  <1>5. H = Nat
    BY Zenon, <1>2, <1>3, <1>4, CountUp
  <1> QED
    BY Zenon, <1>1, <1>5

LEMMA PollRuns ==
    ASSUME NEW b
    PROVE  \E f : /\ PollQueue(b) = f[Depth] /\ f[0] = b
                  /\ \A k \in 1 .. Depth : f[k] = Process(f[k - 1], k)
  <1>1. Depth \in Nat
    BY BlockAssumption
  <1>2. PICK f : f = CHOOSE run : run = [k \in 0 .. Depth |-> IF k = 0 THEN b ELSE Process(run[k - 1], k)]
    BY Zenon
  <1>3. f = [k \in 0 .. Depth |-> IF k = 0 THEN b ELSE Process(f[k - 1], k)]
    <2>1. \E run : run = [k \in 0 .. Depth |-> IF k = 0 THEN b ELSE Process(run[k - 1], k)]
      <3>1. PICK g : PollRun(b, Depth, g)
        BY Zenon, <1>1, RunExists
      <3> QED
        BY Zenon, <3>1 DEF PollRun, PollStep
    <2> QED
      BY Zenon, <1>2, <2>1
  <1>4. PollQueue(b) = f[Depth]
    BY Zenon, <1>2 DEF PollQueue
  <1>5. 0 \in 0 .. Depth /\ \A k \in 1 .. Depth : k \in 0 .. Depth /\ k # 0
    BY <1>1
  <1>6. f[0] = b /\ \A k \in 1 .. Depth : f[k] = Process(f[k - 1], k)
    BY Zenon, <1>3, <1>5
  <1> QED
    BY Zenon, <1>4, <1>6

\* What a poll makes of a request, and of the disk that the request finds.
Served(r, disk) ==
    IF r.state # "Queued" THEN r
    ELSE IF r.operation = "Write"
    THEN [EmptyRequest EXCEPT !.state = "Complete", !.operation = "Write"]
    ELSE [r EXCEPT !.state = "Complete", !.lba = 0, !.data = Loaded(disk, r.lba, Len(r.due))]
After(disk, r) ==
    IF r.state = "Queued" /\ r.operation = "Write" THEN Stored(disk, r.lba, r.data) ELSE disk

BlockOf(b, disk, queue) ==
    [ready |-> b.ready, readOnly |-> b.readOnly, disk |-> disk, queue |-> queue,
     partitions |-> b.partitions, submitted |-> b.submitted]
RequestShape(r) ==
    r = [state |-> r.state, operation |-> r.operation, lba |-> r.lba, data |-> r.data, due |-> r.due]

\* d[k] is the disk after the requests of the first k slots: a queued read is
\* due what it finds there, and behind the last queued request the disk is the
\* one that the submitted writes make.
DisksOK(b, d) ==
    /\ d[0] = b.disk
    /\ \A k \in 1 .. Depth : d[k] = After(d[k - 1], b.queue[k])
    /\ \A k \in 1 .. Depth :
          b.queue[k].state = "Queued" /\ b.queue[k].operation # "Write" =>
              b.queue[k].due = Loaded(d[k - 1], b.queue[k].lba, Len(b.queue[k].due))
    /\ \A k \in 0 .. Depth :
          (\A j \in 1 .. Depth : j > k => b.queue[j].state # "Queued") => d[k] = b.submitted

\* The inductive invariant.  Free slots are above the queued ones, so that
\* the order of the slots is that of submission.
QueueOK(b) ==
    /\ b = BlockOf(b, b.disk, b.queue) /\ b.queue = [k \in 1 .. Depth |-> b.queue[k]]
    /\ \A k \in 1 .. Depth : RequestShape(b.queue[k])
    /\ \A i, j \in 1 .. Depth : b.queue[i].state = "Queued" /\ j < i => b.queue[j].state # "Free"
    /\ \A k \in 1 .. Depth :
          b.queue[k].state = "Complete" /\ b.queue[k].operation # "Write" =>
              b.queue[k].data = b.queue[k].due
    /\ \E d : DisksOK(b, d)

\* After the first k slots.
Partly(b, d, k) ==
    BlockOf(b, d[k], [j \in 1 .. Depth |-> IF j <= k THEN Served(b.queue[j], d[j - 1]) ELSE b.queue[j]])

\* process
LEMMA ProcessIs ==
    ASSUME NEW c, NEW i, c = BlockOf(c, c.disk, c.queue), c.queue = [k \in 1 .. Depth |-> c.queue[k]],
           i \in 1 .. Depth, NEW r, r = c.queue[i]
    PROVE  Process(c, i) = BlockOf(c, After(c.disk, r), [c.queue EXCEPT ![i] = Served(r, c.disk)])
  <1>1. CASE r.state # "Queued"
    <2>1. Served(r, c.disk) = c.queue[i] /\ After(c.disk, r) = c.disk /\ Process(c, i) = c
      BY Zenon, <1>1 DEF Served, After, Process
    <2>2. [c.queue EXCEPT ![i] = c.queue[i]] = c.queue
      BY Zenon
    <2> QED
      BY Zenon, <2>1, <2>2
  <1>2. CASE r.state = "Queued" /\ r.operation = "Write"
    <2>1. PICK s, t : s = Served(r, c.disk) /\ t = After(c.disk, r)
      BY Zenon
    <2>2. Process(c, i) = [c EXCEPT !.disk = t, !.queue[i] = s]
      BY Zenon, <1>2, <2>1 DEF Process, Served, After
    <2> QED
      BY Zenon, <2>1, <2>2 DEF BlockOf
  <1>3. CASE r.state = "Queued" /\ r.operation # "Write"
    <2>1. PICK s, t : s = Served(r, c.disk) /\ t = c.disk
      BY Zenon
    <2>2. Process(c, i) = [c EXCEPT !.queue[i] = s] /\ After(c.disk, r) = t
      BY Zenon, <1>3, <2>1 DEF Process, Served, After
    <2> QED
      BY Zenon, <2>1, <2>2 DEF BlockOf
  <1> QED
    BY Zenon, <1>1, <1>2, <1>3

LEMMA PartlyNext ==
    ASSUME NEW b, NEW d, DisksOK(b, d), NEW k \in 1 .. Depth
    PROVE  Process(Partly(b, d, k - 1), k) = Partly(b, d, k)
  <1>1. Depth \in Nat /\ k \in Nat /\ ~(k <= k - 1) /\ k <= k
    BY BlockAssumption
  <1>2. PICK c, r : c = Partly(b, d, k - 1) /\ r = b.queue[k]
    BY Zenon
  <1>3. /\ c = BlockOf(c, c.disk, c.queue) /\ c.disk = d[k - 1]
        /\ c.queue = [j \in 1 .. Depth |-> IF j <= k - 1 THEN Served(b.queue[j], d[j - 1]) ELSE b.queue[j]]
        /\ c.ready = b.ready /\ c.readOnly = b.readOnly /\ c.partitions = b.partitions
        /\ c.submitted = b.submitted
    BY Zenon, <1>2 DEF Partly, BlockOf
  <1>4. c.queue[k] = r /\ c.queue = [j \in 1 .. Depth |-> c.queue[j]]
    BY Zenon, <1>1, <1>2, <1>3
  <1>5. Process(c, k) = BlockOf(c, After(c.disk, r), [c.queue EXCEPT ![k] = Served(r, c.disk)])
    <2>1. r = c.queue[k]
      BY Zenon, <1>4
    <2>2. c = BlockOf(c, c.disk, c.queue) /\ c.queue = [j \in 1 .. Depth |-> c.queue[j]]
      BY Zenon, <1>3, <1>4
    <2> QED
      BY Zenon, <2>1, <2>2, ProcessIs
  <1>6. After(c.disk, r) = d[k]
    BY Zenon, <1>2, <1>3 DEF DisksOK
  <1>7. [c.queue EXCEPT ![k] = Served(r, c.disk)]
          = [j \in 1 .. Depth |-> IF j <= k THEN Served(b.queue[j], d[j - 1]) ELSE b.queue[j]]
    <2>1. \A j \in 1 .. Depth : j # k => (j <= k <=> j <= k - 1)
      BY <1>1
    <2>2. PICK v : v = [c.queue EXCEPT ![k] = Served(r, c.disk)]
      BY Zenon
    <2>3. v = [j \in 1 .. Depth |-> v[j]] /\ v[k] = Served(r, c.disk)
          /\ \A j \in 1 .. Depth : j # k => v[j] = c.queue[j]
      BY Zenon, <1>4, <2>2
    <2>4. \A j \in 1 .. Depth : v[j] = IF j <= k THEN Served(b.queue[j], d[j - 1]) ELSE b.queue[j]
      BY Zenon, <1>1, <1>2, <1>3, <2>1, <2>3
    <2> QED
      BY Zenon, <2>2, <2>3, <2>4
  <1> QED
    BY Zenon, <1>2, <1>3, <1>5, <1>6, <1>7 DEF Partly, BlockOf

\* poll_queue serves every queued request, in the order of the slots.
LEMMA PolledIs ==
    ASSUME NEW b, QueueOK(b), NEW d, DisksOK(b, d)
    PROVE  PollQueue(b) = BlockOf(b, d[Depth], [j \in 1 .. Depth |-> Served(b.queue[j], d[j - 1])])
  <1>1. Depth \in Nat /\ 0 \in 0 .. Depth
    BY BlockAssumption
  <1>2. PICK f : /\ PollQueue(b) = f[Depth] /\ f[0] = b
                 /\ \A k \in 1 .. Depth : f[k] = Process(f[k - 1], k)
    BY Zenon, PollRuns
  <1>3. PICK H : H = {k \in Nat : k \in 0 .. Depth => f[k] = Partly(b, d, k)}
    BY Zenon
  <1>4. 0 \in H
    <2>1. [j \in 1 .. Depth |-> IF j <= 0 THEN Served(b.queue[j], d[j - 1]) ELSE b.queue[j]] = b.queue
      <3>1. \A j \in 1 .. Depth : ~(j <= 0)
        BY <1>1
      <3> QED
        BY Zenon, <3>1 DEF QueueOK
    <2>2. Partly(b, d, 0) = b
      BY Zenon, <2>1 DEF Partly, QueueOK, DisksOK
    <2> QED
      BY <1>2, <1>3, <2>2
  <1>5. ASSUME NEW k \in H PROVE k + 1 \in H
    <2>1. /\ k \in Nat /\ k + 1 \in Nat /\ (k + 1) - 1 = k
          /\ k + 1 \in 0 .. Depth => k + 1 \in 1 .. Depth /\ k \in 0 .. Depth
      BY <1>1, <1>3
    <2>2. ASSUME k + 1 \in 0 .. Depth PROVE f[k + 1] = Partly(b, d, k + 1)
      <3>1. f[k + 1] = Process(f[k], k + 1) /\ f[k] = Partly(b, d, k)
        BY Zenon, <1>2, <1>3, <2>1, <2>2
      <3>2. Process(Partly(b, d, (k + 1) - 1), k + 1) = Partly(b, d, k + 1)
        BY Zenon, <2>1, <2>2, PartlyNext
      <3> QED
        BY Zenon, <2>1, <3>1, <3>2
    <2> QED
      BY Zenon, <1>3, <2>1, <2>2
  <1>6. H = Nat
    <2>1. H \in SUBSET Nat
      BY Zenon, <1>3
    <2> QED
      BY Zenon, <1>4, <1>5, <2>1, CountUp
  <1>7. f[Depth] = Partly(b, d, Depth)
    <2>1. Depth \in Nat /\ Depth \in 0 .. Depth
      BY <1>1
    <2> QED
      BY Zenon, <1>3, <1>6, <2>1
  <1>8. \A j \in 1 .. Depth : j <= Depth
    BY <1>1
  <1> QED
    BY Zenon, <1>2, <1>7, <1>8 DEF Partly

\* Nothing is queued.
Quiet(b) ==
    /\ b = BlockOf(b, b.disk, b.queue) /\ b.queue = [k \in 1 .. Depth |-> b.queue[k]]
    /\ \A k \in 1 .. Depth : RequestShape(b.queue[k]) /\ b.queue[k].state # "Queued"
    /\ \A k \in 1 .. Depth :
          b.queue[k].state = "Complete" /\ b.queue[k].operation # "Write" =>
              b.queue[k].data = b.queue[k].due
    /\ b.disk = b.submitted

LEMMA QuietOK ==
    ASSUME NEW b, Quiet(b)
    PROVE  QueueOK(b)
  <1>1. PICK d : d = [k \in 0 .. Depth |-> b.disk]
    BY Zenon
  <1>2. 0 \in 0 .. Depth /\ \A k \in 1 .. Depth : k \in 0 .. Depth /\ k - 1 \in 0 .. Depth
    BY BlockAssumption
  <1>3. /\ d[0] = b.disk /\ \A k \in 1 .. Depth : d[k] = b.disk /\ d[k - 1] = b.disk
        /\ \A k \in 0 .. Depth : d[k] = b.submitted
    BY Zenon, <1>1, <1>2 DEF Quiet
  <1>4. DisksOK(b, d)
    BY Zenon, <1>3 DEF DisksOK, Quiet, After
  <1> QED
    BY Zenon, <1>4 DEF QueueOK, Quiet

\* After a poll nothing is queued, and each read has what it was due.
LEMMA PollQuiet ==
    ASSUME NEW b, QueueOK(b), NEW t, t = PollQueue(b)
    PROVE  /\ Quiet(t)
           /\ \A k \in 1 .. Depth : b.queue[k].state # "Queued" => t.queue[k] = b.queue[k]
  <1>1. PICK d : DisksOK(b, d)
    BY Zenon DEF QueueOK
  <1>2. t = BlockOf(b, d[Depth], [j \in 1 .. Depth |-> Served(b.queue[j], d[j - 1])])
    BY Zenon, <1>1, PolledIs
  <1>3. /\ t = BlockOf(t, t.disk, t.queue) /\ t.disk = d[Depth] /\ t.submitted = b.submitted
        /\ t.queue = [j \in 1 .. Depth |-> Served(b.queue[j], d[j - 1])]
    BY <1>2 DEF BlockOf
  <1>4. d[Depth] = b.submitted
    <2>1. Depth \in 0 .. Depth /\ \A j \in 1 .. Depth : ~(j > Depth)
      BY BlockAssumption
    <2> QED
      BY Zenon, <1>1, <2>1 DEF DisksOK
  <1>5. ASSUME NEW k \in 1 .. Depth
        PROVE  /\ RequestShape(t.queue[k]) /\ t.queue[k].state # "Queued"
               /\ b.queue[k].state # "Queued" => t.queue[k] = b.queue[k]
               /\ t.queue[k].state = "Complete" /\ t.queue[k].operation # "Write" =>
                     t.queue[k].data = t.queue[k].due
    <2>1. PICK r, s, e : r = b.queue[k] /\ s = t.queue[k] /\ e = d[k - 1]
      BY Zenon
    <2>2. s = Served(r, e) /\ RequestShape(r)
      BY Zenon, <1>3, <2>1 DEF QueueOK
    <2>3. CASE r.state # "Queued"
      <3>1. s = r
        BY Zenon, <2>2, <2>3 DEF Served
      <3>2. r.state = "Complete" /\ r.operation # "Write" => r.data = r.due
        BY Zenon, <2>1 DEF QueueOK
      <3> QED
        BY Zenon, <2>1, <2>2, <2>3, <3>1, <3>2
    <2>4. CASE r.state = "Queued" /\ r.operation = "Write"
      <3>1. /\ s.operation = "Write" /\ s.state = "Complete" /\ RequestShape(s)
        BY Zenon, <2>2, <2>4 DEF Served, EmptyRequest, RequestShape
      <3> QED
        BY Zenon, <2>1, <2>4, <3>1
    <2>5. CASE r.state = "Queued" /\ r.operation # "Write"
      <3>1. PICK l : l = Loaded(e, r.lba, Len(r.due))
        BY Zenon
      <3>2. s = [r EXCEPT !.state = "Complete", !.lba = 0, !.data = l]
        BY Zenon, <2>2, <2>5, <3>1 DEF Served
      <3>3. s.data = l /\ s.due = r.due /\ s.state = "Complete" /\ RequestShape(s)
        BY Zenon, <2>2, <3>2 DEF RequestShape
      <3>4. r.due = l
        BY Zenon, <1>1, <2>1, <2>5, <3>1 DEF DisksOK
      <3> QED
        BY Zenon, <2>1, <2>5, <3>3, <3>4
    <2> QED
      BY Zenon, <2>3, <2>4, <2>5
  <1>6. t.queue = [k \in 1 .. Depth |-> t.queue[k]]
    BY Zenon, <1>3
  <1> QED
    BY Zenon, <1>3, <1>4, <1>5, <1>6 DEF Quiet

\* wait polls, and then frees the slot.
LEMMA WaitQuiet ==
    ASSUME NEW b, QueueOK(b), NEW i \in 1 .. Depth, NEW t, t = Wait(b, i)
    PROVE  /\ Quiet(t) /\ t.queue[i].state = "Free"
           /\ \A k \in 1 .. Depth : b.queue[k].state = "Free" => t.queue[k].state = "Free"
  <1>1. PICK p : p = PollQueue(b)
    BY Zenon
  <1>2. /\ Quiet(p)
        /\ \A k \in 1 .. Depth : b.queue[k].state # "Queued" => p.queue[k] = b.queue[k]
    BY Zenon, <1>1, PollQuiet
  <1>3. t = [p EXCEPT !.queue[i] = EmptyRequest]
    BY Zenon, <1>1 DEF Wait
  <1>4. /\ t = BlockOf(t, t.disk, t.queue) /\ t.disk = p.disk /\ t.submitted = p.submitted
        /\ t.queue = [p.queue EXCEPT ![i] = EmptyRequest]
    <2>1. p = BlockOf(p, p.disk, p.queue)
      BY Zenon, <1>2 DEF Quiet
    <2> QED
      BY <1>3, <2>1 DEF BlockOf
  <1>5. /\ t.queue = [k \in 1 .. Depth |-> t.queue[k]] /\ t.queue[i] = EmptyRequest
        /\ \A k \in 1 .. Depth : k # i => t.queue[k] = p.queue[k]
    <2>1. p.queue = [k \in 1 .. Depth |-> p.queue[k]]
      BY Zenon, <1>2 DEF Quiet
    <2> QED
      BY Zenon, <1>4, <2>1
  <1>6. RequestShape(EmptyRequest) /\ EmptyRequest.state = "Free"
    BY DEF RequestShape, EmptyRequest
  <1>7. "Free" # "Queued" /\ "Free" # "Complete"
    OBVIOUS
  <1>8. Quiet(t)
    <2>1. ASSUME NEW k \in 1 .. Depth
          PROVE  /\ RequestShape(t.queue[k]) /\ t.queue[k].state # "Queued"
                 /\ t.queue[k].state = "Complete" /\ t.queue[k].operation # "Write" =>
                       t.queue[k].data = t.queue[k].due
      <3>1. CASE k = i
        BY Zenon, <1>5, <1>6, <1>7, <3>1
      <3>2. CASE k # i
        BY ZenonT(60), <1>2, <1>5, <3>2 DEF Quiet
      <3> QED
        BY Zenon, <3>1, <3>2
    <2>2. t.disk = t.submitted
      BY Zenon, <1>2, <1>4 DEF Quiet
    <2> QED
      BY Zenon, <1>4, <1>5, <2>1, <2>2 DEF Quiet
  <1>9. ASSUME NEW k \in 1 .. Depth, b.queue[k].state = "Free" PROVE t.queue[k].state = "Free"
    BY Zenon, <1>2, <1>5, <1>6, <1>7, <1>9
  <1> QED
    BY Zenon, <1>5, <1>6, <1>8, <1>9

\* submit takes the first free slot.
LEMMA SlotIs ==
    ASSUME NEW b, NEW free \in 1 .. Depth, b.queue[free].state = "Free"
    PROVE  /\ Slot(b) \in 1 .. Depth /\ b.queue[Slot(b)].state = "Free"
           /\ \A j \in 1 .. Slot(b) - 1 : b.queue[j].state # "Free"
  <1>1. PICK F : F = {k \in 1 .. Depth : b.queue[k].state = "Free"}
    BY Zenon
  <1>2. F \in SUBSET Nat /\ F # {}
    BY <1>1, BlockAssumption
  <1>3. PICK s \in F : \A x \in F : s <= x
    BY Zenon, <1>2, LeastNumber
  <1>4. s \in 1 .. Depth /\ \A j \in 1 .. s - 1 : j \in 1 .. Depth /\ ~(s <= j)
    BY <1>1, <1>3, BlockAssumption
  <1>5. \E i \in 1 .. Depth : /\ b.queue[i].state = "Free"
                             /\ \A j \in 1 .. i - 1 : b.queue[j].state # "Free"
    BY Zenon, <1>1, <1>3, <1>4
  <1> QED
    BY Zenon, <1>5 DEF Slot

\* submit puts a request behind those that are queued.
LEMMA SubmitKeeps ==
    ASSUME NEW b, QueueOK(b), NEW call, call.length \in Nat,
           NEW free \in 1 .. Depth, b.queue[free].state = "Free",
           NEW s, s = Slot(b), NEW t, t = Submit(b, call)
    PROVE  /\ QueueOK(t) /\ s \in 1 .. Depth
           /\ \A k \in 1 .. Depth : k # s => t.queue[k] = b.queue[k]
  <1>1. /\ s \in 1 .. Depth /\ b.queue[s].state = "Free"
        /\ \A j \in 1 .. s - 1 : b.queue[j].state # "Free"
    BY Zenon, SlotIs
  <1>2. Depth \in Nat
    BY BlockAssumption
  <1>3. PICK count, due, write, r, new :
           /\ count = call.length \div SectorSize /\ due = Loaded(b.submitted, call.lba, count)
           /\ write = (call.operation = "Write")
           /\ r = [state |-> "Queued", operation |-> call.operation, lba |-> call.lba,
                   data |-> call.data, due |-> due]
           /\ new = IF write THEN Stored(b.submitted, call.lba, call.data) ELSE b.submitted
    BY Zenon
  <1>4. t = [b EXCEPT !.queue[s] = r, !.submitted = new]
    BY Zenon, <1>3 DEF Submit
  <1>5. /\ t = BlockOf(t, t.disk, t.queue) /\ t.disk = b.disk /\ t.submitted = new
        /\ t.queue = [b.queue EXCEPT ![s] = r]
    <2>1. b = BlockOf(b, b.disk, b.queue)
      BY Zenon DEF QueueOK
    <2> QED
      BY Zenon, <1>4, <2>1 DEF BlockOf
  <1>6. /\ t.queue = [k \in 1 .. Depth |-> t.queue[k]] /\ t.queue[s] = r
        /\ \A k \in 1 .. Depth : k # s => t.queue[k] = b.queue[k]
    <2>1. b.queue = [k \in 1 .. Depth |-> b.queue[k]]
      BY Zenon DEF QueueOK
    <2> QED
      BY Zenon, <1>1, <1>5, <2>1
  <1>7. /\ r.state = "Queued" /\ r.operation = call.operation /\ r.lba = call.lba
        /\ r.data = call.data /\ r.due = due /\ RequestShape(r)
    BY <1>3 DEF RequestShape
  <1>8. Len(due) = count
    <2>1. count \in Nat
      BY <1>3 DEF SectorSize
    <2> QED
      BY <1>3, <2>1 DEF Loaded
  <1>9. \A k \in 1 .. Depth : k >= s => b.queue[k].state # "Queued"
    <2> SUFFICES ASSUME NEW k \in 1 .. Depth, k >= s, b.queue[k].state = "Queued" PROVE FALSE
      BY Zenon
    <2>1. k = s \/ s < k
      BY <1>1, <1>2
    <2> QED
      BY Zenon, <1>1, <2>1 DEF QueueOK
  <1>10. \A k \in 1 .. Depth : RequestShape(t.queue[k])
    BY Zenon, <1>6, <1>7 DEF QueueOK
  <1>11. ASSUME NEW k \in 1 .. Depth, t.queue[k].state = "Complete", t.queue[k].operation # "Write"
         PROVE  t.queue[k].data = t.queue[k].due
    <2>1. k # s
      BY Zenon, <1>6, <1>7, <1>11
    <2>2. t.queue[k] = b.queue[k]
      BY Zenon, <1>6, <2>1
    <2> QED
      BY Zenon, <1>11, <2>2 DEF QueueOK
  <1>12. \A i, j \in 1 .. Depth : t.queue[i].state = "Queued" /\ j < i => t.queue[j].state # "Free"
    <2> SUFFICES ASSUME NEW i \in 1 .. Depth, NEW j \in 1 .. Depth, t.queue[i].state = "Queued", j < i
                 PROVE  t.queue[j].state # "Free"
      BY Zenon
    <2>1. CASE j = s
      BY Zenon, <1>6, <1>7, <2>1
    <2>2. CASE j # s /\ i = s
      <3>1. j \in 1 .. s - 1
        BY <1>1, <1>2, <2>2
      <3> QED
        BY Zenon, <1>1, <1>6, <2>2, <3>1
    <2>3. CASE j # s /\ i # s
      <3>1. t.queue[i] = b.queue[i] /\ t.queue[j] = b.queue[j]
        BY Zenon, <1>6, <2>3
      <3>2. b.queue[i].state = "Queued" /\ j < i => b.queue[j].state # "Free"
        BY Zenon DEF QueueOK
      <3> QED
        BY Zenon, <3>1, <3>2
    <2> QED
      BY Zenon, <2>1, <2>2, <2>3
  <1>13. PICK d : DisksOK(b, d)
    BY Zenon DEF QueueOK
  <1>14. PICK e : e = [k \in 0 .. Depth |-> IF k < s THEN d[k] ELSE new]
    BY Zenon
  <1>15. /\ s - 1 \in 0 .. Depth /\ s - 1 < s /\ s \in 0 .. Depth /\ ~(s < s) /\ 0 \in 0 .. Depth /\ 0 < s
         /\ \A k \in 1 .. Depth :
               /\ k \in 0 .. Depth /\ k - 1 \in 0 .. Depth
               /\ k < s => k - 1 < s
               /\ ~(k < s) /\ k # s => ~(k - 1 < s) /\ k >= s
         /\ \A k \in 1 .. Depth : k > s - 1 => k >= s
    BY <1>1, <1>2
  <1>16. d[s - 1] = b.submitted
    BY Zenon, <1>9, <1>13, <1>15 DEF DisksOK
  <1>17. /\ e[0] = d[0] /\ e[s - 1] = b.submitted /\ e[s] = new
         /\ \A k \in 0 .. Depth : e[k] = IF k < s THEN d[k] ELSE new
    BY Zenon, <1>14, <1>15, <1>16
  <1>18. ASSUME NEW k \in 1 .. Depth
         PROVE  /\ e[k] = After(e[k - 1], t.queue[k])
                /\ t.queue[k].state = "Queued" /\ t.queue[k].operation # "Write" =>
                      t.queue[k].due = Loaded(e[k - 1], t.queue[k].lba, Len(t.queue[k].due))
    <2>1. CASE k = s
      <3>1. new = After(b.submitted, r)
        BY Zenon, <1>3, <1>7 DEF After
      <3>2. r.due = Loaded(b.submitted, r.lba, Len(r.due))
        BY Zenon, <1>3, <1>7, <1>8
      <3> QED
        BY Zenon, <1>6, <1>17, <2>1, <3>1, <3>2
    <2>2. CASE k < s
      <3>1. k # s /\ e[k] = d[k] /\ e[k - 1] = d[k - 1]
        BY Zenon, <1>15, <1>17, <2>2
      <3> QED
        BY ZenonT(60), <1>6, <1>13, <3>1 DEF DisksOK
    <2>3. CASE ~(k < s) /\ k # s
      <3>1. e[k] = new /\ e[k - 1] = new /\ t.queue[k].state # "Queued"
        BY ZenonT(60), <1>6, <1>9, <1>15, <1>17, <2>3
      <3> QED
        BY Zenon, <3>1 DEF After
    <2> QED
      BY Zenon, <2>1, <2>2, <2>3
  <1>19. ASSUME NEW k \in 0 .. Depth, \A j \in 1 .. Depth : j > k => t.queue[j].state # "Queued"
         PROVE  e[k] = t.submitted
    <2>1. ~(s > k)
      BY Zenon, <1>1, <1>6, <1>7, <1>19
    <2>2. ~(k < s)
      BY <1>1, <1>2, <2>1
    <2> QED
      BY Zenon, <1>5, <1>17, <2>2
  <1>20. DisksOK(t, e)
    <2>1. e[0] = t.disk
      BY Zenon, <1>5, <1>13, <1>17 DEF DisksOK
    <2> QED
      BY Zenon, <1>18, <1>19, <2>1 DEF DisksOK
  <1> QED
    BY Zenon, <1>1, <1>5, <1>6, <1>10, <1>11, <1>12, <1>20 DEF QueueOK

\* read_sectors and write_sectors on a queue that is not used.
LEMMA TransferQuiet ==
    ASSUME NEW b, Quiet(b), \A k \in 1 .. Depth : b.queue[k].state = "Free",
           NEW call, call.length \in Nat, NEW t, t = Transfer(b, call)
    PROVE  Quiet(t) /\ \A k \in 1 .. Depth : t.queue[k].state = "Free"
  <1>1. PICK u, s : u = Submit(b, call) /\ s = Slot(b)
    BY Zenon
  <1>2. PICK free \in 1 .. Depth : b.queue[free].state = "Free"
    <2>1. 1 \in 1 .. Depth
      BY BlockAssumption
    <2> QED
      BY Zenon, <2>1
  <1>3. QueueOK(b)
    BY Zenon, QuietOK
  <1>4. /\ QueueOK(u) /\ s \in 1 .. Depth
        /\ \A k \in 1 .. Depth : k # s => u.queue[k] = b.queue[k]
    BY <1>1, <1>2, <1>3, SubmitKeeps
  <1>5. PICK v : v = Wait(u, s)
    BY Zenon
  <1>6. /\ Quiet(v) /\ v.queue[s].state = "Free"
        /\ \A k \in 1 .. Depth : u.queue[k].state = "Free" => v.queue[k].state = "Free"
    BY <1>4, <1>5, WaitQuiet
  <1>7. t = v
    BY Zenon, <1>1, <1>5 DEF Transfer
  <1> QED
    BY Zenon, <1>4, <1>6, <1>7

\* init, with the smoke test.
LEMMA StartQuiet ==
    ASSUME NEW b, Quiet(b), \A k \in 1 .. Depth : b.queue[k].state = "Free",
           NEW pattern, NEW t, t = SmokeTest(b, pattern)
    PROVE  Quiet(t)
  <1>1. \A operation, data : SmokeCall(operation, data).length \in Nat
    BY DEF SmokeCall, SectorSize
  <1>2. PICK original, read, write, back : /\ original = <<b.disk[DiskSectors - 1]>>
                                     /\ read = SmokeCall("Read", <<>>)
                                     /\ write = SmokeCall("Write", pattern)
                                     /\ back = SmokeCall("Write", original)
    BY Zenon
  <1>3. t = b \/ t = Transfer(Transfer(Transfer(Transfer(b, read), write), read), back)
    BY Zenon, <1>2 DEF SmokeTest
  <1>4. read.length \in Nat /\ write.length \in Nat /\ back.length \in Nat
    BY Zenon, <1>1, <1>2
  <1>5. PICK b1, b2, b3, b4 : /\ b1 = Transfer(b, read) /\ b2 = Transfer(b1, write)
                              /\ b3 = Transfer(b2, read) /\ b4 = Transfer(b3, back)
    BY Zenon
  <1>6. Quiet(b1) /\ \A k \in 1 .. Depth : b1.queue[k].state = "Free"
    BY Zenon, <1>4, <1>5, TransferQuiet
  <1>7. Quiet(b2) /\ \A k \in 1 .. Depth : b2.queue[k].state = "Free"
    BY Zenon, <1>4, <1>5, <1>6, TransferQuiet
  <1>8. Quiet(b3) /\ \A k \in 1 .. Depth : b3.queue[k].state = "Free"
    BY Zenon, <1>4, <1>5, <1>7, TransferQuiet
  <1>9. Quiet(b4)
    BY Zenon, <1>4, <1>5, <1>8, TransferQuiet
  <1> QED
    BY Zenon, <1>3, <1>5, <1>9

\* A block layer whose slots are all empty.
Unused(t) ==
    /\ t = BlockOf(t, t.disk, t.queue) /\ t.queue = [i \in 1 .. Depth |-> EmptyRequest]
    /\ t.disk = t.submitted

LEMMA NewQuiet ==
    ASSUME NEW t, Unused(t)
    PROVE  Quiet(t) /\ \A k \in 1 .. Depth : t.queue[k].state = "Free"
  <1>1. /\ t = BlockOf(t, t.disk, t.queue) /\ t.queue = [i \in 1 .. Depth |-> EmptyRequest]
        /\ t.disk = t.submitted
    BY Zenon DEF Unused
  <1>2. RequestShape(EmptyRequest) /\ EmptyRequest.state = "Free"
    BY DEF RequestShape, EmptyRequest
  <1>3. "Free" # "Queued" /\ "Free" # "Complete"
    OBVIOUS
  <1>4. \A k \in 1 .. Depth : t.queue[k] = EmptyRequest
    BY Zenon, <1>1
  <1>5. t.queue = [k \in 1 .. Depth |-> t.queue[k]]
    BY Zenon, <1>1
  <1> QED
    BY Zenon, <1>1, <1>2, <1>3, <1>4, <1>5 DEF Quiet

BlockInv == QueueOK(block)

LEMMA BlockNextKeeps ==
    ASSUME QueueOK(block), [BlockNext]_block
    PROVE  QueueOK(block')
  <1>1. CASE BlockStart
    <2>1. PICK pattern : block' = SmokeTest([NewBlock EXCEPT !.ready = TRUE,
                             !.partitions = DiscoverPartitions(MbrEntries)], <<pattern>>)
      BY Zenon, <1>1 DEF BlockStart
    <2>2. PICK ready, partitions, b, p, t :
             /\ ready = TRUE /\ partitions = DiscoverPartitions(MbrEntries) /\ p = <<pattern>>
             /\ b = [NewBlock EXCEPT !.ready = ready, !.partitions = partitions] /\ t = block'
      BY Zenon
    <2>3. Quiet(b) /\ \A k \in 1 .. Depth : b.queue[k].state = "Free"
      <3>1. Unused(b)
        BY Zenon, <2>2 DEF Unused, NewBlock, BlockOf
      <3> QED
        BY Zenon, <3>1, NewQuiet
    <2>4. t = SmokeTest(b, p)
      BY Zenon, <2>1, <2>2
    <2>5. QueueOK(t)
      BY Zenon, <2>3, <2>4, StartQuiet, QuietOK
    <2> QED
      BY Zenon, <2>2, <2>5
  <1>2. CASE BlockSubmit
    <2>1. PICK call \in BlockCalls : SubmitError(block, call) = "none" /\ block' = Submit(block, call)
      BY Zenon, <1>2 DEF BlockSubmit
    <2>2. PICK b, t : b = block /\ t = block'
      BY Zenon
    <2>3. PICK free \in 1 .. Depth : b.queue[free].state = "Free"
      BY <2>1, <2>2 DEF SubmitError
    <2>4. call.length \in Nat
      BY Zenon, BlockAssumption
    <2>5. QueueOK(b) /\ t = Submit(b, call)
      BY Zenon, <2>1, <2>2
    <2>6. QueueOK(t)
      BY Zenon, <2>3, <2>4, <2>5, SubmitKeeps
    <2> QED
      BY Zenon, <2>2, <2>6
  <1>3. CASE BlockPoll
    <2>1. PICK b, t : b = block /\ t = block'
      BY Zenon
    <2>2. QueueOK(b) /\ t = PollQueue(b)
      BY Zenon, <1>3, <2>1 DEF BlockPoll
    <2>3. QueueOK(t)
      BY Zenon, <2>2, PollQuiet, QuietOK
    <2> QED
      BY Zenon, <2>1, <2>3
  <1>4. CASE BlockWait
    <2>1. PICK i \in 1 .. Depth : block' = Wait(block, i)
      BY Zenon, <1>4 DEF BlockWait
    <2>2. PICK b, t : b = block /\ t = block'
      BY Zenon
    <2>3. QueueOK(b) /\ t = Wait(b, i)
      BY Zenon, <2>1, <2>2
    <2>4. QueueOK(t)
      BY Zenon, <2>3, WaitQuiet, QuietOK
    <2> QED
      BY Zenon, <2>2, <2>4
  <1>5. CASE SetReadOnly
    <2>1. PICK b, t : b = block /\ t = block'
      BY Zenon
    <2>2. t = [b EXCEPT !.readOnly = ~@]
      BY Zenon, <1>5, <2>1 DEF SetReadOnly
    <2>3. b = BlockOf(b, b.disk, b.queue)
      BY Zenon, <2>1 DEF QueueOK
    <2>4. /\ t = BlockOf(t, t.disk, t.queue) /\ t.disk = b.disk /\ t.queue = b.queue
          /\ t.submitted = b.submitted
      BY <2>2, <2>3 DEF BlockOf
    <2>5. \A d : DisksOK(b, d) => DisksOK(t, d)
      BY Zenon, <2>4 DEF DisksOK
    <2>6. QueueOK(t)
      BY ZenonT(60), <2>1, <2>4, <2>5 DEF QueueOK
    <2> QED
      BY Zenon, <2>1, <2>6
  <1>6. CASE UNCHANGED block
    BY Zenon, <1>6
  <1> QED
    BY Zenon, <1>1, <1>2, <1>3, <1>4, <1>5, <1>6 DEF BlockNext

\* ReadsSeeWrites: every completed read holds what the writes submitted before
\* it left, and the disk of an idle queue is what the submitted writes make of
\* it, for every depth of the queue and every set of calls (submit, poll_queue,
\* wait).
THEOREM BlockReadsSeeWrites == BlockInit /\ [][BlockNext]_block => []ReadsSeeWrites
  <1>1. BlockInit => BlockInv
    <2> SUFFICES ASSUME BlockInit PROVE QueueOK(block)
      BY Zenon DEF BlockInv
    <2>1. Unused(block)
      BY DEF BlockInit, NewBlock, Unused, BlockOf
    <2> QED
      BY Zenon, <2>1, NewQuiet, QuietOK
  <1>2. BlockInv /\ [BlockNext]_block => BlockInv'
    BY Zenon, BlockNextKeeps DEF BlockInv
  <1>3. BlockInv => ReadsSeeWrites
    <2> SUFFICES ASSUME QueueOK(block) PROVE ReadsSeeWrites
      BY Zenon DEF BlockInv
    <2>1. \A i \in 1 .. Depth :
            block.queue[i].state = "Complete" /\ block.queue[i].operation = "Read"
                => block.queue[i].data = block.queue[i].due
      <3>1. "Read" # "Write"
        OBVIOUS
      <3> QED
        BY Zenon, <3>1 DEF QueueOK
    <2>2. ASSUME \A i \in 1 .. Depth : block.queue[i].state # "Queued"
          PROVE  block.disk = block.submitted
      <3>1. PICK d : DisksOK(block, d)
        BY Zenon DEF QueueOK
      <3>2. 0 \in 0 .. Depth
        BY BlockAssumption
      <3> QED
        BY Zenon, <2>2, <3>1, <3>2 DEF DisksOK
    <2> QED
      BY Zenon, <2>1, <2>2 DEF ReadsSeeWrites
  <1> QED
    BY <1>1, <1>2, <1>3, PTL

-----------------------------------------------------------------------------
(* The warm-reboot log *)

Sectors == [Slots -> Record \cup {None}]

TypeOK ==
    /\ efi \in Sectors /\ sector \in Sectors
    /\ cmos \in Record \cup {None} /\ committed \in Record \cup {None}
    /\ hasEfi \in BOOLEAN /\ hasCmos \in BOOLEAN /\ efiOk \in BOOLEAN
    /\ panicActive \in BOOLEAN /\ trusted \in BOOLEAN /\ lastOk \in BOOLEAN
    /\ missed \in BOOLEAN /\ gaps \in BOOLEAN
    /\ pc \in {"idle", "efi", "verify", "cmos", "cmosEnd", "halted"}
    /\ stage \in {"init", "checkpoint", "ready", "running"}
    /\ next \in Nat

Writing == pc \in {"efi", "verify", "cmos", "cmosEnd"}

\* Slot n of s holds the one record with the largest sequence number.
Top(s, n) ==
    /\ n \in Slots /\ s[n] \in Record
    /\ \A k \in Slots : k # n => s[k].seq < s[n].seq

\* Every record of e is older than that of s in slot n, or is that one.
Below(e, s, n) == \A k \in Slots : e[k].seq < s[n].seq \/ (k = n /\ e[k] = s[n])

\* r keeps record c: it is c or a later one.  Something in s keeps c, and
\* nothing else in s passes for c.
Keeps(r, c) == r = c \/ r.seq > c.seq
Holds(s, c) == \E k \in Slots : Keeps(s[k], c)
Agrees(s, c) == \A k \in Slots : s[k].seq = c.seq => s[k] = c

\* What the writer is about to store while the record it must not lose is in
\* EFI: some slot keeps it before and after that slot is stored, or else slot 0,
\* which is stored first, will.
SafeToStore ==
    \/ \E m \in Slots : Keeps(sector[m], committed) /\ Keeps(efi[m], committed)
    \/ next = 0 /\ Keeps(sector[0], committed)

\* The inductive invariant for CommittedSurvives.
WarmInv ==
    /\ TypeOK
    /\ pc = "efi" => next < Records
    /\ pc \in {"efi", "verify"} => hasEfi /\ ~efiOk
    /\ efiOk => hasEfi /\ \A k \in Slots : sector[k] # None => efi[k] = sector[k]
    /\ pc = "cmosEnd" => hasCmos
    /\ Writing => \E n \in Slots : Top(sector, n) /\ (~missed => Below(EfiSector, sector, n))
    /\ hasCmos /\ cmos # None => cmos = committed
    /\ trusted /\ ~missed => /\ hasEfi /\ committed \in Record
                             /\ Holds(efi, committed) /\ Agrees(efi, committed)
    /\ trusted /\ ~missed /\ pc = "efi" => Agrees(sector, committed) /\ SafeToStore
    /\ lastOk => ~Writing
    /\ lastOk /\ ~missed => Newest = committed

\* Record q of a log is in slot (q - 1) % Records.
InPlace(s) == \A k \in Slots : s[k] # None => (s[k].seq - 1) % Records = k

\* Slot k of a complete log of n records: record q stays in its slot until it is
\* overwritten by record q + Records.
RingSeq(n, k) == n - ((n - 1 - k) % Records)
Ring(s, n) ==
    \A k \in Slots : s[k].seq = IF n > 0 /\ RingSeq(n, k) > 0 THEN RingSeq(n, k) ELSE 0

\* The inductive invariant for RingIntact.
RingInv ==
    /\ ~hasEfi => efi = Empty
    /\ ~hasCmos => InPlace(efi) /\ InPlace(sector)
    /\ ~hasCmos /\ hasEfi /\ ~gaps =>
        /\ \E n \in Nat : Ring(efi, n)
        /\ pc = "efi" =>
            \E n \in Nat :
                /\ Ring(sector, n + 1)
                /\ Ring(efi, n) \/ Ring(efi, n + 1)
                /\ \A k \in Slots : k # n % Records => efi[k] = sector[k]

-----------------------------------------------------------------------------
(* The sector *)

\* Max is the largest element of a bounded set of numbers.
LEMMA MaxIs ==
    ASSUME NEW b \in Nat, NEW F \in SUBSET (0 .. b), F # {}
    PROVE  Max(F) \in F /\ \A y \in F : y <= Max(F)
  <1> DEFINE G == {b - x : x \in F}
  <1>1. G \in SUBSET Nat /\ G # {}
    <2>1. \A x \in F : b - x \in Nat
      OBVIOUS
    <2> QED
      BY Zenon, <2>1
  <1>2. PICK g \in G : \A y \in G : g <= y
    <2>1. IsWellFoundedOn(OpToRel(<, Nat), Nat)
      BY Zenon, NatLessThanWellFounded
    <2>2. PICK x \in G : \A y \in G : ~(<<y, x>> \in OpToRel(<, Nat))
      BY Zenon, <1>1, <2>1, WFMin
    <2>3. \A y \in G : ~(y < x)
      BY Zenon, <1>1, <2>2 DEF OpToRel
    <2> QED
      BY <1>1, <2>3
  <1>3. PICK m \in F : g = b - m
    BY Zenon
  <1>4. \A y \in F : m >= y
    <2> SUFFICES ASSUME NEW y \in F PROVE m >= y
      BY Zenon
    <2>1. b - m <= b - y
      BY Zenon, <1>2, <1>3
    <2> QED
      BY <2>1
  <1>5. \A y \in F : Max(F) >= y /\ Max(F) \in F
    BY Zenon, <1>4 DEF Max
  <1> QED
    BY Zenon, <1>5

\* The constants as numbers.
LEMMA SlotsAre == /\ Records \in Nat \ {0} /\ MaxSequence \in Nat \ {0}
                  /\ 0 \in Slots /\ Slots \subseteq 0 .. Records /\ Slots \subseteq Nat
  BY WarmLogAssumption DEF Slots

\* Bytes that decode have a sequence number, those that do not have none.
LEMMA SeqIs ==
    ASSUME NEW r \in Record \cup {None}
    PROVE  /\ r.seq \in 0 .. MaxSequence /\ (r = None <=> r.seq = 0)
           /\ r \in Record <=> r.seq > 0
           /\ None \notin Record /\ None.seq = 0
  BY WarmLogAssumption DEF Record, None

\* The largest sequence number in a sector.
LEMMA LatestSeqIs ==
    ASSUME NEW s \in Sectors
    PROVE  /\ LatestSeq(s) \in 0 .. MaxSequence
           /\ \A k \in Slots : s[k].seq <= LatestSeq(s)
           /\ \E k \in Slots : s[k].seq = LatestSeq(s)
           /\ Written(s) = {} <=> LatestSeq(s) = 0
  <1> DEFINE F == {s[k].seq : k \in Slots}
  <1>1. \A k \in Slots : s[k] \in Record \cup {None}
    BY Zenon DEF Sectors
  <1>2. \A k \in Slots : s[k].seq \in 0 .. MaxSequence /\ (s[k] = None <=> s[k].seq = 0)
    BY Zenon, <1>1, SeqIs
  <1>3. F \in SUBSET (0 .. MaxSequence) /\ F # {} /\ MaxSequence \in Nat
    BY Zenon, <1>2, SlotsAre
  <1>4. Max(F) \in F /\ \A y \in F : y <= Max(F)
    BY Zenon, <1>3, MaxIs
  <1>5. LatestSeq(s) \in F /\ \A y \in F : y <= LatestSeq(s)
    BY Zenon, <1>4 DEF LatestSeq
  <1>6. Written(s) = {} <=> LatestSeq(s) = 0
    <2>1. ASSUME Written(s) = {} PROVE LatestSeq(s) = 0
      BY Zenon, <1>2, <1>5, <2>1 DEF Written
    <2>2. ASSUME LatestSeq(s) = 0, NEW k \in Slots PROVE s[k] = None
      <3>1. s[k].seq <= 0 /\ s[k].seq \in Nat
        BY <1>2, <1>5, <2>2, SlotsAre
      <3> QED
        BY <1>2, <3>1
    <2> QED
      BY Zenon, <2>1, <2>2 DEF Written
  <1> QED
    BY Zenon, <1>2, <1>3, <1>5, <1>6

\* latest_record finds a record with the largest sequence number.
LEMMA LatestIs ==
    ASSUME NEW s \in Sectors, Written(s) # {}
    PROVE  /\ Latest(s) \in Slots /\ s[Latest(s)] \in Record
           /\ s[Latest(s)].seq = LatestSeq(s)
  <1> DEFINE F == {k \in Written(s) : s[k].seq = LatestSeq(s)}
  <1>1. PICK k \in Slots : s[k].seq = LatestSeq(s)
    BY Zenon, LatestSeqIs
  <1>2. LatestSeq(s) # 0 /\ s[k] \in Record \cup {None}
    BY Zenon, LatestSeqIs DEF Sectors
  <1>3. k \in F
    BY Zenon, <1>1, <1>2, SeqIs DEF Written
  <1>4. F \in SUBSET (0 .. Records) /\ Records \in Nat
    BY Zenon, SlotsAre DEF Written
  <1>5. Max(F) \in F
    BY Zenon, <1>3, <1>4, MaxIs
  <1>6. Latest(s) \in F
    BY Zenon, <1>5 DEF Latest
  <1> QED
    BY Zenon, <1>6 DEF Written, Sectors

\* Where one record is newer than all others, it is the one found.
LEMMA TopIs ==
    ASSUME NEW s \in Sectors, NEW n, Top(s, n)
    PROVE  Latest(s) = n /\ LatestSeq(s) = s[n].seq /\ Written(s) # {}
  <1>1. /\ n \in Slots /\ s[n] \in Record
        /\ \A k \in Slots : k # n => s[k].seq < s[n].seq
    BY Zenon DEF Top
  <1>2. Written(s) # {}
    BY Zenon, <1>1, SeqIs DEF Written
  <1>3. \A k \in Slots : s[k].seq \in 0 .. MaxSequence
    BY Zenon, SeqIs DEF Sectors
  <1>4. /\ Latest(s) \in Slots /\ s[Latest(s)].seq = LatestSeq(s)
        /\ s[n].seq <= LatestSeq(s)
    BY Zenon, <1>1, <1>2, LatestIs, LatestSeqIs
  <1>5. Latest(s) = n
    BY <1>1, <1>3, <1>4
  <1> QED
    BY Zenon, <1>2, <1>4, <1>5

\* The slot a record is written to is a slot of the sector.
LEMMA NextSlotIs ==
    ASSUME NEW s \in Sectors
    PROVE  NextSlot(s) \in Slots
  <1>1. CASE Written(s) = {}
    BY Zenon, <1>1, SlotsAre DEF NextSlot
  <1>2. CASE Written(s) # {}
    <2>1. Latest(s) \in Nat
      BY Zenon, <1>2, LatestIs, SlotsAre
    <2> QED
      BY <1>2, <2>1, SlotsAre DEF NextSlot, Slots
  <1> QED
    BY Zenon, <1>1, <1>2

\* append_record: the new record is the newest, the other slots stay.
LEMMA AppendedIs ==
    ASSUME NEW s \in Sectors, LatestSeq(s) < MaxSequence, NEW state \in States
    PROVE  LET a == Appended(s, state)
               n == NextSlot(s) IN
           /\ a \in Sectors /\ Top(a, n) /\ a[n].seq = LatestSeq(s) + 1
           /\ \A k \in Slots : k # n => a[k] = s[k]
  <1> DEFINE a == Appended(s, state)
             n == NextSlot(s)
             r == [state |-> state, seq |-> LatestSeq(s) + 1]
  <1>1. n \in Slots
    BY Zenon, NextSlotIs
  <1>2. LatestSeq(s) \in Nat /\ LatestSeq(s) + 1 \in 1 .. MaxSequence
    BY LatestSeqIs, SlotsAre
  <1>3. r \in Record /\ r.seq = LatestSeq(s) + 1
    BY Zenon, <1>2 DEF Record
  <1>4. a = [k \in Slots |-> IF k = n THEN r ELSE s[k]]
    BY Zenon, <1>1 DEF Appended
  <1>5. a \in Sectors
    BY Zenon, <1>3, <1>4 DEF Sectors
  <1>6. a[n] = r /\ \A k \in Slots : k # n => a[k] = s[k]
    BY Zenon, <1>1, <1>4
  <1>7. \A k \in Slots : s[k].seq \in 0 .. MaxSequence /\ s[k].seq <= LatestSeq(s)
    BY Zenon, LatestSeqIs, SeqIs DEF Sectors
  <1>8. Top(a, n)
    BY <1>1, <1>2, <1>3, <1>6, <1>7 DEF Top
  <1> QED
    BY Zenon, <1>3, <1>5, <1>6, <1>8

-----------------------------------------------------------------------------
(* What the next boot reads *)

\* A sector with nothing in it.
LEMMA EmptyIs == Empty \in Sectors /\ \A k \in Slots : Empty[k] = None
  BY Zenon DEF Empty, Sectors

\* Whatever the media hold, what is read of them is a sector.
LEMMA SectorsRead ==
    TypeOK => EfiSector \in Sectors /\ CmosSector \in Sectors
              /\ ReadPersistent(EfiSector) \in Sectors
  BY Zenon, EmptyIs, SlotsAre DEF TypeOK, EfiSector, CmosSector, ReadPersistent, Sectors, Empty

\* efi_read returns each record as it is stored, or not at all.
LEMMA EfiRead ==
    ASSUME TypeOK, NEW e \in EfiReads
    PROVE  /\ e \in Sectors /\ ReadPersistent(e) \in Sectors
           /\ \A k \in Slots : e[k] = EfiSector[k] \/ e[k] = None
  <1>1. PICK got \in SUBSET Slots : e = [k \in Slots |-> IF k \in got THEN EfiSector[k] ELSE None]
    BY Zenon DEF EfiReads
  <1>2. \A k \in Slots : e[k] = EfiSector[k] \/ e[k] = None
    BY Zenon, <1>1
  <1>3. e \in Sectors
    BY Zenon, <1>1, SectorsRead DEF Sectors
  <1> QED
    BY Zenon, <1>2, <1>3, SectorsRead DEF ReadPersistent

\* The newest record of a sector.
LEMMA BestIs ==
    ASSUME NEW s \in Sectors
    PROVE  /\ Best(s) \in Record \cup {None} /\ Best(s).seq = LatestSeq(s)
           /\ Best(s) # None => Latest(s) \in Slots /\ s[Latest(s)] = Best(s)
  <1>1. CASE Written(s) = {}
    BY Zenon, <1>1, LatestSeqIs, SeqIs DEF Best
  <1>2. CASE Written(s) # {}
    BY Zenon, <1>2, LatestIs DEF Best
  <1> QED
    BY Zenon, <1>1, <1>2

\* cmos_read: a sector with the CMOS record in slot 0, if there is one.
LEMMA CmosIs ==
    TypeOK =>
        /\ hasCmos /\ cmos # None =>
            /\ LatestSeq(CmosSector) = cmos.seq /\ cmos \in Record
            /\ Written(CmosSector) # {} /\ Latest(CmosSector) = 0 /\ CmosSector[0] = cmos
        /\ ~(hasCmos /\ cmos # None) => LatestSeq(CmosSector) = 0
  <1> SUFFICES ASSUME TypeOK
               PROVE  /\ hasCmos /\ cmos # None =>
                          /\ LatestSeq(CmosSector) = cmos.seq /\ cmos \in Record
                          /\ Written(CmosSector) # {} /\ Latest(CmosSector) = 0
                          /\ CmosSector[0] = cmos
                      /\ ~(hasCmos /\ cmos # None) => LatestSeq(CmosSector) = 0
    BY Zenon
  <1>1. CmosSector \in Sectors
    BY Zenon, SectorsRead
  <1>2. \A k \in Slots : CmosSector[k] = IF hasCmos /\ k = 0 THEN cmos ELSE None
    BY Zenon, EmptyIs, SlotsAre DEF CmosSector, Empty
  <1>3. CASE hasCmos /\ cmos # None
    <2>1. cmos \in Record /\ cmos.seq > 0 /\ None.seq = 0
      BY Zenon, <1>3, SeqIs DEF TypeOK
    <2>2. Top(CmosSector, 0)
      BY Zenon, <1>2, <1>3, <2>1, SlotsAre DEF Top
    <2>3. CmosSector[0] = cmos
      BY Zenon, <1>2, <1>3, SlotsAre
    <2> QED
      BY Zenon, <1>1, <1>3, <2>1, <2>2, <2>3, TopIs
  <1>4. CASE ~(hasCmos /\ cmos # None)
    <2>1. Written(CmosSector) = {}
      BY Zenon, <1>2, <1>4 DEF Written
    <2> QED
      BY Zenon, <1>1, <1>4, <2>1, LatestSeqIs
  <1> QED
    BY Zenon, <1>3, <1>4

\* read_persistent takes CMOS unless EFI holds a later record.
LEMMA NewestInCmos ==
    /\ TypeOK /\ hasCmos /\ cmos # None
    /\ \A k \in Slots : EfiSector[k].seq <= cmos.seq
    => Newest = cmos
  <1> SUFFICES ASSUME TypeOK, hasCmos, cmos # None,
                      \A k \in Slots : EfiSector[k].seq <= cmos.seq
               PROVE  Newest = cmos
    BY Zenon
  <1>1. EfiSector \in Sectors
    BY Zenon, SectorsRead
  <1>2. PICK k \in Slots : EfiSector[k].seq = LatestSeq(EfiSector)
    BY Zenon, <1>1, LatestSeqIs
  <1>3. /\ LatestSeq(CmosSector) = cmos.seq /\ Written(CmosSector) # {}
        /\ CmosSector[Latest(CmosSector)] = cmos
    BY Zenon, CmosIs
  <1>4. LatestSeq(EfiSector) \in Nat /\ cmos.seq \in Nat
    BY <1>1, LatestSeqIs, SlotsAre, SeqIs DEF TypeOK
  <1>5. ReadPersistent(EfiSector) = CmosSector
    BY <1>2, <1>3, <1>4 DEF ReadPersistent
  <1> QED
    BY Zenon, <1>3, <1>5 DEF Newest, Best

\* The record the next boot finds, when the EFI variable has the newer one.
LEMMA NewestInEfi ==
    TypeOK /\ LatestSeq(EfiSector) > LatestSeq(CmosSector) =>
        /\ Newest = EfiSector[Latest(EfiSector)] /\ Newest.seq = LatestSeq(EfiSector)
        /\ Newest \in Record /\ Latest(EfiSector) \in Slots
  <1> SUFFICES ASSUME TypeOK, LatestSeq(EfiSector) > LatestSeq(CmosSector)
               PROVE  /\ Newest = EfiSector[Latest(EfiSector)]
                      /\ Newest.seq = LatestSeq(EfiSector)
                      /\ Newest \in Record /\ Latest(EfiSector) \in Slots
    BY Zenon
  <1>1. EfiSector \in Sectors /\ CmosSector \in Sectors
    BY Zenon, SectorsRead
  <1>2. LatestSeq(EfiSector) # 0
    BY <1>1, LatestSeqIs
  <1>3. Written(EfiSector) # {}
    BY Zenon, <1>1, <1>2, LatestSeqIs
  <1>4. ReadPersistent(EfiSector) = EfiSector
    BY Zenon DEF ReadPersistent
  <1> QED
    BY Zenon, <1>1, <1>3, <1>4, LatestIs DEF Newest, Best

\* No record in EFI is newer than the newest.
LEMMA NewestIs ==
    TypeOK => /\ Newest \in Record \cup {None}
              /\ \A k \in Slots : EfiSector[k].seq <= Newest.seq
  <1> SUFFICES ASSUME TypeOK
               PROVE  /\ Newest \in Record \cup {None}
                      /\ \A k \in Slots : EfiSector[k].seq <= Newest.seq
    BY Zenon
  <1> DEFINE f == ReadPersistent(EfiSector)
  <1>1. EfiSector \in Sectors /\ CmosSector \in Sectors /\ f \in Sectors
    BY Zenon, SectorsRead
  <1>2. LatestSeq(EfiSector) \in Nat /\ LatestSeq(CmosSector) \in Nat
    BY <1>1, LatestSeqIs, SlotsAre
  <1>3. LatestSeq(EfiSector) <= LatestSeq(f)
    BY <1>2 DEF ReadPersistent
  <1>4. Newest.seq = LatestSeq(f) /\ Newest \in Record \cup {None}
    BY Zenon, <1>1, BestIs DEF Newest
  <1>5. \A k \in Slots : /\ EfiSector[k].seq <= LatestSeq(EfiSector)
                         /\ EfiSector[k].seq \in 0 .. MaxSequence
    BY Zenon, <1>1, LatestSeqIs, SeqIs DEF Sectors
  <1>6. LatestSeq(f) \in Nat
    BY <1>2 DEF ReadPersistent
  <1> HIDE DEF f
  <1>7. \A k \in Slots : EfiSector[k].seq <= LatestSeq(f)
    BY <1>2, <1>3, <1>5, <1>6
  <1> QED
    BY Zenon, <1>4, <1>7

\* What the invariant says of the newest record.
LEMMA InvMeansSurvives == WarmInv => CommittedSurvives
  <1> SUFFICES ASSUME WarmInv, ~missed
               PROVE  /\ pc \in {"idle", "halted"} /\ lastOk => Newest = committed
                      /\ trusted \/ (hasCmos /\ cmos # None) =>
                          /\ Newest.seq >= committed.seq
                          /\ Newest.seq = committed.seq => Newest = committed
    BY Zenon DEF CommittedSurvives
  <1>1. TypeOK
    BY Zenon DEF WarmInv
  <1>2. EfiSector \in Sectors /\ LatestSeq(EfiSector) \in Nat /\ committed.seq \in Nat
    BY <1>1, SectorsRead, LatestSeqIs, SlotsAre, SeqIs DEF TypeOK
  <1>3. lastOk => Newest = committed
    BY Zenon DEF WarmInv
  <1>4. CASE hasCmos /\ cmos # None
    <2>1. cmos = committed /\ LatestSeq(CmosSector) = cmos.seq
      BY Zenon, <1>1, <1>4, CmosIs DEF WarmInv
    <2>2. CASE LatestSeq(EfiSector) > cmos.seq
      <3>1. Newest.seq = LatestSeq(EfiSector)
        BY Zenon, <1>1, <2>1, <2>2, NewestInEfi
      <3> QED
        BY <1>2, <1>3, <2>1, <2>2, <3>1
    <2>3. CASE ~(LatestSeq(EfiSector) > cmos.seq)
      <3>1. \A k \in Slots : EfiSector[k].seq \in 0 .. MaxSequence
                             /\ EfiSector[k].seq <= LatestSeq(EfiSector)
        BY Zenon, <1>2, LatestSeqIs, SeqIs DEF Sectors
      <3>2. \A k \in Slots : EfiSector[k].seq <= cmos.seq
        BY <1>2, <2>1, <2>3, <3>1
      <3>3. Newest = committed
        BY Zenon, <1>1, <1>4, <2>1, <3>2, NewestInCmos
      <3> QED
        BY <1>2, <3>3
    <2> QED
      BY Zenon, <2>2, <2>3
  <1>5. CASE ~(hasCmos /\ cmos # None) /\ trusted
    <2>1. /\ hasEfi /\ committed \in Record /\ EfiSector = efi
          /\ Holds(efi, committed) /\ Agrees(efi, committed)
      BY Zenon, <1>5 DEF WarmInv, EfiSector
    <2>2. LatestSeq(EfiSector) >= committed.seq /\ committed.seq > 0
      <3>1. PICK k \in Slots : efi[k] = committed \/ efi[k].seq > committed.seq
        BY Zenon, <2>1 DEF Holds, Keeps
      <3>2. efi[k].seq <= LatestSeq(EfiSector) /\ efi[k].seq \in 0 .. MaxSequence
        BY Zenon, <1>2, <2>1, LatestSeqIs, SeqIs DEF Sectors
      <3>3. committed.seq > 0
        BY Zenon, <2>1, SeqIs
      <3> QED
        BY <1>2, <3>1, <3>2, <3>3
    <2>3. LatestSeq(EfiSector) > LatestSeq(CmosSector)
      BY <1>1, <1>2, <1>5, <2>2, CmosIs
    <2>4. /\ Newest = efi[Latest(EfiSector)] /\ Newest.seq = LatestSeq(EfiSector)
          /\ Latest(EfiSector) \in Slots
      BY Zenon, <1>1, <2>1, <2>3, NewestInEfi
    <2>5. Newest.seq = committed.seq => Newest = committed
      BY Zenon, <2>1, <2>4 DEF Agrees
    <2> QED
      BY Zenon, <1>3, <2>2, <2>4, <2>5
  <1>6. CASE ~(hasCmos /\ cmos # None) /\ ~trusted
    BY Zenon, <1>3, <1>6
  <1> QED
    BY Zenon, <1>4, <1>5, <1>6

-----------------------------------------------------------------------------
(* The steps of a write *)

\* append_current and the panic path: unless the newest record was not read, the
\* new sector is newer than anything stored, and storing it slot by slot cannot
\* lose a record that EFI holds.
LEMMA AppendStep ==
    ASSUME WarmInv, NEW state \in States, AppendRecord(state),
           stage' \in {"init", "checkpoint", "ready", "running"}, panicActive' \in BOOLEAN
    PROVE  WarmInv'
  <1>1. PICK e \in EfiReads :
           /\ LatestSeq(ReadPersistent(e)) < MaxSequence
           /\ sector' = Appended(ReadPersistent(e), state)
           /\ missed' = (missed \/ Best(ReadPersistent(e)) # Newest)
           /\ gaps' = (gaps \/ e # EfiSector)
           /\ pc' = (IF hasEfi THEN "efi" ELSE "cmos")
           /\ next' = 0 /\ efiOk' = FALSE /\ lastOk' = FALSE
           /\ UNCHANGED <<efi, cmos, hasEfi, hasCmos, committed, trusted>>
    BY Zenon DEF AppendRecord, store, platform
  <1> DEFINE s == ReadPersistent(e)
             n == NextSlot(s)
  <1>2. /\ TypeOK /\ e \in Sectors /\ s \in Sectors /\ (s = e \/ s = CmosSector)
        /\ \A k \in Slots : e[k] = EfiSector[k] \/ e[k] = None
    BY Zenon, EfiRead DEF WarmInv, ReadPersistent
  <1>3. /\ LatestSeq(s) < MaxSequence /\ sector' = Appended(s, state)
        /\ ~missed' => ~missed /\ Best(s) = Newest
    BY Zenon, <1>1
  <1> HIDE DEF s, n
  <1>4. /\ sector' \in Sectors /\ Top(sector', n) /\ sector'[n].seq = LatestSeq(s) + 1
        /\ \A k \in Slots : k # n => sector'[k] = s[k]
        /\ n \in Slots
    BY Zenon, <1>2, <1>3, AppendedIs, NextSlotIs DEF n
  <1>5. TypeOK'
    <2>1. missed' \in BOOLEAN /\ gaps' \in BOOLEAN
      BY Zenon, <1>1
    <2> QED
      BY Zenon, <1>1, <1>2, <1>4, <2>1 DEF TypeOK
  <1>6. /\ Best(s).seq = LatestSeq(s) /\ LatestSeq(s) \in Nat
        /\ \A k \in Slots : EfiSector[k].seq <= Newest.seq /\ EfiSector[k].seq \in Nat
    BY <1>2, BestIs, LatestSeqIs, SlotsAre, NewestIs, SectorsRead, SeqIs DEF Sectors
  <1>7. EfiSector' = EfiSector
    BY Zenon, <1>1 DEF EfiSector
  <1>8. ASSUME ~missed' PROVE Below(EfiSector', sector', n)
    <2>1. \A k \in Slots : EfiSector[k].seq < LatestSeq(s) + 1
      BY <1>3, <1>6, <1>8
    <2> QED
      BY Zenon, <1>4, <1>7, <2>1 DEF Below
  <1>9. ASSUME trusted, ~missed' PROVE Agrees(sector', committed) /\ SafeToStore'
    <2>1. /\ hasEfi /\ committed \in Record /\ EfiSector = efi
          /\ Agrees(efi, committed) /\ Best(s) = Newest /\ ~missed
      BY Zenon, <1>3, <1>9 DEF WarmInv, EfiSector
    <2>2. Newest.seq >= committed.seq /\ (Newest.seq = committed.seq => Newest = committed)
      BY Zenon, <1>9, <2>1, InvMeansSurvives DEF CommittedSurvives
    <2>3. committed.seq > 0 /\ committed.seq \in Nat /\ None.seq = 0
      BY <2>1, SeqIs, SlotsAre
    <2>4. /\ Keeps(Newest, committed) /\ LatestSeq(s) >= committed.seq /\ Newest.seq # None.seq
      BY <1>6, <2>1, <2>2, <2>3 DEF Keeps
    <2>5. Latest(s) \in Slots /\ s[Latest(s)] = Newest /\ Newest # None
      BY Zenon, <1>2, <2>1, <2>4, BestIs
    <2>6. sector'[n].seq > committed.seq /\ sector'[n].seq # committed.seq
      BY <1>4, <1>6, <2>3, <2>4
    <2>7. None.seq # committed.seq
      BY <2>3
    <2>8. CASE s = e
      <3>1. PICK m \in Slots : s[m] = Newest
        BY Zenon, <2>5
      <3>2. efi'[m] = Newest
        BY Zenon, <1>1, <1>2, <2>1, <2>5, <2>8, <3>1
      <3>3. Keeps(sector'[m], committed)
        BY Zenon, <1>4, <2>4, <2>6, <3>1 DEF Keeps
      <3>4. SafeToStore'
        BY Zenon, <1>1, <2>4, <3>2, <3>3 DEF SafeToStore
      <3>5. \A k \in Slots : k # n => sector'[k] = efi[k] \/ sector'[k] = None
        BY Zenon, <1>2, <1>4, <2>1, <2>8
      <3> QED
        BY Zenon, <2>1, <2>6, <2>7, <3>4, <3>5 DEF Agrees
    <2>9. CASE s = CmosSector
      <3>1. hasCmos /\ cmos # None /\ s[0] = cmos
        <4>1. LatestSeq(CmosSector) > 0
          BY <1>6, <2>3, <2>4, <2>9
        <4>2. ~(LatestSeq(CmosSector) = 0)
          BY <4>1
        <4> QED
          BY Zenon, <1>2, <2>9, <4>2, CmosIs
      <3>2. cmos = committed /\ 0 \in Slots
        BY Zenon, <3>1, SlotsAre DEF WarmInv
      <3>3. \A k \in Slots : k # 0 => s[k] = None
        BY Zenon, <2>9, EmptyIs DEF CmosSector, Empty
      <3>4. Keeps(sector'[0], committed)
        BY Zenon, <1>4, <2>6, <3>1, <3>2 DEF Keeps
      <3>5. SafeToStore'
        BY Zenon, <1>1, <3>4 DEF SafeToStore
      <3> QED
        BY Zenon, <1>4, <2>6, <2>7, <3>1, <3>2, <3>3, <3>5 DEF Agrees
    <2> QED
      BY Zenon, <1>2, <2>8, <2>9
  <1>10. next' < Records
    BY <1>1, SlotsAre
  <1>11. /\ pc' \in {"efi", "cmos"} /\ (pc' = "efi" => hasEfi')
         /\ pc' # "cmosEnd" /\ ~lastOk' /\ ~efiOk'
         /\ hasCmos' /\ cmos' # None => cmos' = committed'
    BY Zenon, <1>1 DEF WarmInv
  <1>12. trusted' /\ ~missed' => /\ hasEfi' /\ committed' \in Record
                                 /\ Holds(efi', committed') /\ Agrees(efi', committed')
    BY Zenon, <1>1, <1>3 DEF WarmInv
  <1> QED
    BY Zenon, <1>1, <1>4, <1>5, <1>8, <1>9, <1>10, <1>11, <1>12 DEF WarmInv

\* efi_write: the slot is stored, or the call was dropped and EFI is no longer
\* trusted to hold the committed record.
LEMMA SetVariableStep ==
    ASSUME WarmInv, SetVariable
    PROVE  WarmInv'
  <1>1. /\ pc = "efi" /\ next' = next + 1
        /\ pc' = (IF next + 1 = Records THEN "verify" ELSE "efi")
        /\ UNCHANGED <<cmos, hasEfi, hasCmos, stage, sector, efiOk, panicActive,
                       committed, lastOk, missed, gaps>>
    BY Zenon DEF SetVariable, platform
  <1>2. /\ TypeOK /\ hasEfi /\ ~efiOk /\ ~lastOk /\ next \in Slots /\ next + 1 <= Records
    BY <1>1, SlotsAre DEF WarmInv, TypeOK, Writing, Slots
  <1>3. PICK n \in Slots : Top(sector, n) /\ (~missed => Below(EfiSector, sector, n))
    BY Zenon, <1>1 DEF WarmInv, Writing
  <1>4. EfiSector = efi /\ EfiSector' = efi'
    BY Zenon, <1>1, <1>2 DEF EfiSector
  <1>5. pc' = "efi" => next' < Records
    BY <1>1, <1>2, SlotsAre
  <1>6. TypeOK'
    <2>1. next' \in Nat
      BY <1>1, <1>2 DEF TypeOK
    <2>2. pc' \in {"efi", "verify"} /\ trusted' \in BOOLEAN /\ efi' \in Sectors
      BY Zenon, <1>1, <1>2 DEF SetVariable, TypeOK, Sectors
    <2> QED
      BY Zenon, <1>1, <1>2, <2>1, <2>2 DEF TypeOK
  <1>7. /\ pc' \in {"efi", "verify"} /\ hasEfi' /\ ~efiOk' /\ ~lastOk'
        /\ hasCmos' /\ cmos' # None => cmos' = committed'
    BY Zenon, <1>1, <1>2 DEF WarmInv
  <1>8. CASE efi' = efi /\ trusted' = FALSE
    <2>1. Top(sector', n) /\ (~missed' => Below(EfiSector', sector', n))
      BY Zenon, <1>1, <1>3, <1>4, <1>8
    <2> QED
      BY Zenon, <1>3, <1>5, <1>6, <1>7, <1>8, <2>1 DEF WarmInv
  <1>9. CASE efi' = [efi EXCEPT ![next] = sector[next]] /\ trusted' = trusted
    <2>1. /\ efi'[next] = sector[next]
          /\ \A k \in Slots : k # next => efi'[k] = efi[k]
      BY Zenon, <1>2, <1>9 DEF TypeOK, Sectors
    <2>2. Top(sector', n) /\ (~missed' => Below(EfiSector', sector', n))
      BY Zenon, <1>1, <1>3, <1>4, <2>1 DEF Top, Below
    <2>3. ASSUME trusted, ~missed
          PROVE  /\ committed \in Record /\ Holds(efi', committed)
                 /\ Agrees(efi', committed) /\ Agrees(sector, committed)
                 /\ SafeToStore'
      <3>1. /\ committed \in Record /\ Holds(efi, committed)
            /\ Agrees(efi, committed) /\ Agrees(sector, committed) /\ SafeToStore
        BY Zenon, <1>1, <2>3 DEF WarmInv
      <3>2. Agrees(efi', committed)
        BY Zenon, <2>1, <3>1 DEF Agrees
      <3>3. PICK m \in Slots : Keeps(sector[m], committed) /\ Keeps(efi'[m], committed)
        BY Zenon, <2>1, <3>1, SlotsAre DEF SafeToStore
      <3> QED
        BY Zenon, <1>1, <3>1, <3>2, <3>3 DEF Holds, SafeToStore
    <2> QED
      BY Zenon, <1>1, <1>3, <1>5, <1>6, <1>7, <1>9, <2>2, <2>3 DEF WarmInv
  <1> QED
    BY Zenon, <1>8, <1>9 DEF SetVariable

\* The read-back, a failed call and the start of the CMOS write.
LEMMA QuietStep ==
    ASSUME WarmInv, SetVariableFails \/ Verify \/ CmosBegin
    PROVE  WarmInv'
  <1>1. /\ Writing /\ TypeOK /\ ~lastOk
        /\ UNCHANGED <<efi, hasEfi, hasCmos, stage, sector, panicActive,
                       committed, trusted, lastOk, missed, gaps>>
        /\ next' = 0 \/ next' = next
        /\ pc' \in {"cmos", "cmosEnd"} /\ (pc' = "cmosEnd" => hasCmos)
        /\ cmos' = cmos \/ cmos' = None
    BY Zenon DEF WarmInv, SetVariableFails, Verify, CmosBegin, Writing, store, platform, history
  <1>2. /\ efiOk' \in BOOLEAN
        /\ efiOk' => hasEfi /\ \A k \in Slots : sector[k] # None => efi[k] = sector[k]
    <2>1. CASE SetVariableFails \/ CmosBegin
      <3>1. efiOk' = efiOk
        BY Zenon, <2>1 DEF SetVariableFails, CmosBegin
      <3> QED
        BY <1>1, <3>1 DEF WarmInv, TypeOK
    <2>2. CASE Verify
      <3>1. PICK e \in EfiReads : efiOk' = (e = sector)
        BY Zenon, <2>2 DEF Verify
      <3>2. hasEfi /\ EfiSector = efi
        BY Zenon, <2>2 DEF Verify, WarmInv, EfiSector
      <3> QED
        BY Zenon, <1>1, <3>1, <3>2, EfiRead
    <2> QED
      BY Zenon, <2>1, <2>2
  <1>3. PICK n \in Slots : Top(sector, n) /\ (~missed => Below(EfiSector, sector, n))
    BY Zenon, <1>1 DEF WarmInv
  <1>4. EfiSector' = EfiSector
    BY Zenon, <1>1 DEF EfiSector
  <1>5. TypeOK'
    <2>1. next' \in Nat
      BY <1>1 DEF TypeOK
    <2> QED
      BY Zenon, <1>1, <1>2, <2>1 DEF TypeOK
  <1>6. trusted' /\ ~missed' => /\ hasEfi' /\ committed' \in Record
                                /\ Holds(efi', committed') /\ Agrees(efi', committed')
    BY Zenon, <1>1 DEF WarmInv
  <1>7. hasCmos' /\ cmos' # None => cmos' = committed'
    BY Zenon, <1>1 DEF WarmInv
  <1>8. Top(sector', n) /\ (~missed' => Below(EfiSector', sector', n))
    BY Zenon, <1>1, <1>3, <1>4
  <1>9. efiOk' => hasEfi' /\ \A k \in Slots : sector'[k] # None => efi'[k] = sector'[k]
    BY Zenon, <1>1, <1>2
  <1>10. pc' \notin {"efi", "verify"} /\ ~lastOk' /\ (pc' = "cmosEnd" => hasCmos')
    BY Zenon, <1>1
  <1> QED
    BY Zenon, <1>3, <1>5, <1>6, <1>7, <1>8, <1>9, <1>10 DEF WarmInv

\* write_persistent returns: what it reports as committed is the newest record,
\* if the newest was known when the write began or nothing else is left of it.
LEMMA ReturnStep ==
    ASSUME WarmInv, CmosEnd \/ NoCmos
    PROVE  WarmInv'
  <1>1. /\ Writing /\ TypeOK /\ ~lastOk
        /\ UNCHANGED <<efi, hasEfi, hasCmos, panicActive, gaps>>
        /\ sector' = Empty /\ next' = 0 /\ efiOk' = FALSE
        /\ pc' \in {"idle", "halted"}
        /\ stage' \in {"init", "checkpoint", "ready", "running"}
    BY Zenon DEF WarmInv, CmosEnd, NoCmos, Return, NoLocals, Writing, platform, TypeOK
  <1>2. PICK n \in Slots : Top(sector, n) /\ (~missed => Below(EfiSector, sector, n))
    BY Zenon, <1>1 DEF WarmInv
  <1>3. /\ Latest(sector) = n /\ LatestSeq(sector) = sector[n].seq /\ sector[n] \in Record
        /\ sector \in Sectors /\ sector[n] # None
    BY Zenon, <1>1, <1>2, TopIs, SeqIs DEF TypeOK, Top
  <1>4. EfiSector' = EfiSector /\ EfiSector \in Sectors
    BY Zenon, <1>1, SectorsRead DEF EfiSector
  <1>5. ~Writing' /\ pc' \notin {"efi", "verify", "cmosEnd"} /\ ~efiOk'
    BY Zenon, <1>1 DEF Writing
  <1>6. CASE CmosEnd \/ (NoCmos /\ efiOk)
    <2>1. /\ committed' = sector[n] /\ trusted' = efiOk
          /\ lastOk' = TRUE /\ missed' = (missed /\ ~(efi = sector))
      BY Zenon, <1>3, <1>6 DEF CmosEnd, NoCmos, Return, WarmInv, TypeOK
    <2>2. CmosEnd => hasCmos /\ cmos' = sector[n]
      BY Zenon, <1>3 DEF CmosEnd, WarmInv
    <2>3. NoCmos => ~hasCmos /\ cmos' = cmos
      BY Zenon DEF NoCmos
    <2>4. TypeOK'
      <3>1. missed' \in BOOLEAN /\ trusted' \in BOOLEAN /\ lastOk' \in BOOLEAN
        BY Zenon, <1>1, <2>1 DEF TypeOK
      <3>2. next' \in Nat /\ efiOk' \in BOOLEAN /\ sector' \in Sectors
        BY Zenon, <1>1, EmptyIs
      <3>3. cmos' \in Record \cup {None} /\ committed' \in Record \cup {None}
        BY Zenon, <1>1, <1>3, <1>6, <2>1, <2>2, <2>3 DEF TypeOK
      <3> QED
        BY Zenon, <1>1, <3>1, <3>2, <3>3 DEF TypeOK
    <2>5. hasCmos' /\ cmos' # None => cmos' = committed'
      BY Zenon, <1>1, <1>6, <2>1, <2>2, <2>3
    <2>6. ASSUME ~missed' PROVE Below(EfiSector, sector, n)
      <3>1. CASE ~missed
        BY Zenon, <1>2, <3>1
      <3>2. CASE efi = sector
        <4>1. EfiSector = sector \/ EfiSector = Empty
          BY Zenon, <3>2 DEF EfiSector
        <4>2. \A k \in Slots : Empty[k].seq < sector[n].seq
          BY Zenon, <1>3, EmptyIs, SeqIs
        <4> QED
          BY Zenon, <1>2, <4>1, <4>2 DEF Below, Top
      <3> QED
        BY Zenon, <2>1, <2>6, <3>1, <3>2
    <2>7. ASSUME ~missed' PROVE Newest' = committed'
      <3>1. Below(EfiSector, sector, n)
        BY Zenon, <2>6, <2>7
      <3>2. \A k \in Slots : EfiSector[k].seq \in Nat
        BY <1>4, SeqIs, SlotsAre DEF Sectors
      <3>3. sector[n].seq \in Nat
        BY <1>3, SeqIs, SlotsAre
      <3>4. \A k \in Slots : EfiSector[k].seq <= sector[n].seq
        BY <3>1, <3>2, <3>3 DEF Below
      <3>5. CASE CmosEnd
        <4>1. (/\ TypeOK /\ hasCmos /\ cmos # None
               /\ \A k \in Slots : EfiSector[k].seq <= cmos.seq
               => Newest = cmos)'
          BY NewestInCmos, PTL
        <4> QED
          BY Zenon, <1>1, <1>3, <1>4, <2>1, <2>2, <2>4, <3>4, <3>5, <4>1
      <3>6. CASE NoCmos /\ efiOk
        <4>1. hasEfi /\ EfiSector = efi /\ efi[n] = sector[n]
          BY Zenon, <1>3, <3>6 DEF WarmInv, EfiSector
        <4>2. Top(EfiSector, n)
          <5>1. \A k \in Slots : k # n => EfiSector[k].seq < sector[n].seq
            BY Zenon, <3>1 DEF Below
          <5> QED
            BY Zenon, <1>3, <4>1, <5>1 DEF Top
        <4>3. Latest(EfiSector) = n /\ LatestSeq(EfiSector) = sector[n].seq /\ sector[n].seq > 0
          BY Zenon, <1>3, <1>4, <4>1, <4>2, TopIs, SeqIs
        <4>4. (TypeOK /\ ~(hasCmos /\ cmos # None) => LatestSeq(CmosSector) = 0)'
          BY CmosIs, PTL
        <4>5. (TypeOK /\ LatestSeq(EfiSector) > LatestSeq(CmosSector) =>
                  Newest = EfiSector[Latest(EfiSector)])'
          BY NewestInEfi, PTL
        <4>6. LatestSeq(CmosSector)' = 0
          BY Zenon, <1>1, <2>3, <2>4, <3>6, <4>4
        <4>7. LatestSeq(EfiSector)' = sector[n].seq /\ Latest(EfiSector)' = n
          BY Zenon, <1>4, <4>3
        <4> QED
          BY Zenon, <1>4, <2>1, <2>4, <4>1, <4>3, <4>5, <4>6, <4>7
      <3> QED
        BY Zenon, <1>6, <3>5, <3>6
    <2>8. ASSUME trusted', ~missed'
          PROVE  /\ hasEfi' /\ committed' \in Record
                 /\ Holds(efi', committed') /\ Agrees(efi', committed')
      <3>1. hasEfi /\ EfiSector = efi /\ efi[n] = sector[n]
        BY Zenon, <1>3, <2>1, <2>8 DEF WarmInv, EfiSector
      <3>2. \A k \in Slots : efi[k].seq < sector[n].seq \/ efi[k] = sector[n]
        BY Zenon, <2>6, <2>8, <3>1 DEF Below
      <3>3. \A k \in Slots : efi[k].seq \in Nat /\ sector[n].seq \in Nat
        BY <1>3, <1>4, <3>1, SeqIs, SlotsAre DEF Sectors
      <3>4. Agrees(efi, sector[n])
        BY <3>2, <3>3 DEF Agrees
      <3> QED
        BY Zenon, <1>1, <1>3, <2>1, <3>1, <3>4 DEF Holds, Keeps
    <2> QED
      BY Zenon, <1>5, <2>4, <2>5, <2>7, <2>8 DEF WarmInv
  <1>7. CASE NoCmos /\ ~efiOk
    <2>1. /\ UNCHANGED <<cmos, committed, trusted>> /\ ~lastOk' /\ ~hasCmos
          /\ missed' = missed
      <3>1. efiOk = FALSE /\ missed \in BOOLEAN
        BY Zenon, <1>1, <1>7 DEF TypeOK
      <3> QED
        BY Zenon, <1>7, <3>1 DEF NoCmos, Return
    <2>2. TypeOK'
      <3>1. next' \in Nat /\ efiOk' \in BOOLEAN /\ sector' \in Sectors /\ lastOk' \in BOOLEAN
        BY Zenon, <1>1, <1>7, EmptyIs DEF NoCmos, Return, TypeOK
      <3> QED
        BY Zenon, <1>1, <2>1, <3>1 DEF TypeOK
    <2>3. trusted' /\ ~missed' => /\ hasEfi' /\ committed' \in Record
                                  /\ Holds(efi', committed') /\ Agrees(efi', committed')
      BY Zenon, <1>1, <2>1 DEF WarmInv
    <2> QED
      BY Zenon, <1>1, <1>5, <2>1, <2>2, <2>3 DEF WarmInv
  <1> QED
    BY Zenon, <1>6, <1>7

\* A second panic and a reset touch no record.
LEMMA CrashStep ==
    ASSUME WarmInv, PanicAgain \/ Reset
    PROVE  WarmInv'
  <1>1. /\ TypeOK /\ pc' \in {"idle", "halted"}
        /\ UNCHANGED <<efi, cmos, hasEfi, hasCmos, committed, trusted, lastOk, missed, gaps>>
        /\ stage' \in {"init", "checkpoint", "ready", "running"}
        /\ panicActive' \in BOOLEAN
        /\ sector' = Empty /\ next' = 0 /\ efiOk' = FALSE
    <2>1. CASE PanicAgain
      BY Zenon, <2>1 DEF WarmInv, PanicAgain, NoLocals, store, platform, history, TypeOK
    <2>2. CASE Reset
      BY Zenon, <2>2 DEF WarmInv, Reset, NoLocals, store, platform, history
    <2> QED
      BY Zenon, <2>1, <2>2
  <1>2. TypeOK'
    <2>1. next' \in Nat /\ efiOk' \in BOOLEAN
      BY Zenon, <1>1
    <2> QED
      BY Zenon, <1>1, <2>1, EmptyIs DEF TypeOK
  <1>3. Newest' = Newest
    BY <1>1 DEF Newest, Best, ReadPersistent, EfiSector, CmosSector
  <1> QED
    BY Zenon, <1>1, <1>2, <1>3 DEF WarmInv, Writing

-----------------------------------------------------------------------------
(* The ring of slots *)

\* A remainder is what is left of a multiple.
LEMMA ModIs ==
    ASSUME NEW n \in Nat \ {0}, NEW q \in Int, NEW r \in 0 .. n - 1
    PROVE  (q * n + r) % n = r
  OBVIOUS

\* Steps from slot k forward to the slot of m, and to the slot after that.
LEMMA Distance ==
    ASSUME NEW m \in Nat, NEW k \in Slots
    PROVE  /\ m % Records \in Slots
           /\ (m - k) % Records = IF (m % Records) >= k THEN (m % Records) - k
                                  ELSE (m % Records) - k + Records
           /\ (m + 1) % Records = IF (m % Records) + 1 = Records THEN 0 ELSE (m % Records) + 1
  <1> DEFINE r == m % Records
             q == m \div Records
  <1>1. /\ Records \in Nat \ {0} /\ r \in 0 .. Records - 1 /\ q \in Int
        /\ m = q * Records + r /\ k \in 0 .. Records - 1
    BY SlotsAre DEF Slots
  <1> HIDE DEF r, q
  <1>2. (m + 1) % Records = IF r + 1 = Records THEN 0 ELSE r + 1
    <2>1. CASE r + 1 = Records
      <3>1. m + 1 = (q + 1) * Records + 0
        BY <1>1, <2>1
      <3> QED
        BY <1>1, <2>1, <3>1, ModIs
    <2>2. CASE r + 1 # Records
      <3>1. m + 1 = q * Records + (r + 1) /\ r + 1 \in 0 .. Records - 1
        BY <1>1, <2>2
      <3> QED
        BY Zenon, <1>1, <2>2, <3>1, ModIs
    <2> QED
      BY Zenon, <2>1, <2>2
  <1>3. (m - k) % Records = IF r >= k THEN r - k ELSE r - k + Records
    <2>1. CASE r >= k
      <3>1. m - k = q * Records + (r - k) /\ r - k \in 0 .. Records - 1
        BY <1>1, <2>1
      <3> QED
        BY Zenon, <1>1, <2>1, <3>1, ModIs
    <2>2. CASE r < k
      <3>1. /\ m - k = (q - 1) * Records + (r - k + Records)
            /\ r - k + Records \in 0 .. Records - 1 /\ q - 1 \in Int
        BY <1>1, <2>2
      <3>2. (m - k) % Records = r - k + Records
        BY Zenon, <1>1, <3>1, ModIs
      <3>3. ~(r >= k)
        BY <1>1, <2>2
      <3> QED
        BY Zenon, <3>2, <3>3
    <2> QED
      BY <1>1, <2>1, <2>2
  <1> QED
    BY Zenon, <1>1, <1>2, <1>3 DEF r, Slots

\* A log of n records: the newest has number n and is in slot (n - 1) % Records.
LEMMA RingLatest ==
    ASSUME NEW s \in Sectors, NEW n \in Nat, Ring(s, n)
    PROVE  /\ LatestSeq(s) = n
           /\ n > 0 => Written(s) # {} /\ Latest(s) = (n - 1) % Records
           /\ n = 0 => Written(s) = {}
  <1>1. CASE n = 0
    <2>1. \A k \in Slots : s[k].seq = 0
      BY <1>1 DEF Ring
    <2>2. LatestSeq(s) = 0
      BY Zenon, <2>1, LatestSeqIs
    <2> QED
      BY <1>1, <2>2, LatestSeqIs
  <1>2. CASE n > 0
    <2> DEFINE r == (n - 1) % Records
    <2>1. n - 1 \in Nat /\ r \in Slots /\ Slots \subseteq Nat /\ Records \in Nat \ {0}
      <3>1. n - 1 \in Nat /\ 0 \in Slots /\ Slots \subseteq Nat /\ Records \in Nat \ {0}
        BY <1>2, SlotsAre
      <3>2. (n - 1) % Records \in Slots
        BY Zenon, <3>1, Distance
      <3> QED
        BY Zenon, <3>1, <3>2
    <2> HIDE DEF r
    <2>2. \A k \in Slots : /\ (n - 1 - k) % Records = (IF r >= k THEN r - k ELSE r - k + Records)
                           /\ RingSeq(n, k) = n - (IF r >= k THEN r - k ELSE r - k + Records)
      <3>1. \A k \in Slots : (n - 1 - k) % Records = (IF r >= k THEN r - k ELSE r - k + Records)
        BY Zenon, <2>1, Distance DEF r
      <3> QED
        BY Zenon, <3>1 DEF RingSeq
    <2>3. s[r].seq = n
      <3>1. RingSeq(n, r) = n
        BY <2>1, <2>2
      <3> QED
        BY Zenon, <1>2, <2>1, <3>1 DEF Ring
    <2>4. \A k \in Slots : k # r => s[k].seq < n
      <3> SUFFICES ASSUME NEW k \in Slots, k # r PROVE s[k].seq < n
        BY Zenon
      <3>1. RingSeq(n, k) < n /\ RingSeq(n, k) \in Int
        BY <1>2, <2>1, <2>2 DEF Slots
      <3>2. s[k].seq = IF RingSeq(n, k) > 0 THEN RingSeq(n, k) ELSE 0
        BY Zenon, <1>2 DEF Ring
      <3> QED
        BY Zenon, <1>2, <3>1, <3>2
    <2>5. Top(s, r)
      <3>1. s[r] \in Record
        BY Zenon, <1>2, <2>1, <2>3, SeqIs DEF Sectors
      <3> QED
        BY Zenon, <2>1, <2>3, <2>4, <3>1 DEF Top
    <2> QED
      BY <1>2, <2>3, <2>5, TopIs DEF r
  <1> QED
    BY <1>1, <1>2

\* append_record goes on with the ring.
LEMMA RingAppended ==
    ASSUME NEW s \in Sectors, NEW n \in Nat, Ring(s, n), n < MaxSequence,
           NEW state \in States, NEW a, a = Appended(s, state)
    PROVE  Ring(a, n + 1) /\ \A k \in Slots : k # n % Records => s[k] = a[k]
  <1>1. LatestSeq(s) = n
    BY Zenon, RingLatest
  <1>2. Records \in Nat \ {0} /\ Slots \subseteq Nat /\ 0 \in Slots
    BY Zenon, SlotsAre
  <1>3. NextSlot(s) = n % Records /\ n % Records \in Slots
    <2>1. CASE n = 0
      BY <1>2, <2>1, RingLatest DEF NextSlot
    <2>2. CASE n > 0
      <3>1. Latest(s) = (n - 1) % Records /\ Written(s) # {} /\ n - 1 \in Nat
        BY <2>2, RingLatest
      <3>2. /\ (n - 1) % Records \in Slots /\ n % Records \in Slots
            /\ ((n - 1) + 1) % Records = IF ((n - 1) % Records) + 1 = Records THEN 0
                                         ELSE ((n - 1) % Records) + 1
        BY Zenon, <1>2, <3>1, Distance
      <3>3. (((n - 1) % Records) + 1) % Records = IF ((n - 1) % Records) + 1 = Records THEN 0
                                                ELSE ((n - 1) % Records) + 1
        BY <1>2, <3>2 DEF Slots
      <3>4. (n - 1) + 1 = n
        OBVIOUS
      <3> QED
        BY Zenon, <3>1, <3>2, <3>3, <3>4 DEF NextSlot
    <2> QED
      BY <2>1, <2>2
  <1>4. /\ a[n % Records].seq = n + 1
        /\ \A k \in Slots : k # n % Records => a[k] = s[k]
    BY Zenon, <1>1, <1>3, AppendedIs
  <1>5. ASSUME NEW k \in Slots
        PROVE  a[k].seq = IF n + 1 > 0 /\ RingSeq(n + 1, k) > 0 THEN RingSeq(n + 1, k) ELSE 0
    <2> DEFINE r == n % Records
    <2>1. (n - k) % Records = IF r >= k THEN r - k ELSE r - k + Records
      BY Zenon, Distance
    <2>2. RingSeq(n + 1, k) = (n + 1) - (IF r >= k THEN r - k ELSE r - k + Records)
      <3>1. ((n + 1) - 1 - k) % Records = (n - k) % Records
        <4>1. (n + 1) - 1 - k = n - k
          BY <1>2
        <4> QED
          BY Zenon, <4>1, Zenon
      <3>2. RingSeq(n + 1, k) = (n + 1) - ((n - k) % Records)
        BY Zenon, <3>1, Zenon DEF RingSeq
      <3> QED
        BY Zenon, <2>1, <3>2
    <2> HIDE DEF r
    <2>3. CASE k = r
      BY <1>2, <1>4, <2>2, <2>3 DEF r
    <2>4. CASE k # r
      <3>1. a[k].seq = IF n > 0 /\ RingSeq(n, k) > 0 THEN RingSeq(n, k) ELSE 0
        BY Zenon, <1>4, <2>4 DEF Ring, r
      <3>2. r \in 0 .. Records - 1 /\ k \in 0 .. Records - 1
        BY Zenon, <1>3 DEF Slots, r
      <3>3. CASE n = 0
        <4>1. r = 0
          BY <1>2, <3>3 DEF r
        <4> QED
          BY <1>2, <2>2, <2>4, <3>1, <3>2, <3>3, <4>1
      <3>4. CASE n > 0
        <4> DEFINE p == (n - 1) % Records
        <4>1. n - 1 \in Nat /\ (n - 1) + 1 = n
          BY <3>4
        <4>2. /\ p \in Slots
              /\ ((n - 1) - k) % Records = IF p >= k THEN p - k ELSE p - k + Records
              /\ ((n - 1) + 1) % Records = IF p + 1 = Records THEN 0 ELSE p + 1
          BY Zenon, <4>1, Distance
        <4> HIDE DEF p
        <4>3. r = (IF p + 1 = Records THEN 0 ELSE p + 1) /\ p \in 0 .. Records - 1
          BY Zenon, <4>1, <4>2 DEF r, Slots
        <4>4. RingSeq(n, k) = n - (IF p >= k THEN p - k ELSE p - k + Records)
          BY Zenon, <4>2 DEF RingSeq
        <4>5. RingSeq(n, k) = RingSeq(n + 1, k)
          BY <1>2, <2>2, <2>4, <3>2, <4>3, <4>4
        <4> QED
          BY <3>1, <3>4, <4>5
      <3> QED
        BY <3>3, <3>4
    <2> QED
      BY Zenon, <2>3, <2>4
  <1> QED
    BY Zenon, <1>4, <1>5 DEF Ring

\* append_record puts the following record into the following place.
LEMMA InPlaceAppended ==
    ASSUME NEW s \in Sectors, InPlace(s), LatestSeq(s) < MaxSequence, NEW state \in States
    PROVE  InPlace(Appended(s, state))
  <1> DEFINE a == Appended(s, state)
             n == NextSlot(s)
  <1>1. a[n].seq = LatestSeq(s) + 1 /\ \A k \in Slots : k # n => a[k] = s[k]
    BY Zenon, AppendedIs
  <1>2. LatestSeq(s) \in Nat /\ Records \in Nat \ {0} /\ Slots \subseteq Nat /\ 0 \in Slots
    BY LatestSeqIs, SlotsAre
  <1>3. LatestSeq(s) % Records = n
    <2>1. CASE Written(s) = {}
      <3>1. LatestSeq(s) = 0 /\ n = 0
        BY Zenon, <2>1, LatestSeqIs DEF NextSlot
      <3> QED
        BY <1>2, <3>1
    <2>2. CASE Written(s) # {}
      <3> DEFINE m == LatestSeq(s) - 1
                 l == Latest(s)
      <3>1. l \in Slots /\ s[l].seq = LatestSeq(s) /\ s[l] # None /\ LatestSeq(s) # 0
        BY Zenon, <2>2, LatestIs, LatestSeqIs, SeqIs
      <3>2. m % Records = l
        BY Zenon, <3>1 DEF InPlace
      <3>3. m \in Nat /\ m + 1 = LatestSeq(s)
        BY <1>2, <3>1
      <3>4. n = (l + 1) % Records
        BY Zenon, <2>2 DEF NextSlot
      <3> HIDE DEF m, l, n
      <3>5. LatestSeq(s) % Records = IF l + 1 = Records THEN 0 ELSE l + 1
        BY Zenon, <1>2, <3>2, <3>3, Distance
      <3>6. (l + 1) % Records = IF l + 1 = Records THEN 0 ELSE l + 1
        BY <1>2, <3>1 DEF Slots
      <3> QED
        BY <3>4, <3>5, <3>6
    <2> QED
      BY Zenon, <2>1, <2>2
  <1>4. (LatestSeq(s) + 1) - 1 = LatestSeq(s)
    BY <1>2
  <1> HIDE DEF a, n
  <1>5. (a[n].seq - 1) % Records = n
    BY Zenon, <1>1, <1>3, <1>4
  <1>6. \A k \in Slots : a[k] # None => (a[k].seq - 1) % Records = k
    BY Zenon, <1>1, <1>5 DEF InPlace
  <1> QED
    BY Zenon, <1>6 DEF InPlace, a

\* Without CMOS, read_persistent returns the EFI sector.
LEMMA ReadsEfi ==
    ASSUME TypeOK, hasEfi, ~hasCmos
    PROVE  ReadPersistent(EfiSector) = efi
  <1>1. EfiSector = efi /\ CmosSector = Empty
    BY Zenon DEF EfiSector, CmosSector
  <1>2. LatestSeq(Empty) = 0 /\ Empty \in Sectors
    BY Zenon, EmptyIs, LatestSeqIs DEF Written
  <1>3. CASE LatestSeq(efi) > 0
    BY Zenon, <1>1, <1>2, <1>3 DEF ReadPersistent
  <1>4. CASE ~(LatestSeq(efi) > 0)
    <2>1. \A k \in Slots : efi[k] = None
      <3>1. LatestSeq(efi) \in 0 .. MaxSequence /\ \A k \in Slots : efi[k].seq <= LatestSeq(efi)
        BY Zenon, LatestSeqIs DEF TypeOK
      <3>2. \A k \in Slots : efi[k].seq \in 0 .. MaxSequence /\ (efi[k] = None <=> efi[k].seq = 0)
        BY Zenon, SeqIs DEF TypeOK, Sectors
      <3> QED
        BY <1>4, <3>1, <3>2
    <2>2. efi = Empty
      BY Zenon, <2>1 DEF TypeOK, Sectors, Empty
    <2> QED
      BY Zenon, <1>1, <2>2 DEF ReadPersistent
  <1> QED
    BY Zenon, <1>3, <1>4

\* append_current: the sector to be written goes on with the ring in EFI.
LEMMA RingAppendStep ==
    ASSUME WarmInv, RingInv, NEW state \in States, AppendRecord(state)
    PROVE  RingInv'
  <1>1. PICK e \in EfiReads :
           /\ UNCHANGED <<efi, hasEfi, hasCmos>>
           /\ sector' = Appended(ReadPersistent(e), state)
           /\ LatestSeq(ReadPersistent(e)) < MaxSequence
           /\ gaps' = (gaps \/ e # EfiSector)
    BY Zenon DEF AppendRecord, store, platform
  <1>2. /\ TypeOK /\ e \in Sectors /\ ReadPersistent(e) \in Sectors
        /\ \A k \in Slots : e[k] = EfiSector[k] \/ e[k] = None
    BY Zenon, EfiRead DEF WarmInv
  <1>3. ASSUME ~hasCmos PROVE InPlace(sector')
    <2>1. InPlace(efi) /\ InPlace(Empty)
      BY Zenon, <1>3, EmptyIs DEF RingInv, InPlace
    <2>2. InPlace(EfiSector)
      BY Zenon, <2>1 DEF EfiSector
    <2>3. InPlace(e)
      BY Zenon, <1>2, <2>2 DEF InPlace
    <2>4. ReadPersistent(e) = e \/ ReadPersistent(e) = Empty
      BY Zenon, <1>3 DEF ReadPersistent, CmosSector
    <2>5. InPlace(ReadPersistent(e))
      BY Zenon, <2>1, <2>3, <2>4
    <2> QED
      BY Zenon, <1>1, <1>2, <2>5, InPlaceAppended
  <1>4. ASSUME ~hasCmos, hasEfi, ~gaps'
        PROVE  \E n \in Nat : /\ Ring(efi, n) /\ Ring(sector', n + 1)
                              /\ \A k \in Slots : k # n % Records => efi[k] = sector'[k]
    <2>1. ~gaps /\ e = EfiSector
      BY Zenon, <1>1, <1>4
    <2>2. PICK n \in Nat : Ring(efi, n)
      BY Zenon, <1>4, <2>1 DEF RingInv
    <2>3. ReadPersistent(e) = efi /\ efi \in Sectors
      BY Zenon, <1>2, <1>4, <2>1, ReadsEfi DEF TypeOK
    <2>4. n < MaxSequence
      BY Zenon, <1>1, <2>2, <2>3, RingLatest
    <2> QED
      BY <1>1, <2>2, <2>3, <2>4, RingAppended
  <1> QED
    BY Zenon, <1>1, <1>3, <1>4 DEF RingInv

\* efi_write: of all slots only that of the new record differs from EFI, so
\* one stored variable turns the old ring into the new one.
LEMMA RingSetStep ==
    ASSUME WarmInv, RingInv, SetVariable
    PROVE  RingInv'
  <1>1. /\ UNCHANGED <<hasEfi, hasCmos, sector, gaps>> /\ TypeOK /\ hasEfi /\ pc = "efi"
        /\ next \in Slots
        /\ efi' = efi \/ efi' = [efi EXCEPT ![next] = sector[next]]
    BY SlotsAre DEF SetVariable, platform, WarmInv, TypeOK, Slots
  <1>2. ASSUME ~hasCmos, ~gaps
        PROVE  \E n \in Nat : /\ Ring(sector, n + 1)
                              /\ Ring(efi', n) \/ Ring(efi', n + 1)
                              /\ \A k \in Slots : k # n % Records => efi'[k] = sector[k]
    <2>1. PICK n \in Nat : /\ Ring(sector, n + 1)
                           /\ Ring(efi, n) \/ Ring(efi, n + 1)
                           /\ \A k \in Slots : k # n % Records => efi[k] = sector[k]
      BY Zenon, <1>1, <1>2 DEF RingInv
    <2>2. efi \in Sectors /\ sector \in Sectors
      BY Zenon, <1>1 DEF TypeOK
    <2>3. efi' = efi \/ efi' = sector
      <3>1. CASE efi' = [efi EXCEPT ![next] = sector[next]] /\ next # n % Records
        BY Zenon, <1>1, <2>1, <2>2, <3>1 DEF Sectors
      <3>2. CASE efi' = [efi EXCEPT ![next] = sector[next]] /\ next = n % Records
        BY Zenon, <1>1, <2>1, <2>2, <3>2 DEF Sectors
      <3> QED
        BY Zenon, <1>1, <3>1, <3>2
    <2> QED
      BY Zenon, <2>1, <2>3
  <1>3. \E n \in Nat : ~hasCmos /\ ~gaps => Ring(efi', n)
    <2>1. CASE ~hasCmos /\ ~gaps
      <3>1. PICK n \in Nat : Ring(efi', n) \/ Ring(efi', n + 1)
        BY Zenon, <1>2, <2>1
      <3>2. n + 1 \in Nat
        OBVIOUS
      <3> QED
        BY Zenon, <3>1, <3>2
    <2>2. CASE ~(~hasCmos /\ ~gaps)
      <3>1. 0 \in Nat
        BY Zenon
      <3> QED
        BY Zenon, <2>2, <3>1
    <2> QED
      BY Zenon, <2>1, <2>2
  <1>4. ~hasCmos => InPlace(efi') /\ InPlace(sector)
    <2>1. \A k \in Slots : efi'[k] = efi[k] \/ efi'[k] = sector[k]
      BY Zenon, <1>1 DEF TypeOK, Sectors
    <2> QED
      BY Zenon, <2>1 DEF RingInv, InPlace
  <1> QED
    BY Zenon, <1>1, <1>2, <1>3, <1>4 DEF RingInv

\* Every other step leaves the variables alone.
LEMMA RingOtherStep ==
    ASSUME RingInv, \/ SetVariableFails \/ Verify \/ CmosBegin \/ CmosEnd \/ NoCmos
                    \/ PanicAgain \/ Reset
    PROVE  RingInv'
  <1>0. InPlace(Empty)
    BY Zenon, EmptyIs DEF InPlace
  <1>1. /\ UNCHANGED <<efi, hasEfi, hasCmos, gaps>> /\ pc' # "efi"
        /\ sector' = sector \/ sector' = Empty
    BY Zenon DEF SetVariableFails, Verify, CmosBegin, CmosEnd, NoCmos, Return, PanicAgain, Reset,
           NoLocals, store, platform, history
  <1> QED
    BY Zenon, <1>0, <1>1 DEF RingInv

\* A ring read backwards from its newest record falls by one at each slot.
LEMMA InvMeansIntact ==
    ASSUME WarmInv, RingInv
    PROVE  RingIntact
  <1>a. ~hasCmos => \A k \in Written(efi) : (efi[k].seq - 1) % Records = k
    BY Zenon DEF RingInv, InPlace, Written
  <1> SUFFICES ASSUME ~hasCmos, ~gaps, NEW k \in 0 .. Records - 1, LatestSeq(efi) > k
               PROVE  efi[(Latest(efi) + Records - k) % Records].seq = LatestSeq(efi) - k
    BY Zenon, <1>a DEF RingIntact
  <1>b. Written(efi) # {}
    <2>1. efi \in Sectors /\ LatestSeq(efi) \in Nat
      BY SlotsAre, LatestSeqIs DEF WarmInv, TypeOK
    <2>2. LatestSeq(efi) # 0
      BY <2>1, SlotsAre
    <2> QED
      BY Zenon, <2>1, <2>2, LatestSeqIs
  <1>1. hasEfi
    <2>1. efi # Empty
      BY Zenon, <1>b, EmptyIs DEF Written, Empty
    <2> QED
      BY Zenon, <2>1 DEF RingInv
  <1>2. PICK n \in Nat : Ring(efi, n)
    BY Zenon, <1>1 DEF RingInv
  <1>3. efi \in Sectors /\ Records \in Nat \ {0} /\ k \in Slots
    BY Zenon, SlotsAre DEF WarmInv, TypeOK, Slots
  <1>4. LatestSeq(efi) = n /\ n > 0 /\ Latest(efi) = (n - 1) % Records /\ n > k /\ n - 1 \in Nat
    BY <1>2, <1>3, <1>b, RingLatest
  <1> DEFINE r == (n - 1) % Records
             j == IF r >= k THEN r - k ELSE r - k + Records
  <1>5. r \in 0 .. Records - 1 /\ k \in 0 .. Records - 1
    BY Zenon, <1>3, <1>4, Distance DEF Slots
  <1> HIDE DEF r
  <1>6. j \in Slots /\ Slots \subseteq Nat
    BY <1>3, <1>5 DEF Slots
  <1>7. (r + Records - k) % Records = j
    <2>1. CASE r >= k
      <3>1. r + Records - k = 1 * Records + (r - k) /\ r - k \in 0 .. Records - 1 /\ 1 \in Int
        BY <1>3, <1>5, <2>1
      <3> QED
        BY SMTT(30), <1>3, <2>1, <3>1, ModIs
    <2>2. CASE ~(r >= k)
      <3>1. r + Records - k = 0 * Records + j /\ j \in 0 .. Records - 1 /\ 0 \in Int
        BY <1>3, <1>5, <2>2
      <3> QED
        BY Zenon, <1>3, <3>1, ModIs
    <2> QED
      BY Zenon, <2>1, <2>2
  <1>8. RingSeq(n, j) = n - k
    <2>1. (n - 1 - j) % Records = IF r >= j THEN r - j ELSE r - j + Records
      BY Zenon, <1>4, <1>6, Distance DEF r
    <2>2. (IF r >= j THEN r - j ELSE r - j + Records) = k
      BY <1>3, <1>5
    <2> QED
      BY Zenon, <2>1, <2>2 DEF RingSeq
  <1>9. efi[j].seq = n - k
    <2>1. n - k > 0
      BY <1>3, <1>4, SlotsAre
    <2> QED
      BY Zenon, <1>2, <1>4, <1>6, <1>8, <2>1 DEF Ring
  <1> QED
    BY Zenon, <1>4, <1>7, <1>9 DEF r

-----------------------------------------------------------------------------
(* The specification *)

\* The states a machine boots in.
LEMMA WarmInitInv == WarmInit => WarmInv /\ RingInv
  <1> SUFFICES ASSUME WarmInit PROVE WarmInv /\ RingInv
    BY Zenon
  <1>1. TypeOK
    <2>1. 0 \in Nat
      BY Zenon
    <2> QED
      BY Zenon, <2>1, EmptyIs DEF TypeOK, WarmInit
  <1>2. WarmInv
    BY Zenon, <1>1 DEF WarmInit, WarmInv, Writing
  <1>3. Ring(Empty, 0) /\ 0 \in Nat
    BY EmptyIs DEF Ring, None
  <1>4. InPlace(Empty)
    BY Zenon, EmptyIs DEF InPlace
  <1> QED
    BY Zenon, <1>2, <1>3, <1>4 DEF WarmInit, RingInv

\* Every write, crash and boot keeps both invariants.
LEMMA WarmNextInv == WarmInv /\ RingInv /\ [WarmNext]_warmVars => (WarmInv /\ RingInv)'
  <1> SUFFICES ASSUME WarmInv, RingInv, [WarmNext]_warmVars
               PROVE  WarmInv' /\ RingInv'
    BY Zenon
  <1>1. CASE MainAppend
    <2>1. PICK state \in States : AppendRecord(state)
      <3>1. stage \in {"init", "checkpoint", "ready"}
        BY Zenon, <1>1 DEF MainAppend, WarmInv, TypeOK
      <3> QED
        BY Zenon, <1>1, <3>1 DEF MainAppend, States
    <2>2. /\ stage' \in {"init", "checkpoint", "ready", "running"} /\ panicActive' \in BOOLEAN
      BY Zenon, <1>1 DEF MainAppend, WarmInv, TypeOK
    <2> QED
      BY Zenon, <2>1, <2>2, AppendStep, RingAppendStep
  <1>2. CASE Panic
    <2>1. AppendRecord("panic") /\ "panic" \in States
      BY Zenon, <1>2 DEF Panic, States
    <2>2. /\ stage' \in {"init", "checkpoint", "ready", "running"} /\ panicActive' \in BOOLEAN
      BY Zenon, <1>2 DEF Panic, WarmInv, TypeOK
    <2> QED
      BY Zenon, <2>1, <2>2, AppendStep, RingAppendStep
  <1>3. CASE SetVariable
    BY Zenon, <1>3, SetVariableStep, RingSetStep
  <1>4. CASE SetVariableFails \/ Verify \/ CmosBegin
    BY Zenon, <1>4, QuietStep, RingOtherStep
  <1>5. CASE CmosEnd \/ NoCmos
    BY Zenon, <1>5, ReturnStep, RingOtherStep
  <1>6. CASE PanicAgain \/ Reset
    BY Zenon, <1>6, CrashStep, RingOtherStep
  <1>7. CASE UNCHANGED warmVars
    <2>1. /\ EfiSector' = EfiSector /\ Newest' = Newest /\ Writing' = Writing
          /\ SafeToStore' = SafeToStore /\ TypeOK' = TypeOK
      BY <1>7 DEF warmVars, TypeOK, Writing, EfiSector, CmosSector, ReadPersistent, Newest,
                  Best, SafeToStore
    <2> QED
      BY <1>7, <2>1 DEF warmVars, WarmInv, RingInv
  <1> QED
    BY Zenon, <1>1, <1>2, <1>3, <1>4, <1>5, <1>6, <1>7 DEF WarmNext

\* WarmInv and RingInv are invariants.
LEMMA WarmInvHolds == WarmSpec => [](WarmInv /\ RingInv)
  BY WarmInitInv, WarmNextInv, PTL DEF WarmSpec

\* append_current and init, for any number of slots: as long as no append missed
\* the newest record because get_variable failed for it, the newest record between
\* two appends is the one last reported as committed, and neither a reset or a
\* panic in the middle of a write, nor variables that could not be read or set,
\* lose it to an older one.
THEOREM CommittedRecordSurvives == WarmSpec => []CommittedSurvives
  <1>1. WarmInv /\ RingInv => CommittedSurvives
    BY Zenon, InvMeansSurvives
  <1> QED
    BY <1>1, WarmInvHolds, PTL

\* efi_write, for any number of slots: without CMOS every record is in its place of
\* the ring, whatever firmware calls failed; and the ring is complete, whatever
\* set_variable calls failed, were dropped or were cut off, as long as every append
\* read the variables it was to keep.
THEOREM RingStaysIntact == WarmSpec => []RingIntact
  <1>1. WarmInv /\ RingInv => RingIntact
    BY Zenon, InvMeansIntact
  <1> QED
    BY <1>1, WarmInvHolds, PTL
=============================================================================
