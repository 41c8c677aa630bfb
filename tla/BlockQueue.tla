------------------------------ MODULE BlockQueue ------------------------------
(***************************************************************************)
(* The block layer of src/drivers/block.rs: a RAM disk behind a queue of   *)
(* requests.  A caller submits a request and waits for it later, any       *)
(* number of other calls in between; whoever polls carries out everything  *)
(* that is queued.  Lengths are in halves of a sector, so that a length    *)
(* may fail to be a multiple of the sector size; a sector holds one of     *)
(* Contents.                                                               *)
(***************************************************************************)
EXTENDS Integers, Sequences

CONSTANTS Depth,         \* QUEUE_DEPTH
          DiskSectors,   \* RAMDISK_SECTORS
          Contents,      \* what a sector can hold
          BlockCalls     \* the requests callers make: [operation, lba, length, data]

ASSUME BlockAssumption ==
    /\ Depth \in Nat \ {0} /\ DiskSectors \in Nat \ {0, 1} /\ Contents # {}
    /\ \A call \in BlockCalls : call.length \in Nat

VARIABLE block

SectorSize == 2
MaxPartitions == 4
Lbas == 0 .. DiskSectors - 1

(* Request::EMPTY.  due is history: the sectors a read should return.       *)
EmptyRequest == [state |-> "Free", operation |-> "Read", lba |-> 0, data |-> <<>>, due |-> <<>>]

-----------------------------------------------------------------------------
(* submit.                                                                  *)
SubmitError(b, call) ==
    IF ~b.ready THEN "NotReady"
    ELSE IF call.length = 0 \/ call.length % SectorSize # 0 THEN "InvalidRequest"
    ELSE IF call.operation = "Write" /\ b.readOnly THEN "ReadOnly"
    ELSE IF call.lba + call.length \div SectorSize > DiskSectors THEN "OutOfRange"
    ELSE IF \A i \in 1 .. Depth : b.queue[i].state # "Free" THEN "Busy"
    ELSE "none"
Slot(b) == CHOOSE i \in 1 .. Depth :
              /\ b.queue[i].state = "Free"
              /\ \A j \in 1 .. i - 1 : b.queue[j].state # "Free"
Stored(disk, lba, data) ==
    [s \in Lbas |-> IF s \in lba .. lba + Len(data) - 1 THEN data[s - lba + 1] ELSE disk[s]]
Loaded(disk, lba, count) == [k \in 1 .. count |-> disk[lba + k - 1]]
Submit(b, call) ==
    LET count == call.length \div SectorSize
        due == Loaded(b.submitted, call.lba, count)
    IN  [b EXCEPT !.queue[Slot(b)] =
             [state |-> "Queued", operation |-> call.operation, lba |-> call.lba,
              data |-> call.data, due |-> due],
         !.submitted = IF call.operation = "Write" THEN Stored(@, call.lba, call.data) ELSE @]

(* process: the copy between disk and buffer.  A finished write leaves      *)
(* nothing to look at.                                                      *)
Process(b, i) ==
    LET r == b.queue[i]
    IN  IF r.state # "Queued" THEN b
        ELSE IF r.operation = "Write"
        THEN [b EXCEPT !.disk = Stored(@, r.lba, r.data),
                       !.queue[i] = [EmptyRequest EXCEPT !.state = "Complete", !.operation = "Write"]]
        ELSE [b EXCEPT !.queue[i] = [r EXCEPT !.state = "Complete", !.lba = 0,
                                              !.data = Loaded(b.disk, r.lba, Len(r.due))]]
PollQueue(b) ==
    LET run[k \in 0 .. Depth] == IF k = 0 THEN b ELSE Process(run[k - 1], k)
    IN  run[Depth]

(* Mutation of Wait: a request that is already complete is returned without *)
(* a poll.                                                                  *)
WaitFast(b, i) ==
    [(IF b.queue[i].state = "Complete" THEN b ELSE PollQueue(b)) EXCEPT !.queue[i] = EmptyRequest]

(* wait polls first, whatever the state of the request.  One poll completes *)
(* every request, so the time-out is not reached.                           *)
Wait(b, i) == [PollQueue(b) EXCEPT !.queue[i] = EmptyRequest]

(* read_sectors and write_sectors.                                          *)
Transfer(b, call) == Wait(Submit(b, call), Slot(b))

-----------------------------------------------------------------------------
(* write_mbr and discover_partitions: entries of the first sector.  Without *)
(* a usable entry the disk is one partition.                                *)
MbrEntries == [k \in 1 .. MaxPartitions |->
                  IF k = 1 THEN [type |-> 218, start |-> 1, sectors |-> DiskSectors - 1]
                  ELSE [type |-> 0, start |-> 0, sectors |-> 0]]
UsableEntry(e) == /\ e.type # 0 /\ e.sectors # 0 /\ e.start < DiskSectors
                  /\ e.sectors <= DiskSectors - e.start
DiscoverPartitions(entries) ==
    LET usable == SelectSeq(entries, UsableEntry)
    IN  IF usable = <<>> THEN <<[type |-> 0, start |-> 0, sectors |-> DiskSectors]>> ELSE usable

(* smoke_test on the last sector: what it leaves behind.                    *)
SmokeCall(operation, data) ==
    [operation |-> operation, lba |-> DiskSectors - 1, length |-> SectorSize, data |-> data]
SmokeTest(b, pattern) ==
    LET original == <<b.disk[DiskSectors - 1]>>
        refused == SubmitError([b EXCEPT !.readOnly = TRUE], SmokeCall("Write", pattern)) = "ReadOnly"
        written == Transfer(Transfer(b, SmokeCall("Read", <<>>)), SmokeCall("Write", pattern))
    IN  IF refused THEN Transfer(Transfer(written, SmokeCall("Read", <<>>)), SmokeCall("Write", original))
        ELSE b

Fresh == CHOOSE c \in Contents : TRUE
NewBlock == [ready |-> FALSE, readOnly |-> FALSE, disk |-> [s \in Lbas |-> Fresh],
             queue |-> [i \in 1 .. Depth |-> EmptyRequest], partitions |-> <<>>,
             submitted |-> [s \in Lbas |-> Fresh]]
BlockInit == block = NewBlock

(* init, then what callers do.                                              *)
BlockStart ==
    /\ ~block.ready
    /\ \E pattern \in Contents :
         block' = SmokeTest([NewBlock EXCEPT !.ready = TRUE,
                                             !.partitions = DiscoverPartitions(MbrEntries)], <<pattern>>)
BlockSubmit == \E call \in BlockCalls :
    SubmitError(block, call) = "none" /\ block' = Submit(block, call)
BlockPoll == /\ \E i \in 1 .. Depth : block.queue[i].state = "Queued"
             /\ block' = PollQueue(block)
BlockWait == \E i \in 1 .. Depth : block.queue[i].state # "Free" /\ block' = Wait(block, i)
SetReadOnly == block.ready /\ block' = [block EXCEPT !.readOnly = ~@]

BlockNext == BlockStart \/ BlockSubmit \/ BlockPoll \/ BlockWait \/ SetReadOnly

(* Every read returns what the writes submitted before it left, and once    *)
(* nothing is queued the disk is what the submitted writes make of it:      *)
(* although a poll goes by slot and not by age, requests take effect in the *)
(* order of submission (the first free slot of submit, and the poll at the  *)
(* start of wait).                                                          *)
ReadsSeeWrites ==
    /\ \A i \in 1 .. Depth :
         block.queue[i].state = "Complete" /\ block.queue[i].operation = "Read"
             => block.queue[i].data = block.queue[i].due
    /\ (\A i \in 1 .. Depth : block.queue[i].state # "Queued") => block.disk = block.submitted
=============================================================================
