-------------------------------- MODULE Fat32 --------------------------------
(***************************************************************************)
(* The FAT32 volume of src/fat32.rs: mounting, the search of a directory   *)
(* with long names, read_file and write_file, entry by entry and sector by *)
(* sector, with sector accesses that fail and crashes between any two      *)
(* writes.  Sectors are addressed by their cluster and their number in it. *)
(* A name is the sequence of its parts, as long entries cut it up; a part  *)
(* "" starts with the terminator.                                          *)
(***************************************************************************)
EXTENDS Integers, Sequences, FiniteSets, SequencesExt

CONSTANTS SectorBytes,       \* BYTES_PER_SECTOR
          FatEntries,        \* entries of the FAT in a sector
          SectorEntries,     \* directory entries in a sector
          MinClusters,       \* 65525
          EocMin,            \* EOC_MIN; BAD_CLUSTER is one less
          MaxParts,          \* long entries of a name, MAX_LFN_CHARS / 13
          MaxSectors,        \* largest sectors_per_cluster
          Bpbs,              \* boot sectors
          Layouts,           \* contents of volumes: [table, sectors]
          Paths, Inputs,     \* what read_file and write_file are called with
          Buffers,           \* lengths of the output of read_file
          MaxCalls,          \* bound: calls of both
          Upper(_)           \* a part of a name in upper case

ASSUME FatAssumption ==
    /\ {SectorBytes, FatEntries, SectorEntries, MinClusters, MaxParts, MaxSectors, MaxCalls} \subseteq Nat \ {0}
    /\ EocMin \in Nat /\ Buffers \subseteq Nat

VARIABLE fat

BadCluster == EocMin - 1
PowersOfTwo == {1, 2, 4, 8, 16, 32, 64, 128}

-----------------------------------------------------------------------------
(* open_with_writer.                                                       *)
FirstDataSector(b) == b.reserved + b.fats * b.fatSize
ClusterCount(b) == (b.total - FirstDataSector(b)) \div b.spc
ValidBpb(b) ==
    /\ b.signature /\ b.bytes = SectorBytes
    /\ b.spc \in PowersOfTwo /\ b.spc <= MaxSectors
    /\ b.reserved # 0 /\ b.fats # 0 /\ b.rootEntries = 0
    /\ b.fatSize16 = 0 /\ b.fatSize # 0
    /\ b.root >= 2 /\ b.total > FirstDataSector(b)
    /\ ClusterCount(b) >= MinClusters
    /\ ClusterCount(b) + 2 <= b.fatSize * FatEntries
    /\ b.root <= ClusterCount(b) + 1
Mounted(b, writable) ==
    [count |-> ClusterCount(b), spc |-> b.spc, root |-> b.root, fatEntries |-> b.fatSize * FatEntries,
     writable |-> writable]

-----------------------------------------------------------------------------
(* next_cluster: the next cluster, 0 for a bad chain, EocMin at the end.    *)
NextCluster(m, v, cluster) ==
    IF cluster >= m.fatEntries THEN 0
    ELSE LET value == v.table[cluster]
         IN  IF value >= EocMin THEN EocMin
             ELSE IF value = BadCluster \/ (value > m.count + 1) THEN 0
             ELSE value
InData(m, cluster) == cluster \in 2 .. m.count + 1

-----------------------------------------------------------------------------
(* Directory entries: "end", "deleted", "long" and "short" ones.            *)
Entry(kind) == [kind |-> kind, sequence |-> 0, last |-> FALSE, part |-> "", sum |-> 0,
                name |-> <<>>, directory |-> FALSE, cluster |-> 0, size |-> 0]
LongEntry(sequence, last, part, sum) ==
    [Entry("long") EXCEPT !.sequence = sequence, !.last = last, !.part = part, !.sum = sum]
ShortEntry(name, sum, directory, cluster, size) ==
    [Entry("short") EXCEPT !.name = name, !.sum = sum, !.directory = directory,
                           !.cluster = cluster, !.size = size]

(* LongName: accept and matches.                                            *)
NoLongName == [parts |-> [i \in 1 .. MaxParts |-> ""], sum |-> 0, max |-> 0, seen |-> {}, valid |-> FALSE]
Accept(l, e) ==
    LET started == IF e.last THEN [l EXCEPT !.max = e.sequence, !.sum = e.sum, !.seen = {}, !.valid = TRUE]
                   ELSE l
    IN  IF e.sequence \notin 1 .. MaxParts \/ ~started.valid \/ started.sum # e.sum THEN NoLongName
        ELSE [started EXCEPT !.parts[e.sequence] = e.part, !.seen = @ \cup {e.sequence}]
UpTo(parts, max) == LET ends == {i \in 1 .. max : parts[i] = ""}
                    IN  SubSeq(parts, 1, IF ends = {} THEN max ELSE (CHOOSE i \in ends : \A j \in ends : i <= j) - 1)
LongMatches(l, target, sum) ==
    /\ l.valid /\ l.max # 0 /\ l.sum = sum /\ 1 .. l.max \subseteq l.seen
    /\ UpTo(l.parts, l.max) = target
ShortMatches(e, target) == e.name = [i \in 1 .. Len(target) |-> Upper(target[i])]

-----------------------------------------------------------------------------
(* A call of read_file or write_file: component is the number of the path   *)
(* component looked for; at, sector and offset say where the loop is, steps *)
(* how many clusters it may still visit; capacity is the room for the       *)
(* output, then the bytes to read, or those the chain can hold.  before and *)
(* written are history: the volume at the start of the call, and the last   *)
(* completed write.                                                         *)
NoMount == [count |-> 0, spc |-> 1, root |-> 0, fatEntries |-> 0, writable |-> FALSE]
Closed == [phase |-> "off", mount |-> NoMount, layout |-> <<>>, before |-> <<>>, calls |-> 0,
           call |-> "none", path |-> <<>>, component |-> 0, input |-> <<>>, at |-> 0, sector |-> 0,
           offset |-> 1, steps |-> 0, long |-> NoLongName, place |-> <<>>, capacity |-> 0, copied |-> 0,
           output |-> <<>>, result |-> "none", written |-> <<>>]
FatInit == fat = Closed

FatOpen ==
    /\ fat.phase = "off"
    /\ \E b \in Bpbs, v \in Layouts, writable \in BOOLEAN :     \* open or open_rw
         /\ ValidBpb(b)
         /\ fat' = [Closed EXCEPT !.phase = "idle", !.mount = Mounted(b, writable), !.layout = v, !.before = v]

At(f, cluster) == [f EXCEPT !.at = cluster, !.sector = 0, !.offset = 1, !.steps = f.mount.count]
Returns(f, result) ==
    [Closed EXCEPT !.phase = "idle", !.mount = f.mount, !.layout = f.layout, !.before = f.before,
                   !.calls = f.calls, !.call = f.call, !.path = f.path, !.input = f.input,
                   !.place = f.place, !.capacity = f.capacity, !.output = f.output, !.result = result, !.written = f.written]

(* read_file and write_file begin with the root; write_file needs a writer. *)
Call(call, path, input, room) ==
    /\ fat.phase = "idle" /\ fat.calls < MaxCalls /\ path # <<>>
    /\ LET f == [Closed EXCEPT !.phase = "find", !.mount = fat.mount, !.layout = fat.layout,
                                !.before = fat.layout, !.calls = fat.calls + 1, !.call = call,
                                !.path = path, !.component = 1, !.input = input, !.capacity = room,
                                !.written = fat.written]
       IN  fat' = IF call = "write" /\ ~fat.mount.writable THEN Returns(f, "ReadOnly")
                  ELSE At(f, fat.mount.root)

(* The entry was found: the next directory, the file, or an error.          *)
Found(f, e) ==
    LET last == f.component = Len(f.path)
        file == [f EXCEPT !.place = <<f.at, f.sector, f.offset>>]
    IN  IF ~last /\ ~e.directory THEN Returns(f, "NotDirectory")
        ELSE IF ~last THEN At([f EXCEPT !.component = @ + 1, !.long = NoLongName], e.cluster)
        ELSE IF e.directory THEN Returns(f, "IsDirectory")
        ELSE IF f.call = "write" THEN At([file EXCEPT !.phase = "capacity"], e.cluster)
        ELSE IF e.size > f.capacity THEN Returns(file, "BufferTooSmall")
        ELSE IF e.size = 0 THEN Returns(file, "ok")
        ELSE At([file EXCEPT !.phase = "read", !.capacity = e.size], e.cluster)

(* The end of a turn of the loop over clusters.                             *)
NextTurn(f, atEnd) ==
    LET next == NextCluster(f.mount, f.layout, f.at)
    IN  IF next = EocMin THEN atEnd
        ELSE IF next = 0 \/ f.steps = 1 THEN Returns(f, "BadClusterChain")
        ELSE [f EXCEPT !.at = next, !.sector = 0, !.offset = 1, !.steps = @ - 1]

(* find_entry_location, one entry.  The cluster of a directory is not       *)
(* checked.  Above the data it is read in vain.  Below 2 cluster_sector     *)
(* underflows: a build with overflow checks stops, another one wraps and    *)
(* reads the last sectors before the data, which belong to the FAT, here    *)
(* the sectors of clusters 0 and 1.                                         *)
Advanced(f) ==
    IF f.offset < SectorEntries THEN [f EXCEPT !.offset = @ + 1]
    ELSE IF f.sector + 1 < f.mount.spc THEN [f EXCEPT !.offset = 1, !.sector = @ + 1]
    ELSE NextTurn(f, Returns(f, "NotFound"))
Searched(f, e) ==
    LET target == f.path[f.component]
    IN  IF e.kind = "end" THEN Returns(f, "NotFound")
        ELSE IF e.kind = "deleted" THEN Advanced([f EXCEPT !.long = NoLongName])
        ELSE IF e.kind = "long" THEN Advanced([f EXCEPT !.long = Accept(@, e)])
        ELSE IF LongMatches(f.long, target, e.sum) \/ ShortMatches(e, target) THEN Found(f, e)
        ELSE Advanced([f EXCEPT !.long = NoLongName])
FindEntry ==
    /\ fat.phase = "find"
    /\ \/ fat.at < 2 /\ fat' = Returns(fat, "overflow")
       \/ fat.at > fat.mount.count + 1 /\ fat' = Returns(fat, "Io")
       \/ /\ fat.at <= fat.mount.count + 1
          /\ fat' = Searched(fat, fat.layout.sectors[<<fat.at, fat.sector>>].entries[fat.offset])

(* The chain can hold the input, or not.                                    *)
Enough(f) ==
    LET e == f.layout.sectors[<<f.place[1], f.place[2]>>].entries[f.place[3]]
    IN  IF Len(f.input) > f.capacity THEN Returns(f, "NoSpace")
        ELSE At([f EXCEPT !.phase = "data"], e.cluster)

(* Mutation of Capacity: a chain that does not end counts as far as it was  *)
(* followed.                                                                *)
CapacityOpen ==
    /\ fat.phase = "capacity"
    /\ fat' = IF ~InData(fat.mount, fat.at) THEN Returns(fat, "BadClusterChain")
              ELSE LET f == [fat EXCEPT !.capacity = @ + fat.mount.spc * SectorBytes]
                   IN  IF f.steps = 1 THEN Enough(f) ELSE NextTurn(f, Enough(f))

(* chain_capacity, one cluster.                                             *)
Capacity ==
    /\ fat.phase = "capacity"
    /\ fat' = IF ~InData(fat.mount, fat.at) THEN Returns(fat, "BadClusterChain")
              ELSE LET f == [fat EXCEPT !.capacity = @ + fat.mount.spc * SectorBytes]
                   IN  NextTurn(f, Enough(f))

(* read_chain, one sector.                                                  *)
ReadData ==
    /\ fat.phase = "read"
    /\ LET length == IF fat.capacity - Len(fat.output) < SectorBytes THEN fat.capacity - Len(fat.output)
                     ELSE SectorBytes
           f == [fat EXCEPT !.output = @ \o SubSeq(fat.layout.sectors[<<fat.at, fat.sector>>].bytes, 1, length)]
       IN  fat' = IF ~InData(fat.mount, fat.at) THEN Returns(fat, "BadClusterChain")
                  ELSE IF Len(fat.output) = fat.capacity THEN Returns(fat, "ok")
                  ELSE IF fat.sector + 1 < fat.mount.spc THEN [f EXCEPT !.sector = @ + 1]
                  ELSE NextTurn(f, Returns(f, IF Len(f.output) = f.capacity THEN "ok"
                                                       ELSE "BadClusterChain"))

(* write_chain, one sector; the rest of a sector is filled with zeros.      *)
SectorData(input, copied) ==
    [bytes |-> [k \in 1 .. SectorBytes |-> IF copied + k <= Len(input) THEN input[copied + k] ELSE 0],
     entries |-> <<>>]
WriteData ==
    /\ fat.phase = "data"
    /\ LET f == [fat EXCEPT !.layout.sectors[<<fat.at, fat.sector>>] = SectorData(fat.input, fat.copied),
                            !.copied = @ + SectorBytes, !.written = <<>>]
           done == [f EXCEPT !.phase = "directory"]
       IN  fat' = IF ~InData(fat.mount, fat.at) THEN Returns(fat, "BadClusterChain")
                  ELSE IF fat.copied >= Len(fat.input) THEN [fat EXCEPT !.phase = "directory"]
                  ELSE IF fat.sector + 1 < fat.mount.spc THEN [f EXCEPT !.sector = @ + 1]
                  ELSE NextTurn(f, IF f.copied >= Len(f.input) THEN done
                                            ELSE Returns(f, "BadClusterChain"))

(* The size of the file, last.                                              *)
WriteDirectory ==
    /\ fat.phase = "directory"
    /\ fat' = Returns([fat EXCEPT !.written = <<fat.path, fat.input>>,
          !.layout.sectors[<<fat.place[1], fat.place[2]>>].entries[fat.place[3]].size = Len(fat.input)], "ok")

(* A sector is not read or written, or the machine stops.                   *)
FatStops == fat.phase \in {"find", "capacity", "read", "data", "directory"} /\ fat' = Returns(fat, "Io")

FatNext == \/ FatOpen \/ FindEntry \/ Capacity \/ ReadData \/ WriteData \/ WriteDirectory \/ FatStops
           \/ \E path \in Paths : \/ \E room \in Buffers : Call("read", path, <<>>, room)
                                 \/ \E input \in Inputs : Call("write", path, input, 0)

-----------------------------------------------------------------------------
(* What a name denotes, by the format: a short entry with that name, or one *)
(* preceded by long entries numbered down to 1 that spell it and carry its  *)
(* checksum.  Entries are taken in the order of the clusters of a chain.    *)
ChainOf(m, v, start) ==
    LET at[n \in 1 .. m.count] == IF n = 1 THEN start
                                  ELSE IF InData(m, at[n - 1]) THEN v.table[at[n - 1]] ELSE EocMin
    IN  SelectSeq(at, LAMBDA c : InData(m, c))
EntriesOf(m, v, start) ==
    FlattenSeq([k \in 1 .. Len(ChainOf(m, v, start)) * m.spc |->
        v.sectors[<<ChainOf(m, v, start)[((k - 1) \div m.spc) + 1], (k - 1) % m.spc>>].entries])
Denotes(list, k, target) ==
    /\ list[k].kind = "short"
    /\ \/ ShortMatches(list[k], target)
       \/ /\ Len(target) < k
          /\ \A i \in 1 .. Len(target) : list[k - i] = LongEntry(i, i = Len(target), target[i], list[k].sum)

(* write_file stays within the chain of the file its path denotes.  Sectors *)
(* outside that chain stay as they were at the start of the call, but for   *)
(* the size in its entry, which is the last thing written; the entry is one *)
(* the name denotes; and a read of the path after a completed write returns *)
(* the input, or says that the buffer is too small for it.  This holds at   *)
(* each point between two writes, on chains that are cyclic or broken, and  *)
(* in directories with deleted and orphaned entries.  A cluster that a      *)
(* damaged volume shares between two files changes for both: write_file     *)
(* does not look at other chains.                                           *)
Resized(sector, offset, size) == [sector EXCEPT !.entries[offset].size = size]
WriteTakesEffect ==
    /\ fat.call = "write" /\ fat.place # <<>> =>
         LET home == <<fat.place[1], fat.place[2]>>
             was == fat.before.sectors
             is == fat.layout.sectors
             e == was[home].entries[fat.place[3]]
         IN  /\ {s[1] : s \in {t \in DOMAIN is \ {home} : is[t] # was[t]}}
                   \subseteq ToSet(ChainOf(fat.mount, fat.before, e.cluster))
             /\ is[home] = was[home] \/ (/\ fat.phase = "idle"
                                        /\ is[home] = Resized(was[home], fat.place[3], Len(fat.input)))
             /\ \E list \in {EntriesOf(fat.mount, fat.before, fat.mount.root)} :
                  Len(fat.path) = 1 =>
                    \E k \in 1 .. Len(list) : list[k] = e /\ Denotes(list, k, fat.path[1])
    /\ fat.call = "read" /\ fat.phase = "idle" /\ fat.result # "Io"
          /\ fat.written # <<>> /\ fat.written[1] = fat.path
       => \/ fat.result = "ok" /\ fat.output = fat.written[2]
          \/ fat.result = "BufferTooSmall" /\ fat.capacity < Len(fat.written[2])
=============================================================================
