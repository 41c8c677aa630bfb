--------------------------------- MODULE Ext4 ---------------------------------
(***************************************************************************)
(* The read-only ext4 reader of src/ext4.rs: the superblock, the inode of  *)
(* a number through its group's table, the extents of an inode, the        *)
(* records of a directory and the blocks of a file.  One step reads one    *)
(* inode, looks at one directory record or copies one block.               *)
(***************************************************************************)
EXTENDS Integers, Sequences, FiniteSets

CONSTANTS BlockSize,            \* block_size in bytes
          InodeSize,            \* inode_size
          DescriptorBlock,      \* where the group descriptors start: block 1 or 2
          DescriptorSize,       \* descriptor_size
          DescriptorRead,       \* bytes read_inode reads of a descriptor
          MaxDirectoryBlocks,   \* MAX_DIRECTORY_BLOCKS
          MaxExtents,           \* extents an inode has room for
          MaxOutput,            \* room in the caller's buffer
          Ext4Volumes,          \* [super, tables, inodes, blocks]
          Ext4Paths             \* the paths callers ask for, as sequences of names

ASSUME Ext4Assumption ==
    /\ {BlockSize, InodeSize, DescriptorBlock, DescriptorSize, DescriptorRead} \subseteq Nat \ {0}
    /\ MaxDirectoryBlocks \in Nat /\ MaxExtents \in Nat /\ MaxOutput \in Nat

VARIABLE ext4

CeilDiv(a, b) == (a + b - 1) \div b

(* What the disk holds: the inodes by table block and slot, a block's       *)
(* directory records by offset and its file data as one value.  Where       *)
(* nothing was written the bytes are zero.                                  *)
Record(child, length, nameLength, name) ==
    [child |-> child, length |-> length, nameLength |-> nameLength, name |-> name]
ZeroRecord == Record(0, 0, 0, "")
ZeroInode == [directory |-> FALSE, readable |-> FALSE, size |-> 0, mapped |-> FALSE, magic |-> FALSE,
              depth |-> 0, extents |-> <<>>]
ZeroBlock == [records |-> <<>>, data |-> "zero"]
ContentOf(volume, block) == IF block \in DOMAIN volume.blocks THEN volume.blocks[block] ELSE ZeroBlock
RecordAt(volume, block, offset) ==
    LET records == ContentOf(volume, block).records
    IN  IF offset \in DOMAIN records THEN records[offset] ELSE ZeroRecord

-----------------------------------------------------------------------------
(* Mount::open.                                                             *)
Groups(s) == CeilDiv(s.blocks - s.first, s.perGroup)
OpenError(s) ==
    IF ~s.magic THEN "InvalidSuperblock"
    ELSE IF s.logBlockSize > 2 THEN "UnsupportedFeature"
    ELSE IF s.recover THEN "JournalRecoveryRequired"
    ELSE IF \/ s.blocks <= s.first \/ s.perGroup = 0 \/ s.inodesPerGroup = 0 \/ ~s.inodeSize
         \/ ~s.descriptorSize \/ s.otherFeatures \/ ~s.extents THEN "InvalidSuperblock"
    ELSE IF Groups(s) * s.inodesPerGroup < 2 THEN "InvalidSuperblock"
    ELSE "none"

(* read_inode: the group's descriptor gives the table, the table the inode. *)
TableOf(volume, group) == IF group \in DOMAIN volume.tables THEN volume.tables[group] ELSE 0
PlaceOf(volume, number) ==
    <<TableOf(volume, (number - 1) \div volume.super.inodesPerGroup),
      (number - 1) % volume.super.inodesPerGroup>>
InodeError(volume, number) ==
    LET s == volume.super
        group == (number - 1) \div s.inodesPerGroup
        place == PlaceOf(volume, number)
    IN  IF number < 1 \/ group >= Groups(s) THEN "NotFound"
        ELSE IF DescriptorBlock * BlockSize + group * DescriptorSize + DescriptorRead > s.blocks * BlockSize THEN "Io"
        ELSE IF place[1] >= s.blocks THEN "InvalidSuperblock"
        ELSE IF place[1] * BlockSize + (place[2] + 1) * InodeSize > s.blocks * BlockSize THEN "Io"
        ELSE "none"
InodeAt(volume, number) ==
    LET place == PlaceOf(volume, number)
    IN  IF place \in DOMAIN volume.inodes THEN volume.inodes[place] ELSE ZeroInode

(* Mutation of Covers: an extent is taken to hold one block more.           *)
CoversMore(extent, logical) == extent.length # 0 /\ logical \in extent.first .. extent.first + extent.length

(* extent_block: the first extent that holds the block, unless one before   *)
(* it is uninitialised.                                                     *)
Covers(extent, logical) == extent.length # 0 /\ logical \in extent.first .. extent.first + extent.length - 1
Stops(node, logical) ==
    {k \in 1 .. Len(node.extents) : node.extents[k].unwritten \/ Covers(node.extents[k], logical)}
FirstStop(node, logical) ==
    node.extents[CHOOSE k \in Stops(node, logical) : \A j \in Stops(node, logical) : k <= j]
ExtentBlock(node, logical) ==
    FirstStop(node, logical).physical + logical - FirstStop(node, logical).first
ExtentError(volume, node, logical) ==
    IF ~node.mapped THEN "UnsupportedFeature"
    ELSE IF ~node.magic THEN "BadExtent"
    ELSE IF node.depth # 0 \/ Len(node.extents) > MaxExtents THEN "UnsupportedFeature"
    ELSE IF Stops(node, logical) = {} THEN "BadExtent"
    ELSE IF FirstStop(node, logical).unwritten THEN "UnsupportedFeature"
    ELSE IF ExtentBlock(node, logical) >= volume.super.blocks THEN "BadExtent"
    ELSE "none"

-----------------------------------------------------------------------------
NoVolume == [phase |-> "off", volume |-> <<>>, call |-> "none", path |-> <<>>, component |-> 1, number |-> 2,
             node |-> ZeroInode, logical |-> 0, offset |-> 0, output |-> <<>>, result |-> "none"]
Returned(e, result) == [e EXCEPT !.phase = "idle", !.result = result, !.logical = 0, !.offset = 0]

Ext4Init == ext4 = NoVolume
Ext4Open ==
    /\ ext4.phase = "off"
    /\ \E volume \in Ext4Volumes :
         ext4' = IF OpenError(volume.super) # "none"
                 THEN [NoVolume EXCEPT !.phase = "refused", !.result = OpenError(volume.super)]
                 ELSE [NoVolume EXCEPT !.phase = "idle", !.volume = volume]
(* stat and read_file start at the root directory.                          *)
Ext4Call(call, path) ==
    /\ ext4.phase = "idle"
    /\ ext4' = [NoVolume EXCEPT !.phase = "inode", !.volume = ext4.volume, !.call = call, !.path = path]

(* read_inode of the next directory or of the file, and what find_in_directory, *)
(* stat and read_file ask of it before they look at its blocks.             *)
NodeError(e, node) ==
    IF e.component <= Len(e.path) THEN
            (IF ~node.directory THEN "NotDirectory"
             ELSE IF CeilDiv(node.size, BlockSize) > MaxDirectoryBlocks THEN "UnsupportedFeature" ELSE "none")
    ELSE IF e.call = "stat" THEN "ok"
    ELSE IF node.directory THEN "IsDirectory"
    ELSE IF ~node.readable THEN "PermissionDenied"
    ELSE IF node.size > MaxOutput THEN "BufferTooSmall"
    ELSE "none"
InodeStep ==
    /\ ext4.phase = "inode"
    /\ ext4' =
         IF InodeError(ext4.volume, ext4.number) # "none"
         THEN Returned(ext4, InodeError(ext4.volume, ext4.number))
         ELSE LET node == InodeAt(ext4.volume, ext4.number)
              IN  IF NodeError(ext4, node) # "none" THEN Returned([ext4 EXCEPT !.node = node], NodeError(ext4, node))
                  ELSE [ext4 EXCEPT !.node = node,
                                    !.phase = IF ext4.component <= Len(ext4.path) THEN "directory" ELSE "file"]

(* find_in_directory: one record.                                           *)
BadRecord(offset, r) ==
    \/ offset + 8 > BlockSize
    \/ r.length < 8 \/ r.length % 4 # 0 \/ offset + r.length > BlockSize \/ r.nameLength > r.length - 8
RecordStep ==
    /\ ext4.phase = "directory"
    /\ LET error == ExtentError(ext4.volume, ext4.node, ext4.logical)
           r == RecordAt(ext4.volume, ExtentBlock(ext4.node, ext4.logical), ext4.offset)
       IN ext4' =
            IF ext4.logical = CeilDiv(ext4.node.size, BlockSize) THEN Returned(ext4, "NotFound")
            ELSE IF error # "none" THEN Returned(ext4, error)
            ELSE IF BadRecord(ext4.offset, r) THEN Returned(ext4, "BadDirectory")
            ELSE IF r.child # 0 /\ r.name = ext4.path[ext4.component] THEN
                    [ext4 EXCEPT !.phase = "inode", !.number = r.child, !.component = @ + 1,
                                 !.logical = 0, !.offset = 0]
            ELSE IF ext4.offset + r.length = BlockSize THEN [ext4 EXCEPT !.logical = @ + 1, !.offset = 0]
            ELSE [ext4 EXCEPT !.offset = @ + r.length]

(* read_file: one block.                                                    *)
BlockStep ==
    /\ ext4.phase = "file"
    /\ LET error == ExtentError(ext4.volume, ext4.node, ext4.logical)
           left == ext4.node.size - ext4.logical * BlockSize
           piece == [data |-> ContentOf(ext4.volume, ExtentBlock(ext4.node, ext4.logical)).data,
                     length |-> IF left < BlockSize THEN left ELSE BlockSize]
       IN ext4' = IF left <= 0 THEN Returned(ext4, "ok")
                  ELSE IF error # "none" THEN Returned(ext4, error)
                  ELSE [ext4 EXCEPT !.output = Append(@, piece), !.logical = @ + 1]

(* A sector that cannot be read.                                            *)
Ext4Io ==
    \/ ext4.phase = "off" /\ ext4' = [NoVolume EXCEPT !.phase = "refused", !.result = "Io"]
    \/ ext4.phase \in {"inode", "directory", "file"} /\ ext4' = Returned(ext4, "Io")

Ext4Next == \/ Ext4Open \/ InodeStep \/ RecordStep \/ BlockStep \/ Ext4Io
            \/ \E path \in Ext4Paths : Ext4Call("stat", path) \/ Ext4Call("read", path)

-----------------------------------------------------------------------------
(* The blocks an inode owns by their number in the file, the names of a     *)
(* directory (the records that follow one another from offset 0), and the   *)
(* inode a path denotes.                                                    *)
OwnBlocks(node) ==
    UNION {{[logical |-> x.first + i, physical |-> x.physical + i] : i \in 0 .. x.length - 1} :
           x \in {node.extents[k] : k \in 1 .. Len(node.extents)}}
LiveOffsets(volume, block) ==
    LET steps[n \in 0 .. BlockSize \div 8] ==
            IF n = 0 THEN {0}
            ELSE {o + RecordAt(volume, block, o).length : o \in steps[n - 1]} \cap (0 .. BlockSize - 1)
    IN  UNION {steps[n] : n \in 0 .. BlockSize \div 8}
NamesOf(volume, node) ==
    {r \in UNION {{RecordAt(volume, b.physical, o) : o \in LiveOffsets(volume, b.physical)} :
                  b \in {own \in OwnBlocks(node) : own.logical < CeilDiv(node.size, BlockSize)}} : r.child # 0}
DenotedBy(volume, path) ==
    LET at[n \in 0 .. Len(path)] ==
            IF n = 0 THEN {2}
            ELSE UNION {{r.child : r \in {x \in NamesOf(volume, InodeAt(volume, d)) : x.name = path[n]}} :
                        d \in at[n - 1]}
    IN  at[Len(path)]

(* A read that succeeds returns the file the path denotes, whole and in     *)
(* order: every block of it comes from the extent that holds it, the last   *)
(* one cut at the size, and no block of another file or past an extent is   *)
(* returned (resolve, find_in_directory, extent_block, read_file).          *)
ReadReturnsFile ==
    ext4.phase = "idle" /\ ext4.call = "read" /\ ext4.result = "ok" =>
        /\ ext4.number \in DenotedBy(ext4.volume, ext4.path)
        /\ LET node == InodeAt(ext4.volume, ext4.number)
           IN  /\ Len(ext4.output) = CeilDiv(node.size, BlockSize)
               /\ \A k \in 1 .. Len(ext4.output) :
                    /\ ext4.output[k].length = IF k < Len(ext4.output) THEN BlockSize
                                               ELSE node.size - (k - 1) * BlockSize
                    /\ \E own \in OwnBlocks(node) :
                         /\ own.logical = k - 1
                         /\ ContentOf(ext4.volume, own.physical).data = ext4.output[k].data
=============================================================================
