-------------------------------- MODULE Btrfs --------------------------------
(***************************************************************************)
(* The read-only Btrfs reader of src/btrfs.rs: the chunk map, the walk     *)
(* through a tree with a stack of pending nodes, and the searches that use *)
(* it to open a volume, to stat and to read a path.  One step reads one    *)
(* tree block or looks at one item of a leaf.  A tree block is a record at *)
(* a physical address; what a checksum or a bound says of it is a field.   *)
(***************************************************************************)
EXTENDS Integers, Sequences, FiniteSets, SequencesExt

CONSTANTS NodeSize,         \* nodesize, in the units of an address
          SectorUnit,       \* SECTOR_SIZE in the same units
          AddressLimit,     \* the largest u64 address
          ChunkSlots,       \* MAX_CHUNKS
          MaxPending,       \* MAX_PENDING_NODES
          MaxVisits,        \* MAX_TREE_VISITS
          LeafItems,        \* items a leaf has room for
          NodePointers,     \* children a node has room for
          BtrfsVolumes,     \* [super, blocks]: superblock and tree blocks by physical address
          BtrfsPaths,       \* sequences of names
          MaxSubvolumes,    \* room in the caller's array
          MaxRead           \* room in the caller's buffer

ASSUME BtrfsAssumption ==
    /\ {NodeSize, SectorUnit, AddressLimit, ChunkSlots, MaxPending, MaxVisits, LeafItems, NodePointers}
            \subseteq Nat \ {0}
    /\ NodeSize % SectorUnit = 0 /\ MaxSubvolumes \in Nat /\ MaxRead \in Nat

VARIABLE btrfs

FsTree == 5                 \* BTRFS_FS_TREE_OBJECTID
FirstFree == 256            \* BTRFS_FIRST_FREE_OBJECTID

(* Items of leaves: a key and the data its kind has.  bounds says whether   *)
(* the data lies inside the leaf, ok whether it is long enough.             *)
Item(objectid, kind, offset) ==
    [objectid |-> objectid, kind |-> kind, offset |-> offset, bounds |-> TRUE, ok |-> TRUE,
     length |-> 0, physical |-> 0, single |-> TRUE, dirid |-> 0, bytenr |-> 0,
     directory |-> FALSE, readable |-> TRUE, records |-> <<>>]
Leaf(bytenr, items) == [bytenr |-> bytenr, sum |-> TRUE, fsid |-> TRUE, level |-> 0, items |-> items, children |-> <<>>]
Node(bytenr, level, children) ==
    [bytenr |-> bytenr, sum |-> TRUE, fsid |-> TRUE, level |-> level, items |-> <<>>, children |-> children]

-----------------------------------------------------------------------------
(* parse_chunk and add_chunk, with the error they end with.                 *)
Chunk(i) == [logical |-> i.offset, length |-> i.length, physical |-> i.physical]
SameLogical(chunks, i) == {k \in 1 .. Len(chunks) : chunks[k].logical = i.offset}
ChunkError(chunks, i) ==
    IF ~i.ok THEN "TreeCorrupt"
    ELSE IF i.length = 0 \/ ~i.single THEN "UnsupportedFeature"
    ELSE IF SameLogical(chunks, i) = {} /\ Len(chunks) = ChunkSlots THEN "UnsupportedFeature"
    ELSE "none"
AddChunk(chunks, i) ==
    IF SameLogical(chunks, i) = {} THEN Append(chunks, Chunk(i))
    ELSE [chunks EXCEPT ![CHOOSE k \in SameLogical(chunks, i) :
                            \A j \in SameLogical(chunks, i) : k <= j] = Chunk(i)]

(* map_logical: the first chunk that holds the address; -1 is               *)
(* UnmappedLogical, which a chunk past the end of the addresses gives too.  *)
MapLogical(chunks, logical) ==
    LET End(k) == chunks[k].logical + chunks[k].length
        stops == {k \in 1 .. Len(chunks) :
                    End(k) > AddressLimit \/ logical \in chunks[k].logical .. End(k) - 1}
        k == CHOOSE i \in stops : \A j \in stops : i <= j
    IN  IF stops = {} THEN -1
        ELSE IF End(k) > AddressLimit \/ chunks[k].physical + logical - chunks[k].logical > AddressLimit THEN -1
        ELSE chunks[k].physical + logical - chunks[k].logical

(* read_tree_block and read_physical.                                       *)
ReadError(b, logical) ==
    LET physical == MapLogical(b.chunks, logical)
        end == MapLogical(b.chunks, logical + NodeSize - 1)
        blocks == b.volume.blocks
    IN  IF physical = -1 THEN "UnmappedLogical"
        ELSE IF logical + NodeSize > AddressLimit THEN "TreeCorrupt"
        ELSE IF end = -1 THEN "UnmappedLogical"
        ELSE IF end # physical + NodeSize - 1 THEN "UnsupportedFeature"
        ELSE IF physical % SectorUnit # 0 \/ physical + NodeSize > b.volume.super.total THEN "Io"
        ELSE IF physical \notin DOMAIN blocks THEN "ChecksumMismatch"
        ELSE IF ~blocks[physical].sum THEN "ChecksumMismatch"
        ELSE IF ~blocks[physical].fsid \/ blocks[physical].bytenr # logical \/ blocks[physical].level > 8
                THEN "TreeCorrupt"
        ELSE "none"
TreeBlock(b, logical) == b.volume.blocks[MapLogical(b.chunks, logical)]

-----------------------------------------------------------------------------
(* What a call is doing: the walk (pending, visits, the items of the leaf   *)
(* that are still to be looked at), what it looks for, and what it has      *)
(* found.  answer is history: the last search that ended without an error.  *)
NoAnswer == [purpose |-> "none", start |-> 0, key |-> 0, name |-> "", found |-> <<>>]
Unmounted == [phase |-> "off", volume |-> <<>>, chunks |-> <<>>, collected |-> <<>>, call |-> "open",
              path |-> <<>>, component |-> 1, root |-> 0, inode |-> 0, size |-> 0, purpose |-> "none",
              start |-> 0, pending |-> <<>>, visits |-> 0, items |-> <<>>, found |-> <<>>,
              result |-> "none", answer |-> NoAnswer]
Finished(b, phase, result) ==
    [Unmounted EXCEPT !.phase = phase, !.volume = b.volume, !.chunks = b.chunks, !.call = b.call,
                      !.result = result, !.answer = b.answer]
Fail(b, error) == IF b.call = "open" THEN [Unmounted EXCEPT !.phase = "refused", !.result = error]
                  ELSE Finished(b, "idle", error)
Walk(b, purpose, start) ==
    [b EXCEPT !.phase = "walk", !.purpose = purpose, !.start = start, !.pending = <<start>>,
              !.visits = 0, !.items = <<>>, !.found = <<>>]

(* Mutation of Pushed: the children are pushed from the first to the last.  *)
PushedForward(pending, children) == pending \o children

(* walk_leaves pushes the children in reverse, to visit the first one next. *)
Pushed(pending, children) == pending \o Reverse(children)
Visited(b) ==
    LET logical == Last(b.pending)
        rest == Front(b.pending)
        t == TreeBlock(b, logical)
    IN  IF b.visits = MaxVisits THEN Fail(b, "TreeCorrupt")
        ELSE IF ReadError(b, logical) # "none" THEN Fail(b, ReadError(b, logical))
        ELSE IF (IF t.level = 0 THEN Len(t.items) > LeafItems ELSE Len(t.children) > NodePointers)
                THEN Fail(b, "TreeCorrupt")
        ELSE IF t.level = 0 THEN [b EXCEPT !.phase = "leaf", !.pending = rest, !.visits = @ + 1, !.items = t.items]
        ELSE IF Len(rest) + Len(t.children) > MaxPending THEN Fail(b, "UnsupportedFeature")
        ELSE [b EXCEPT !.pending = Pushed(rest, t.children), !.visits = @ + 1]

-----------------------------------------------------------------------------
(* The visitors: whether an item is what a search looks for, and what is    *)
(* wrong with it.  A directory item holds several records.                  *)
Wanted(purpose, key, item) ==
    IF purpose = "chunks" THEN item.kind = "chunk"
    ELSE IF purpose = "root" THEN item.kind = "root" /\ item.objectid = FsTree
    ELSE IF purpose \in {"parent", "inode"} THEN item.kind = "inode" /\ item.objectid = key
    ELSE IF purpose = "entry" THEN item.kind = "dir" /\ item.objectid = key
    ELSE IF purpose = "extent" THEN item.kind = "extent" /\ item.objectid = key /\ item.offset = 0
    ELSE item.kind = "root" /\ item.objectid >= FirstFree
Name(b) == IF b.purpose = "entry" THEN b.path[b.component] ELSE ""
Before(records, name) ==        \* the records find_dir_entry looks at
    LET named == {k \in 1 .. Len(records) : records[k].name = name}
    IN  IF named = {} THEN records ELSE SubSeq(records, 1, CHOOSE k \in named : \A j \in named : k <= j)
Looked(b, item) ==
    LET next == [b EXCEPT !.items = Tail(@)]
        records == Before(item.records, Name(b))
        hit == records # <<>> /\ Last(records).name = Name(b)
    IN  IF ~item.bounds THEN Fail(b, "TreeCorrupt")
        ELSE IF ~Wanted(b.purpose, b.inode, item) THEN next
        ELSE IF b.purpose = "chunks" THEN
                IF ChunkError(b.collected, item) # "none" THEN Fail(b, ChunkError(b.collected, item))
                ELSE [next EXCEPT !.collected = AddChunk(@, item)]
        ELSE IF b.purpose = "subvolumes" /\ Len(b.found) = MaxSubvolumes THEN [b EXCEPT !.phase = "ended"]
        ELSE IF b.purpose = "extent" /\ ~(item.ok /\ item.single) THEN Fail(b, "UnsupportedFeature")
        ELSE IF ~item.ok THEN Fail(b, "TreeCorrupt")
        ELSE IF b.purpose = "subvolumes" THEN [next EXCEPT !.found = Append(@, item)]
        ELSE IF b.purpose = "entry" THEN
                IF \E k \in 1 .. Len(records) : ~records[k].ok THEN Fail(b, "TreeCorrupt")
                ELSE IF hit THEN [b EXCEPT !.phase = "ended", !.found = <<Last(records)>>] ELSE next
        ELSE IF b.purpose = "extent" /\ item.length # b.size THEN Fail(b, "TreeCorrupt")
        ELSE [b EXCEPT !.phase = "ended", !.found = <<item>>]

(* resolve: the inode of the next component, or of the file.                *)
NextComponent(b) == Walk(b, IF b.component <= Len(b.path) THEN "parent" ELSE "inode", b.root)
Continued(b) ==
    LET item == Head(b.found)
        none == b.found = <<>>
    IN  IF b.purpose = "chunks" THEN
                Walk([b EXCEPT !.chunks = b.collected, !.collected = <<>>], "root", b.volume.super.root)
        ELSE IF b.purpose = "subvolumes" THEN Finished(b, "idle", "ok")
        ELSE IF b.purpose = "extent" THEN
                Finished(b, "idle", IF none /\ b.size # 0 THEN "UnsupportedFeature" ELSE "ok")
        ELSE IF none THEN Fail(b, "NotFound")
        ELSE IF b.purpose = "root" THEN
                IF b.call = "open" THEN Finished(b, "idle", "ok")
                ELSE NextComponent([b EXCEPT !.root = item.bytenr, !.inode = item.dirid])
        ELSE IF b.purpose = "parent" THEN
                IF item.directory THEN Walk(b, "entry", b.root) ELSE Fail(b, "NotDirectory")
        ELSE IF b.purpose = "entry" THEN NextComponent([b EXCEPT !.inode = item.inode, !.component = @ + 1])
        ELSE IF b.call = "stat" THEN Finished(b, "idle", "ok")
        ELSE IF item.directory THEN Fail(b, "IsDirectory")
        ELSE IF ~item.readable THEN Fail(b, "PermissionDenied")
        ELSE IF item.length > MaxRead THEN Fail(b, "BufferTooSmall")
        ELSE Walk([b EXCEPT !.size = item.length], "extent", b.root)

-----------------------------------------------------------------------------
(* open: the superblock, its array of system chunks one by one, then the    *)
(* walks.  A sector that cannot be read ends the call.                      *)
SuperError(s) ==
    IF ~s.magic THEN "InvalidSuperblock"
    ELSE IF ~s.crc32c THEN "UnsupportedChecksum"
    ELSE IF ~s.sum THEN "ChecksumMismatch"
    ELSE IF ~s.sizes \/ s.incompat THEN "UnsupportedFeature"
    ELSE IF s.root = 0 \/ s.chunkRoot = 0 \/ ~s.arrayFits THEN "InvalidSuperblock"
    ELSE "none"
BtrfsInit == btrfs = Unmounted
BtrfsOpen ==
    /\ btrfs.phase = "off"
    /\ \E volume \in BtrfsVolumes :
         btrfs' = IF SuperError(volume.super) # "none" THEN Fail(btrfs, SuperError(volume.super))
                  ELSE [btrfs EXCEPT !.phase = "array", !.volume = volume, !.items = volume.super.array]
ArrayStep ==
    /\ btrfs.phase = "array"
    /\ btrfs' =
         IF btrfs.items = <<>>
         THEN Walk([btrfs EXCEPT !.collected = btrfs.chunks], "chunks", btrfs.volume.super.chunkRoot)
         ELSE IF ChunkError(btrfs.chunks, Head(btrfs.items)) # "none"
         THEN Fail(btrfs, ChunkError(btrfs.chunks, Head(btrfs.items)))
         ELSE [btrfs EXCEPT !.chunks = AddChunk(@, Head(btrfs.items)), !.items = Tail(@)]
BtrfsCall(call, path) ==
    /\ btrfs.phase = "idle"
    /\ btrfs' = Walk([Finished(btrfs, "idle", "none") EXCEPT !.call = call, !.path = path],
                     IF call = "subvolumes" THEN "subvolumes" ELSE "root", btrfs.volume.super.root)
WalkStep == btrfs.phase = "walk" /\ btrfs.pending # <<>> /\ btrfs' = Visited(btrfs)
WalkEnd == btrfs.phase = "walk" /\ btrfs.pending = <<>> /\ btrfs' = [btrfs EXCEPT !.phase = "ended"]
LeafStep == /\ btrfs.phase = "leaf"
            /\ btrfs' = IF btrfs.items = <<>> THEN [btrfs EXCEPT !.phase = "walk"]
                        ELSE Looked(btrfs, Head(btrfs.items))
Continue ==
    /\ btrfs.phase = "ended"
    /\ btrfs' = Continued([btrfs EXCEPT !.answer =
                    [purpose |-> btrfs.purpose, start |-> btrfs.start, key |-> btrfs.inode,
                     name |-> Name(btrfs), found |-> btrfs.found]])
BtrfsIo == /\ btrfs.phase = "off" \/ (btrfs.phase = "walk" /\ btrfs.pending # <<>>)
           /\ btrfs' = Fail(btrfs, "Io")

BtrfsNext == \/ BtrfsOpen \/ ArrayStep \/ WalkStep \/ WalkEnd \/ LeafStep \/ Continue \/ BtrfsIo
             \/ \E path \in BtrfsPaths : BtrfsCall("stat", path) \/ BtrfsCall("read", path)
             \/ BtrfsCall("subvolumes", <<>>)

-----------------------------------------------------------------------------
(* The items of a tree in order, for trees whose levels go down: blocks are *)
(* known by their logical address.                                          *)
BlockOf(volume, logical) ==
    volume.blocks[CHOOSE p \in DOMAIN volume.blocks : volume.blocks[p].bytenr = logical]
Logicals(volume) == {volume.blocks[p].bytenr : p \in DOMAIN volume.blocks}
LevelsGoDown(volume) ==
    \A p \in DOMAIN volume.blocks : \A k \in 1 .. Len(volume.blocks[p].children) :
        /\ volume.blocks[p].children[k] \in Logicals(volume)
        /\ BlockOf(volume, volume.blocks[p].children[k]).level < volume.blocks[p].level
InOrder(volume, start) ==
    LET items[level \in 0 .. 8] ==
            [logical \in Logicals(volume) |->
                LET t == BlockOf(volume, logical)
                IN  IF level = 0 \/ t.level = 0 THEN t.items
                    ELSE FlattenSeq([k \in 1 .. Len(t.children) |-> items[t.level - 1][t.children[k]]])]
    IN  items[8][start]
Records(item, name) == SelectSeq(item.records, LAMBDA r : r.name = name)

(* A search that ends without an error has found the first matching item of *)
(* the tree in key order, or there is none: whatever the shape of the tree, *)
(* the order of the stack, the chunks a block is mapped through and the     *)
(* point where the visitor stopped the walk (walk_leaves, each_item,        *)
(* find_root_item, find_inode, find_dir_entry).                             *)
SearchFindsFirst ==
    LET a == btrfs.answer
    IN  a.purpose \in {"root", "parent", "inode", "entry", "extent"} /\ LevelsGoDown(btrfs.volume) =>
          \E wanted \in {SelectSeq(InOrder(btrfs.volume, a.start), LAMBDA i : Wanted(a.purpose, a.key, i))} :
            a.found = IF a.purpose # "entry" THEN SubSeq(wanted, 1, IF wanted = <<>> THEN 0 ELSE 1)
                      ELSE LET named == FlattenSeq([k \in 1 .. Len(wanted) |-> Records(wanted[k], a.name)])
                           IN  SubSeq(named, 1, IF named = <<>> THEN 0 ELSE 1)
=============================================================================
