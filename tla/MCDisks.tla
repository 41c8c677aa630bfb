------------------------------- MODULE MCDisks -------------------------------
(***************************************************************************)
(* Small disks for the block queue and the file system readers: for each,  *)
(* a good one and variants that differ from it in one place.               *)
(***************************************************************************)
EXTENDS BlockQueue, Fat32, Ext4, Btrfs, TLC

BlockRequests == [operation : {"Read"}, lba : {0, 1}, length : {2, 3, 4}, data : {<<>>}]
    \cup {[operation |-> "Write", lba |-> l, length |-> 2, data |-> <<d>>] : l \in {0, 1}, d \in Contents}
    \cup {[operation |-> "Write", lba |-> 0, length |-> 4, data |-> <<1, 2>>]}

-----------------------------------------------------------------------------
(* FAT32: the root directory in clusters 2 and 3, a file with a long name   *)
(* in 4 and 5, one with a short name in 6, a directory in 7.  The link of   *)
(* cluster 5 or 3 may be wrong, a part of a long name may have lost its     *)
(* entry, the directory may start outside the data.                         *)
Eoc == EocMin + 1
FatUpper(p) == CASE p = "a" -> "A" [] p = "c" -> "C" [] p = "d" -> "D" [] OTHER -> p
FatBpb == [signature |-> TRUE, bytes |-> 2, spc |-> 2, reserved |-> 1, fats |-> 1, rootEntries |-> 0,
           fatSize16 |-> 0, fatSize |-> 2, total |-> 15, root |-> 2]
FatBpbs == {FatBpb, [FatBpb EXCEPT !.fatSize = 1, !.total = 14], [FatBpb EXCEPT !.root = 8],
            [FatBpb EXCEPT !.spc = 3], [FatBpb EXCEPT !.total = 13], [FatBpb EXCEPT !.fatSize16 = 2]}
FatTable(x, y) == [c \in 0 .. 7 |-> CASE c = 2 -> 3 [] c = 3 -> y [] c = 4 -> 5 [] c = 5 -> x [] OTHER -> Eoc]
FatRoot(orphan, tail, sub) ==
    <<LongEntry(2, TRUE, "b", 1), LongEntry(1, FALSE, "a", 1), ShortEntry(<<"AB~1">>, 1, FALSE, 4, 5),
      Entry("deleted"), orphan, ShortEntry(<<"C">>, 2, FALSE, 6, 2), ShortEntry(<<"D">>, 3, TRUE, sub, 0), tail>>
FatSub(orphan) == <<orphan, LongEntry(1, TRUE, "a", 4), ShortEntry(<<"E">>, 4, FALSE, 0, 0), Entry("end")>>
FatSector(list, k) == [entries |-> SubSeq(list, 2 * k + 1, 2 * k + 2), bytes |-> <<0, 0>>]
FatLayout(x, y, orphan, tail, sub) ==
    [table |-> FatTable(x, y),
     sectors |-> [p \in (0 .. 7) \X {0, 1} |->
        CASE p[1] = 2 -> FatSector(FatRoot(orphan, tail, sub), p[2])
          [] p[1] = 3 -> FatSector(FatRoot(orphan, tail, sub), 2 + p[2])
          [] p[1] < 2 -> [entries |-> <<Entry("end"), Entry("end")>>, bytes |-> <<0, 0>>]
          [] p[1] = 7 -> FatSector(FatSub(orphan), p[2])
          [] OTHER -> [entries |-> <<>>, bytes |-> <<1, 1>>]]]
FatLayouts ==
    {FatLayout(x, Eoc, LongEntry(1, TRUE, "a", 2), Entry("end"), 7) : x \in {Eoc, 4, 5, 6, 0, 1, 8, EocMin - 1}}
    \cup {FatLayout(Eoc, y, o, Entry("deleted"), 7) :
            y \in {Eoc, 2, 0}, o \in {Entry("deleted"), LongEntry(2, TRUE, "a", 2), LongEntry(2, FALSE, "a", 4)}}
    \cup {FatLayout(Eoc, Eoc, Entry("deleted"), Entry("end"), sub) : sub \in {0, 1, 8}}
FatPaths == {<<<<"a", "b">>>>, <<<<"c">>>>, <<<<"d">>, <<"a">>>>, <<<<"d">>>>, <<<<"b">>>>, <<<<"c">>, <<"a">>>>}
FatInputs == {[k \in 1 .. n |-> 2] : n \in {0, 4, 7, 9}}

-----------------------------------------------------------------------------
(* ext4: inodes 1 to 4 in the table at block 3, 5 to 8 in that at block 6.  *)
Extent(first, length, physical) ==
    [first |-> first, length |-> length, physical |-> physical, unwritten |-> FALSE]
Unwritten(extent) == [extent EXCEPT !.unwritten = TRUE]
Inode(directory, size, extents) ==
    [ZeroInode EXCEPT !.directory = directory, !.readable = TRUE, !.size = size, !.mapped = TRUE,
                      !.magic = TRUE, !.extents = extents]
Ext4Super ==
    [magic |-> TRUE, logBlockSize |-> 0, blocks |-> 20, first |-> 1, perGroup |-> 10, inodesPerGroup |-> 4,
     inodeSize |-> TRUE, descriptorSize |-> TRUE, recover |-> FALSE, otherFeatures |-> FALSE, extents |-> TRUE]
Ext4Supers ==
    {Ext4Super, [Ext4Super EXCEPT !.magic = FALSE], [Ext4Super EXCEPT !.logBlockSize = 3],
     [Ext4Super EXCEPT !.recover = TRUE], [Ext4Super EXCEPT !.first = 20], [Ext4Super EXCEPT !.extents = FALSE],
     [Ext4Super EXCEPT !.perGroup = 19, !.inodesPerGroup = 1], [Ext4Super EXCEPT !.blocks = 14],
     [Ext4Super EXCEPT !.inodesPerGroup = 2], [Ext4Super EXCEPT !.perGroup = 19], [Ext4Super EXCEPT !.blocks = 2]}
Ext4Tables == 0 :> 3 @@ 1 :> 6
Ext4Inodes ==
    <<3, 1>> :> Inode(TRUE, 48, <<Extent(0, 1, 8), Extent(1, 1, 10)>>)
 @@ <<3, 2>> :> Inode(FALSE, 60, <<Extent(1, 2, 14), Extent(0, 1, 13)>>)
 @@ <<3, 3>> :> Inode(TRUE, 24, <<Extent(0, 1, 9)>>)
 @@ <<6, 0>> :> Inode(FALSE, 30, <<Extent(0, 1, 16), Extent(2, 1, 17)>>)
 @@ <<6, 1>> :> [Inode(FALSE, 1, <<>>) EXCEPT !.readable = FALSE]
 @@ <<6, 2>> :> Inode(FALSE, 0, <<>>)
NameBlock(records) == [records |-> records, data |-> "names"]
DataBlock(data) == [records |-> <<>>, data |-> data]
Ext4Blocks ==
    8 :> NameBlock(0 :> Record(3, 12, 1, "a") @@ 12 :> Record(4, 12, 1, "d"))
 @@ 10 :> NameBlock(0 :> Record(0, 12, 1, "b") @@ 12 :> Record(5, 12, 1, "b"))
 @@ 9 :> NameBlock(0 :> Record(6, 12, 1, "a") @@ 12 :> Record(7, 12, 1, "b"))
 @@ 13 :> DataBlock("p") @@ 14 :> DataBlock("q") @@ 15 :> DataBlock("r") @@ 16 :> DataBlock("s")
 @@ 17 :> DataBlock("t")
Ext4Disk(super, tables, inodes, blocks) ==
    [super |-> super, tables |-> tables, inodes |-> inodes, blocks |-> blocks]
RootInodes ==
    {Inode(TRUE, 72, <<Extent(0, 1, 8)>>), Inode(TRUE, 24, <<Extent(0, 1, 10)>>),
     [Inode(TRUE, 24, <<Extent(0, 1, 10)>>) EXCEPT !.mapped = FALSE]}
FileInodes ==
    {[Inode(FALSE, 24, <<Extent(0, 1, 10)>>) EXCEPT !.magic = FALSE],
     [Inode(FALSE, 24, <<Extent(0, 1, 10)>>) EXCEPT !.depth = 1],
     Inode(FALSE, 40, <<Extent(0, 2, 19)>>), Inode(FALSE, 100, <<>>),
     Inode(FALSE, 40, <<Unwritten(Extent(1, 1, 13)), Extent(0, 2, 13)>>),
     Inode(FALSE, 40, <<Extent(0, 0, 15), Extent(0, 1, 13), Extent(1, 1, 16), Extent(2, 1, 14)>>),
     Inode(FALSE, 40, <<Extent(0, 0, 15), Extent(0, 1, 13), Extent(1, 1, 16)>>)}
RootNames ==
    {0 :> Record(3, 24, 1, "a"), 0 :> Record(0, 12, 1, "a"), 0 :> Record(3, 10, 1, "a"),
     0 :> Record(3, 28, 1, "a"), 0 :> Record(3, 8, 1, "a"), 0 :> Record(9, 20, 1, "a"),
     0 :> Record(30, 12, 1, "a") @@ 12 :> Record(2, 12, 1, "d")}
Ext4Disks ==
    {Ext4Disk(s, Ext4Tables, Ext4Inodes, Ext4Blocks) : s \in Ext4Supers}
    \cup {Ext4Disk(Ext4Super, t, Ext4Inodes, Ext4Blocks) : t \in {0 :> 20, 0 :> 3 @@ 1 :> 19}}
    \cup {Ext4Disk(Ext4Super, Ext4Tables, [Ext4Inodes EXCEPT ![<<3, 1>>] = i], Ext4Blocks) : i \in RootInodes}
    \cup {Ext4Disk(Ext4Super, Ext4Tables, [Ext4Inodes EXCEPT ![<<3, 2>>] = i], Ext4Blocks) : i \in FileInodes}
    \cup {Ext4Disk(Ext4Super, Ext4Tables, Ext4Inodes, [Ext4Blocks EXCEPT ![8] = NameBlock(n)]) : n \in RootNames}
Ext4Names == {<<>>, <<"a">>, <<"b">>, <<"d">>, <<"d", "a">>, <<"d", "b">>, <<"a", "b">>, <<"d", "d", "d", "a">>}

-----------------------------------------------------------------------------
(* Btrfs: the chunk tree is the leaf 2, the root tree the node 4 over 6 and *)
(* 8, the file system tree the node 10 over 12 and 18, with 14 and 16 under *)
(* 12.                                                                      *)
ChunkItem(logical, length, physical) ==
    [Item(256, "chunk", logical) EXCEPT !.length = length, !.physical = physical]
RootItem(id, offset, bytenr) == [Item(id, "root", offset) EXCEPT !.bytenr = bytenr, !.dirid = 256]
DirectoryItem(id) == [Item(id, "inode", 0) EXCEPT !.directory = TRUE]
FileItem(id, size) == [Item(id, "inode", 0) EXCEPT !.length = size]
NameRecord(name, inode) == [name |-> name, inode |-> inode, ok |-> TRUE]
NamesItem(id, records) == [Item(id, "dir", 7) EXCEPT !.records = records]
ExtentItem(id, length) == [Item(id, "extent", 0) EXCEPT !.length = length]
Short(item) == [item EXCEPT !.ok = FALSE]
BtrfsSuper ==
    [magic |-> TRUE, crc32c |-> TRUE, sum |-> TRUE, sizes |-> TRUE, incompat |-> FALSE, root |-> 4,
     chunkRoot |-> 2, total |-> 60, arrayFits |-> TRUE, array |-> <<ChunkItem(2, 2, 20)>>]
BtrfsSupers ==
    {BtrfsSuper, [BtrfsSuper EXCEPT !.magic = FALSE], [BtrfsSuper EXCEPT !.crc32c = FALSE],
     [BtrfsSuper EXCEPT !.sum = FALSE], [BtrfsSuper EXCEPT !.sizes = FALSE], [BtrfsSuper EXCEPT !.root = 0],
     [BtrfsSuper EXCEPT !.total = 47]}
    \cup {[BtrfsSuper EXCEPT !.array = a] :
            a \in {<<ChunkItem(2, 1, 20)>>, <<ChunkItem(2, 0, 20)>>, <<ChunkItem(2, 1, 20), ChunkItem(3, 1, 22)>>,
                   <<ChunkItem(90, 20, 0), ChunkItem(2, 2, 20)>>, <<ChunkItem(2, 2, 21), ChunkItem(2, 2, 20)>>}}
BtrfsBlocks ==
    20 :> Leaf(2, <<ChunkItem(2, 2, 20), ChunkItem(4, 10, 30), ChunkItem(14, 10, 46)>>)
 @@ 30 :> Node(4, 1, <<6, 8>>)
 @@ 32 :> Leaf(6, <<RootItem(1, 0, 4), RootItem(5, 0, 10)>>)
 @@ 34 :> Leaf(8, <<RootItem(5, 1, 16), RootItem(256, 0, 16), RootItem(257, 0, 16)>>)
 @@ 36 :> Node(10, 2, <<12, 18>>)
 @@ 38 :> Node(12, 1, <<14, 16>>)
 @@ 46 :> Leaf(14, <<DirectoryItem(256), NamesItem(256, <<NameRecord("b", 258), NameRecord("a", 257)>>)>>)
 @@ 48 :> Leaf(16, <<FileItem(257, 2), ExtentItem(257, 2), FileItem(258, 0)>>)
 @@ 50 :> Leaf(18, <<NamesItem(256, <<NameRecord("a", 258), NameRecord("c", 259)>>),
                     [FileItem(259, 3) EXCEPT !.readable = FALSE], DirectoryItem(260)>>)
BtrfsVariants ==
    {20 :> Leaf(2, <<ChunkItem(4, 10, 30)>>),
     20 :> Leaf(2, <<ChunkItem(4, 4, 30), ChunkItem(8, 6, 34), ChunkItem(14, 10, 46)>>),
     34 :> Leaf(8, <<RootItem(5, 1, 16), RootItem(256, 0, 16), Short(RootItem(257, 0, 16))>>)}
    \cup {36 :> t : t \in {[Node(10, 2, <<12, 18>>) EXCEPT !.sum = FALSE], Node(10, 9, <<12, 18>>),
                           Node(10, 2, <<12, 10>>), Node(10, 2, <<18, 12>>), Node(10, 2, <<>>)}}
    \cup {38 :> Node(12, 1, c) : c \in {<<14, 16, 18, 14>>, <<14, 16, 18>>, <<14, 90>>}}
    \cup {46 :> t : t \in {[Leaf(14, <<DirectoryItem(256)>>) EXCEPT !.fsid = FALSE], Leaf(14, <<FileItem(256, 1)>>)}}
    \cup {46 :> Leaf(14, <<DirectoryItem(256), i>>) :
            i \in {[NamesItem(256, <<>>) EXCEPT !.bounds = FALSE],
                   NamesItem(256, <<Short(NameRecord("b", 260)), NameRecord("a", 257)>>),
                   NamesItem(256, <<NameRecord("b", 260), NameRecord("a", 257)>>)}}
    \cup {48 :> Leaf(16, i) :
            i \in {<<FileItem(257, 2), ExtentItem(257, 1), FileItem(258, 0)>>,
                   <<FileItem(257, 2), [ExtentItem(257, 2) EXCEPT !.single = FALSE], FileItem(258, 1)>>,
                   <<FileItem(257, 9), Short(FileItem(258, 2))>>,
                   <<FileItem(257, 2), DirectoryItem(258), FileItem(257, 0), DirectoryItem(260)>>}}
BtrfsDisks == {[super |-> s, blocks |-> BtrfsBlocks] : s \in BtrfsSupers}
              \cup {[super |-> BtrfsSuper, blocks |-> v @@ BtrfsBlocks] : v \in BtrfsVariants}
BtrfsNames == {<<>>, <<"a">>, <<"b">>, <<"c">>, <<"d">>, <<"a", "b">>}
=============================================================================
