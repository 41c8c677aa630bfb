------------------------------ MODULE MCFormats ------------------------------
(***************************************************************************)
(* The interpreters of what others have written: disks (MCDisks), program  *)
(* images and WebAssembly modules.  They share no state in the kernel, so  *)
(* a behaviour is about one of them, the subject.                          *)
(***************************************************************************)
EXTENDS MCDisks, Wasm, Loader

VARIABLE subject

I(op, arg) == [op |-> op, arg |-> arg]
LaterOps == {I("else", 0), I("end", 0), I("drop", 0), I("i32", 1), I("i64", "plain")}
AllOps == {I(op, 0) : op \in {"block", "loop", "if", "else", "end", "drop", "load", "store", "eqz", "add",
                              "addl", "nop", "bad", "i32", "call"}}
          \cup {I("call", 1), I("i32", 1), I("i64", "plain"), I("i64", "end"), I("i64", "call"), I("i64", "if")}
LogType == Signature(<<"i32", "i32">>, "i32")
AllSections ==
    {[id |-> "profile", valid |-> TRUE],
     [id |-> "types", types |-> <<LogType, Signature(<<>>, "i32"), Signature(<<"i32">>, "none")>>],
     [id |-> "imports", imports |-> <<[name |-> "log", type |-> 1]>>], [id |-> "function", type |-> 2],
     [id |-> "memory", pages |-> 1], [id |-> "code"], [id |-> "data", offset |-> 0, length |-> 3],
     [id |-> "exports", exports |-> <<[name |-> "main", kind |-> "function", index |-> 1]>>]}

-----------------------------------------------------------------------------
(* Images: text at 0, data at 8 with the tags at 8, the strings at 22, the  *)
(* symbols at 25, the hash table at 27 and the relocations at 29 and 30.    *)
HeaderOf(kind, offset, size, memory) ==
    [kind |-> kind, offset |-> offset, vaddr |-> offset, size |-> size, memory |-> memory,
     aligned |-> TRUE, write |-> FALSE, execute |-> FALSE]
Text == [HeaderOf("load", 0, 6, 8) EXCEPT !.execute = TRUE]
Data == [HeaderOf("load", 8, 26, 31) EXCEPT !.write = TRUE]
Dynamic == HeaderOf("dynamic", 8, 12, 12)
Tls == HeaderOf("tls", 30, 2, 4)
Interp == HeaderOf("interp", 22, 3, 3)
At8(h, vaddr) == [h EXCEPT !.vaddr = vaddr]
Sized(h, size, memory) == [h EXCEPT !.size = size, !.memory = memory]
TagOf(tag, value) == [ZeroEntry EXCEPT !.tag = tag, !.value = value]
RelaOf(target, symbol) == [ZeroEntry EXCEPT !.target = target, !.symbol = symbol, !.supported = TRUE]
NameTags == <<TagOf("strtab", 22), TagOf("strsz", 3), TagOf("symtab", 25), TagOf("syment", 1)>>
SysvTags == NameTags \o <<TagOf("hash", 27), TagOf("rela", 29), TagOf("relasz", 1), TagOf("relaent", 1),
                          TagOf("needed", 0)>>
GnuTags == NameTags \o <<TagOf("gnuhash", 27), TagOf("jmprel", 29), TagOf("pltrelsz", 2), TagOf("pltrel", 7),
                         TagOf("soname", 1)>>
HashEntry == [ZeroEntry EXCEPT !.symbols = 1, !.buckets = 1, !.first = 1, !.bloom = 1,
                               !.chained = <<1, 0>>, !.stops = {1}]
ImageEntries(tags) == [offset \in 8 .. 7 + Len(tags) |-> tags[offset - 7]]
                      @@ 27 :> HashEntry @@ 29 :> RelaOf(36, 0) @@ 30 :> RelaOf(0, 2)
PieImage(headers, tags) ==
    [header |-> TRUE, type |-> "dyn", bias |-> 8, entry |-> 1, length |-> 34, headers |-> headers,
     nul |-> {24}, entries |-> ImageEntries(tags)]
Pie(tags) == PieImage(<<Text, Data, Dynamic, Tls, Interp>>, tags)
ExecImage(headers) == [PieImage(headers, <<>>) EXCEPT !.type = "exec", !.bias = 0, !.entry = 5]
OneMissing(tags) == {RemoveAt(tags, k) : k \in DOMAIN tags}
TagVariants ==
    {SysvTags, GnuTags, SysvTags \o <<TagOf("needed", 0), TagOf("needed", 1)>>, SysvTags \o SysvTags}
    \cup OneMissing(SysvTags) \cup OneMissing(GnuTags)
    \cup {Append(SysvTags, t) :
            t \in {TagOf("rel", 0), TagOf("needed", 2), TagOf("soname", 3), TagOf("strsz", 2), TagOf("hash", 33),
                   TagOf("hash", 40), TagOf("symtab", 34), TagOf("relasz", 2), TagOf("rela", 60), TagOf("rela", 30),
                   TagOf("relaent", 2), TagOf("syment", 2), TagOf("strtab", 33)}}
    \cup {Append(GnuTags, t) : t \in {TagOf("gnuhash", n) : n \in {5, 32, 33}} \cup {TagOf("pltrel", 17)}}
HeaderVariants ==
    {<<>>, <<Text>>, <<Text, Data>>, <<Data, Dynamic>>, <<Tls>>, <<Text, Dynamic>>, <<Text, Data, Text>>,
     <<Text, Data, Dynamic, Dynamic>>, <<Data, [Text EXCEPT !.memory = 9]>>, <<Data, [Text EXCEPT !.memory = 40]>>,
     <<Text, Sized(Data, 4, 4), Sized(At8(Data, 16), 4, 4), At8(Data, 24)>>}
    \cup {<<Text, Data, h>> :
            h \in {[Dynamic EXCEPT !.size = 0], At8(Tls, 39), [Tls EXCEPT !.size = 5], [Interp EXCEPT !.size = 2],
                   [Interp EXCEPT !.size = 9], [Interp EXCEPT !.offset = 24]}}
    \cup {<<Text, d>> :
            d \in {[Data EXCEPT !.execute = TRUE], [Data EXCEPT !.aligned = FALSE], Sized(Data, 32, 32),
                   Sized(Data, 5, 4), Sized(Data, 26, 60), At8(Data, 9), At8(Data, 40), At8(Data, 72),
                   [Sized(At8(Data, 10), 24, 28) EXCEPT !.offset = 10]}}
LoaderImages ==
    {Pie(tags) : tags \in TagVariants} \cup {PieImage(headers, SysvTags) : headers \in HeaderVariants}
    \cup {[Pie(GnuTags) EXCEPT !.entries[27].stops = s] : s \in {{}, {0}, {3}, {5}}}
    \cup {[Pie(GnuTags) EXCEPT !.entries[27].bloom = 2], [Pie(GnuTags) EXCEPT !.entries[27].chained = <<0, 1, 0>>]}
    \cup {[Pie(GnuTags) EXCEPT !.entries[30] = RelaOf(t, 0)] : t \in {0, 5, 7, 38, 39}}
    \cup {[Pie(SysvTags) EXCEPT !.bias = b] : b \in {0, 6, 80}}
    \cup {[Pie(SysvTags) EXCEPT !.header = FALSE], [Pie(SysvTags) EXCEPT !.type = "exec"],
          [Pie(SysvTags) EXCEPT !.entry = 9],
          [PieImage(<<At8(Text, 8), Sized(At8(Data, 0), 26, 30)>>, SysvTags) EXCEPT !.entry = 9],
          ExecImage(<<Text>>), ExecImage(<<At8(Text, 4), At8(Data, 12)>>)}
Strings(lengths) == [k \in DOMAIN lengths |-> [length |-> lengths[k], nul |-> FALSE]]
CallWith(arguments, environment, interpreter) ==
    [arguments |-> arguments, environment |-> environment, interpreter |-> interpreter]
LoaderCalls ==
    {CallWith(<<>>, <<>>, "none"), CallWith(Strings(<<2, 0>>), Strings(<<1>>), "requested"),
     CallWith(Strings(<<5>>), Strings(<<4, 4>>), "none"), CallWith(<<>>, Strings(<<20>>), "none"),
     CallWith(<<[length |-> 2, nul |-> TRUE]>>, <<>>, "none"), CallWith(<<>>, <<>>, "bad"),
     CallWith(Strings(<<0, 0, 0>>), <<>>, "none"), CallWith(Strings(<<0, 0>>), Strings(<<0, 0>>), "none")}

-----------------------------------------------------------------------------
Init == /\ subject \in {"block", "fat32", "ext4", "btrfs", "wasm", "loader"}
        /\ BlockInit /\ FatInit /\ Ext4Init /\ BtrfsInit /\ WasmInit /\ LoaderInit
Next ==
    /\ \/ subject = "block" /\ BlockNext /\ UNCHANGED <<fat, ext4, btrfs, wasm, load>>
       \/ subject = "fat32" /\ FatNext /\ UNCHANGED <<block, ext4, btrfs, wasm, load>>
       \/ subject = "ext4" /\ Ext4Next /\ UNCHANGED <<block, fat, btrfs, wasm, load>>
       \/ subject = "btrfs" /\ BtrfsNext /\ UNCHANGED <<block, fat, ext4, wasm, load>>
       \/ subject = "wasm" /\ WasmNext /\ UNCHANGED <<block, fat, ext4, btrfs, load>>
       \/ subject = "loader" /\ LoaderNext /\ UNCHANGED <<block, fat, ext4, btrfs, wasm>>
    /\ UNCHANGED subject
Spec == Init /\ [][Next]_<<block, fat, ext4, btrfs, wasm, load, subject>>
=============================================================================
