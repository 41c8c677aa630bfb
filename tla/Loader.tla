-------------------------------- MODULE Loader --------------------------------
(***************************************************************************)
(* The ELF loader: elf::parse, the choice of an interpreter, what          *)
(* NativeRuntime::prepare_internal does with the plan (segments, initial   *)
(* stack), and dynamic::parse on the same image.  One step handles one     *)
(* program header, segment, string, dynamic tag or relocation.             *)
(*                                                                         *)
(* A byte of the file is known by its offset, so a memory cell that holds  *)
(* n >= 0 holds the n-th byte of the image; Zero is a zeroed byte, Word a  *)
(* byte of the words of the initial stack.  An image that is refused       *)
(* leaves nothing: every error is the same state.                          *)
(* Sums that would overflow a u64 lie past UserLimit and are refused by    *)
(* the same test.                                                          *)
(***************************************************************************)
EXTENDS Integers, Sequences, FiniteSets

CONSTANTS PageBytes, UserLimit,     \* PAGE_SIZE, USER_LIMIT
          MaxSegments, MaxPages,    \* MAX_LOAD_SEGMENTS, MAX_LOAD_PAGES
          MaxStrings,               \* MAX_ARGUMENTS, and MAX_ENVIRONMENT
          StackBytes, StackWords,   \* MAX_STACK_BYTES, MAX_STACK_WORDS
          StackPages,               \* INITIAL_STACK_PAGES
          WordBytes,                \* size of a u64
          MaxInterpreter,           \* MAX_INTERPRETER
          TagBytes, EntryBytes,     \* size of a dynamic tag; RELA_SIZE = SYMBOL_SIZE
          HashBytes,                \* size of a hash table's header
          MaxTags, MaxNeeded,       \* MAX_DYNAMIC_ENTRIES, MAX_NEEDED
          MaxSymbols,               \* MAX_SYMBOLS
          MaxBuckets, MaxBloom,     \* MAX_GNU_HASH_BUCKETS, MAX_GNU_HASH_BLOOM
          MaxRelocations,           \* MAX_RELOCATIONS
          MaxTable, MaxTls,         \* MAX_STRING_TABLE, MAX_TLS_BYTES
          Images,                   \* images with the bias they are loaded at
          Calls                     \* [arguments, environment, interpreter] of a caller

ASSUME LoaderAssumption ==
    /\ {PageBytes, UserLimit, MaxSegments, StackBytes, StackPages, WordBytes, TagBytes, EntryBytes}
          \subseteq Nat \ {0}
    /\ UserLimit % PageBytes = 0
    /\ StackBytes <= StackPages * PageBytes /\ (StackPages + 2) * PageBytes <= UserLimit

VARIABLE load

Zero == -1
Word == -2
Nowhere == -1
RelaFormat == 7                     \* DT_RELA_FORMAT
DownTo(value, unit) == value - (value % unit)
UpToNext(value, unit) == DownTo(value + unit - 1, unit)

(* What the file holds where a table has an entry: a dynamic tag, a RELA    *)
(* entry, the header of a hash table.  Elsewhere the bytes are zero.        *)
ZeroEntry == [tag |-> "null", value |-> 0, target |-> 0, symbol |-> 0, supported |-> FALSE,
              symbols |-> 0, buckets |-> 0, first |-> 0, bloom |-> 0, chained |-> <<>>, stops |-> {}]
EntryAt(l, offset) == IF offset \in DOMAIN l.image.entries THEN l.image.entries[offset] ELSE ZeroEntry

(* dynamic::Tags; a value is <<>> or <<value>>.                             *)
TagNames == {"strtab", "strsz", "symtab", "syment", "hash", "gnuhash", "rela", "relasz", "relaent",
             "jmprel", "pltrelsz", "pltrel", "soname"}
NoTags == [tag \in TagNames |-> <<>>]
Rejected == [phase |-> "refused", image |-> <<>>, call |-> <<>>, at |-> 1, segments |-> <<>>, pages |-> 0,
            interpreter |-> "none", memory |-> <<>>, cursor |-> 0, strings |-> <<>>, stack |-> 0, words |-> 0,
            dynamic |-> <<>>, tls |-> <<>>, tags |-> NoTags, needed |-> <<>>, rel |-> FALSE, tables |-> {},
            symbols |-> 0, relocations |-> <<>>]
Idle == [Rejected EXCEPT !.phase = "idle"]

-----------------------------------------------------------------------------
(* elf::parse: one program header.                                          *)
Segment(l, h) == [start |-> l.image.bias + DownTo(h.vaddr, PageBytes),
                  end |-> l.image.bias + UpToNext(h.vaddr + h.memory, PageBytes),
                  offset |-> h.offset, size |-> h.size, write |-> h.write, execute |-> h.execute]
PagesOf(s) == (s.end - s.start) \div PageBytes

(* Mutation of Overlaps: only a segment that starts inside an earlier one.  *)
OverlapsStart(l, s) == \E k \in 1 .. Len(l.segments) : s.start \in l.segments[k].start .. l.segments[k].end - 1

Overlaps(l, s) ==
    \E k \in 1 .. Len(l.segments) : s.start < l.segments[k].end /\ l.segments[k].start < s.end
BadSegment(l, h) ==
    LET s == Segment(l, h)
    IN  \/ Len(l.segments) = MaxSegments
        \/ h.size > h.memory \/ ~h.aligned \/ h.offset % PageBytes # h.vaddr % PageBytes
        \/ h.offset + h.size > l.image.length
        \/ s.start < PageBytes \/ s.start >= s.end \/ s.end > UserLimit
        \/ (s.write /\ s.execute) \/ Overlaps(l, s)
        \/ l.pages + PagesOf(s) > MaxPages
BadHeader(image) ==
    \/ ~image.header \/ image.headers = <<>> \/ Len(image.headers) > MaxSegments * 4
    \/ (image.type = "exec" /\ image.bias # 0) \/ (image.type = "dyn" /\ image.bias = 0)
    \/ image.bias % PageBytes # 0
InExecutable(l, address) ==
    \E k \in 1 .. Len(l.segments) :
        l.segments[k].execute /\ address \in l.segments[k].start .. l.segments[k].end - 1

(* LoadPlan::contains_address and file_offset.                              *)
ContainsAddress(l, address, length) ==
    \E k \in 1 .. Len(l.segments) : address >= l.segments[k].start /\ address + length <= l.segments[k].end
FileOffset(l, address, length) ==
    LET holding == {k \in 1 .. Len(l.segments) :
                      /\ address >= l.segments[k].start
                      /\ address + length <= l.segments[k].start + l.segments[k].size}
        k == CHOOSE i \in holding : \A j \in holding : i <= j
    IN  IF holding = {} THEN Nowhere ELSE l.segments[k].offset + address - l.segments[k].start

LoaderInit == load = Idle
Start == /\ load.phase = "idle"
         /\ \E image \in Images, call \in Calls :
              load' = IF BadHeader(image) THEN Rejected
                      ELSE [Idle EXCEPT !.phase = "headers", !.image = image, !.call = call]
ParseHeader ==
    /\ load.phase = "headers" /\ load.at <= Len(load.image.headers)
    /\ LET h == load.image.headers[load.at]
       IN load' = IF h.kind # "load" THEN [load EXCEPT !.at = @ + 1]
                  ELSE IF BadSegment(load, h) THEN Rejected
                  ELSE [load EXCEPT !.at = @ + 1, !.pages = @ + PagesOf(Segment(load, h)),
                                    !.segments = Append(@, Segment(load, h))]

(* select_interpreter: that of the image before the one the caller asks     *)
(* for; its path is the bytes before the first NUL, and there are some.     *)
FirstInterpreter(image) ==
    LET interpreters == {k \in 1 .. Len(image.headers) : image.headers[k].kind = "interp"}
    IN  IF interpreters = {} THEN <<>>
        ELSE <<image.headers[CHOOSE k \in interpreters : \A j \in interpreters : k <= j]>>
BadInterpreter(image, h) ==
    \/ h.size = 0 \/ h.size > MaxInterpreter \/ h.offset + h.size > image.length
    \/ h.offset \in image.nul \/ (h.offset .. h.offset + h.size - 1) \cap image.nul = {}
ParseDone ==
    /\ load.phase = "headers" /\ load.at > Len(load.image.headers)
    /\ LET own == FirstInterpreter(load.image)
           wanted == load.call.interpreter
       IN load' = IF load.segments = <<>> \/ ~InExecutable(load, load.image.bias + load.image.entry) THEN Rejected
                  ELSE IF own # <<>> /\ BadInterpreter(load.image, own[1]) THEN Rejected
                  ELSE IF own = <<>> /\ wanted = "bad" THEN Rejected
                  ELSE [load EXCEPT !.phase = "map", !.at = 1,
                                    !.interpreter = IF own # <<>> THEN "own" ELSE wanted]

-----------------------------------------------------------------------------
(* prepare_internal: the pages of a segment, zeroed, then the bytes of the  *)
(* file; a page that cannot be mapped undoes everything.                    *)
WithSegment(l, s) ==
    [a \in DOMAIN l.memory \cup (s.start .. s.end - 1) |->
        IF a \in s.start .. s.start + s.size - 1 THEN FileOffset(l, s.start, s.size) + a - s.start
        ELSE IF a \in s.start .. s.end - 1 THEN Zero ELSE l.memory[a]]
MapSegment ==
    /\ load.phase = "map" /\ load.at <= Len(load.segments)
    /\ LET s == load.segments[load.at]
       IN \/ load' = Rejected
          \/ load' = [load EXCEPT !.at = @ + 1, !.memory = WithSegment(load, s)]

(* map_stack, which refuses a page a segment has, then InitialStack::build: *)
(* the strings downwards from the top, then the words, which load_words     *)
(* writes.  The bytes of the strings stay in the plan, nothing copies them. *)
StackTop == UserLimit - PageBytes
StackMemory == StackTop - StackPages * PageBytes .. StackTop - 1
WordCount(call) == Len(call.arguments) + Len(call.environment) + 9
StartStack ==
    /\ load.phase = "map" /\ load.at > Len(load.segments)
    /\ \/ load' = Rejected                                   \* no frame
       \/ load' = IF \/ DOMAIN load.memory \cap StackMemory # {}
                     \/ Len(load.call.arguments) > MaxStrings \/ Len(load.call.environment) > MaxStrings
                     \/ WordCount(load.call) > StackWords
                  THEN Rejected
                  ELSE [load EXCEPT !.phase = "strings", !.at = 1, !.cursor = StackTop,
                                    !.memory = [a \in DOMAIN @ \cup StackMemory |->
                                                  IF a \in StackMemory THEN Zero ELSE @[a]]]
StringsOf(call) == call.arguments \o call.environment

(* Mutation of PlaceString: no room for the byte that ends a string.        *)
PlaceStringTight ==
    /\ load.phase = "strings" /\ load.at <= Len(StringsOf(load.call))
    /\ LET string == StringsOf(load.call)[load.at]
           start == load.cursor - string.length
       IN load' = IF string.nul \/ start < StackTop - StackBytes THEN Rejected
                  ELSE [load EXCEPT !.at = @ + 1, !.cursor = start, !.strings = Append(@, start)]

(* place_string: a string and the byte that ends it.                        *)
PlaceString ==
    /\ load.phase = "strings" /\ load.at <= Len(StringsOf(load.call))
    /\ LET string == StringsOf(load.call)[load.at]
           start == load.cursor - string.length - 1
       IN load' = IF string.nul \/ start < StackTop - StackBytes THEN Rejected
                  ELSE [load EXCEPT !.at = @ + 1, !.cursor = start, !.strings = Append(@, start)]
PlaceWords ==
    /\ load.phase = "strings" /\ load.at > Len(StringsOf(load.call))
    /\ LET pointer == DownTo(load.cursor - WordCount(load.call) * WordBytes, 2 * WordBytes)
           words == pointer .. pointer + WordCount(load.call) * WordBytes - 1
       IN load' = IF pointer < StackTop - StackBytes \/ ~(words \subseteq DOMAIN load.memory) THEN Rejected
                  ELSE [load EXCEPT !.stack = pointer, !.words = WordCount(load.call), !.at = 1,
                                    !.memory = [a \in DOMAIN @ |-> IF a \in words THEN Word ELSE @[a]],
                                    !.phase = IF load.image.type = "dyn" THEN "dynamic" ELSE "ready"]

-----------------------------------------------------------------------------
(* dynamic::parse: the headers,                                             *)
BadTls(l, h) ==
    \/ h.size > h.memory \/ h.memory > MaxTls \/ ~h.aligned \/ h.offset + h.size > l.image.length
    \/ ~ContainsAddress(l, l.image.bias + h.vaddr, h.memory)
TableAt(l, vaddr, size) ==
    [address |-> l.image.bias + vaddr, size |-> size, offset |-> FileOffset(l, l.image.bias + vaddr, size)]
DynamicHeader ==
    /\ load.phase = "dynamic" /\ load.at <= Len(load.image.headers)
    /\ LET h == load.image.headers[load.at]
       IN load' = IF h.kind = "dynamic"
                  THEN (IF load.dynamic # <<>> THEN Rejected ELSE [load EXCEPT !.dynamic = <<h>>, !.at = @ + 1])
                  ELSE IF h.kind = "tls"
                  THEN (IF BadTls(load, h) THEN Rejected
                        ELSE [load EXCEPT !.at = @ + 1,
                                !.tls = <<[address |-> load.image.bias + h.vaddr, memory |-> h.memory]>>])
                  ELSE [load EXCEPT !.at = @ + 1]
DynamicTable ==
    /\ load.phase = "dynamic" /\ load.at > Len(load.image.headers)
    /\ load' = IF load.dynamic = <<>> THEN [load EXCEPT !.phase = "ready"]
               ELSE LET h == load.dynamic[1]
                        t == TableAt(load, h.vaddr, h.size)
                    IN  IF \/ h.size = 0 \/ h.size > MaxTags * TagBytes \/ h.size % TagBytes # 0
                           \/ h.size > h.memory \/ t.offset = Nowhere
                        THEN Rejected
                        ELSE [load EXCEPT !.phase = "tags", !.at = 1, !.tables = {t}]

(* the tags, of which a later one replaces an earlier,                      *)
DynamicTag ==
    /\ load.phase = "tags"
    /\ LET t == CHOOSE table \in load.tables : TRUE
           e == EntryAt(load, t.offset + (load.at - 1) * TagBytes)
       IN load' = IF (load.at - 1) * TagBytes = t.size THEN Rejected
                  ELSE IF e.tag = "null" THEN [load EXCEPT !.phase = "tables", !.at = 1]
                  ELSE IF e.tag = "needed" /\ Len(load.needed) = MaxNeeded THEN Rejected
                  ELSE [load EXCEPT !.at = @ + 1,
                                    !.needed = IF e.tag = "needed" THEN Append(@, e.value) ELSE @,
                                    !.rel = @ \/ e.tag = "rel",
                                    !.tags = [tag \in TagNames |-> IF tag = e.tag THEN <<e.value>> ELSE @[tag]]]

(* the strings and symbols the tags lead to, with the symbols counted by    *)
(* the hash table: SysV has the number, GNU only chains that end,           *)
StringTable(l) == TableAt(l, l.tags.strtab[1], l.tags.strsz[1])
BadStrings(l) ==
    IF l.tags.strtab # <<>> /\ l.tags.strsz # <<>>
    THEN l.tags.strsz[1] > MaxTable \/ StringTable(l).offset = Nowhere
    ELSE l.tags.strtab # <<>> \/ l.tags.strsz # <<>> \/ l.needed # <<>> \/ l.tags.soname # <<>>
BadString(l, offset) ==
    LET t == StringTable(l)
    IN  offset >= t.size \/ (t.offset + offset .. t.offset + t.size - 1) \cap l.image.nul = {}
HashAt(l, tag) == EntryAt(l, FileOffset(l, l.image.bias + l.tags[tag][1], HashBytes))
NoHash(l, tag, size) == FileOffset(l, l.image.bias + l.tags[tag][1], size) = Nowhere
SysvCount(l) ==
    IF NoHash(l, "hash", HashBytes) THEN Nowhere
    ELSE LET h == HashAt(l, "hash")
         IN  IF h.symbols > MaxSymbols \/ NoHash(l, "hash", HashBytes + h.buckets + h.symbols) THEN Nowhere
             ELSE h.symbols
ChainEnds(h, bucket) == {n \in bucket .. h.first + MaxSymbols - 1 : n - h.first \in h.stops}
ChainEnd(h, bucket) == CHOOSE n \in ChainEnds(h, bucket) : \A m \in ChainEnds(h, bucket) : n <= m
NoChain(l, h, n) ==
    FileOffset(l, l.image.bias + l.tags.gnuhash[1] + HashBytes + h.bloom + Len(h.chained) + n - h.first, 1) = Nowhere
GnuCount(l) ==
    IF NoHash(l, "gnuhash", HashBytes) THEN Nowhere
    ELSE LET h == HashAt(l, "gnuhash")
             chains == {h.chained[k] : k \in 1 .. Len(h.chained)} \ (0 .. h.first - 1)
             last == {ChainEnd(h, b) : b \in chains}
         IN  IF \/ Len(h.chained) > MaxBuckets \/ h.bloom = 0 \/ h.bloom > MaxBloom
                \/ NoHash(l, "gnuhash", HashBytes + h.bloom + Len(h.chained))
                \/ \E b \in chains : ChainEnds(h, b) = {} \/ \E n \in b .. ChainEnd(h, b) : NoChain(l, h, n)
             THEN Nowhere
             ELSE IF chains = {} THEN 0 ELSE 1 + CHOOSE n \in last : \A m \in last : m <= n
SymbolCount(l) ==
    IF l.tags.symtab = <<>> THEN 0
    ELSE IF l.tags.syment # <<EntryBytes>> THEN Nowhere
    ELSE IF l.tags.hash # <<>> THEN SysvCount(l)
    ELSE IF l.tags.gnuhash # <<>> THEN GnuCount(l) ELSE Nowhere
SymbolTable(l) == TableAt(l, l.tags.symtab[1], SymbolCount(l) * EntryBytes)
DynamicTables ==
    /\ load.phase = "tables"
    /\ LET symbols == SymbolCount(load)
           names == load.needed \o load.tags.soname
           bad == \/ BadStrings(load) \/ symbols = Nowhere
                  \/ (load.tags.symtab # <<>> /\
                        (symbols * EntryBytes > MaxTable \/ SymbolTable(load).offset = Nowhere))
                  \/ (\E k \in 1 .. Len(names) : BadString(load, names[k])) \/ load.rel
       IN load' = IF bad THEN Rejected
                  ELSE [load EXCEPT !.phase = "rela", !.at = 0, !.symbols = symbols,
                          !.tables = @ \cup (IF load.tags.strtab # <<>> THEN {StringTable(load)} ELSE {})
                                       \cup (IF load.tags.symtab # <<>> THEN {SymbolTable(load)} ELSE {})]

(* and the relocations: DT_RELA, then DT_JMPREL.  at = 0 is the check of    *)
(* the table.                                                               *)
Given(l, tag) == l.tags[tag] # <<>>
Region(l) == IF l.phase = "rela" THEN [address |-> l.tags.rela, size |-> l.tags.relasz, entry |-> l.tags.relaent]
             ELSE [address |-> l.tags.jmprel, size |-> l.tags.pltrelsz,
                   entry |-> IF Given(l, "relaent") THEN l.tags.relaent ELSE <<EntryBytes>>]
Absent(l) == Region(l).address = <<>>
Stray(l) == IF l.phase = "rela" THEN Given(l, "relasz") \/ Given(l, "relaent")
            ELSE Given(l, "pltrelsz") \/ Given(l, "pltrel")
BadRegion(l) ==
    \/ (l.phase = "plt" /\ l.tags.pltrel # <<RelaFormat>>) \/ Region(l).size = <<>>
    \/ Region(l).entry # <<EntryBytes>> \/ Region(l).size[1] % EntryBytes # 0
    \/ TableAt(l, Region(l).address[1], Region(l).size[1]).offset = Nowhere
BadRelocation(l, e) ==
    \/ Len(l.relocations) = MaxRelocations
    \/ ~ContainsAddress(l, l.image.bias + e.target, WordBytes)
    \/ (e.symbol >= l.symbols /\ e.symbol # 0)
    \/ ~e.supported
NextRegion(l) == IF l.phase = "rela" THEN [l EXCEPT !.phase = "plt", !.at = 0] ELSE [l EXCEPT !.phase = "ready"]
Relocations ==
    /\ load.phase \in {"rela", "plt"} /\ load.at = 0
    /\ load' = IF Absent(load) THEN (IF Stray(load) THEN Rejected ELSE NextRegion(load))
               ELSE IF BadRegion(load) THEN Rejected ELSE [load EXCEPT !.at = 1]
AppendRelocation ==
    /\ load.phase \in {"rela", "plt"} /\ load.at > 0
    /\ LET r == Region(load)
           t == TableAt(load, r.address[1], r.size[1])
           e == EntryAt(load, t.offset + (load.at - 1) * EntryBytes)
       IN load' = IF (load.at - 1) * EntryBytes = r.size[1]
                  THEN NextRegion([load EXCEPT !.tables = @ \cup {t}])
                  ELSE IF BadRelocation(load, e) THEN Rejected
                  ELSE [load EXCEPT !.at = @ + 1, !.relocations = Append(@, load.image.bias + e.target)]

LoaderNext == \/ Start \/ ParseHeader \/ ParseDone \/ MapSegment \/ StartStack \/ PlaceString \/ PlaceWords
              \/ DynamicHeader \/ DynamicTable \/ DynamicTag \/ DynamicTables
              \/ Relocations \/ AppendRelocation

-----------------------------------------------------------------------------
(* An image that was accepted is in memory as the plan says: every segment  *)
(* holds its bytes of the file and zeros after them, no page of it lost to  *)
(* another segment, none writable and executable, the entry point in an     *)
(* executable one; and every table dynamic::parse read from the file is     *)
(* byte for byte what the program finds at its address, with the            *)
(* relocation targets and the TLS image inside the segments, and nothing of *)
(* it overwritten by the stack (elf::parse, prepare_internal, map_stack,    *)
(* load_words, dynamic::parse, append_relocations).                         *)
SegmentMemory(l) == UNION {l.segments[k].start .. l.segments[k].end - 1 : k \in 1 .. Len(l.segments)}
ImageAsPlanned ==
    load.phase = "ready" =>
        /\ \A k \in 1 .. Len(load.segments) :
             LET s == load.segments[k]
             IN  /\ s.write => ~s.execute
                 /\ \A a \in s.start .. s.end - 1 :
                      load.memory[a] = IF a - s.start < s.size THEN s.offset + a - s.start ELSE Zero
        /\ \E s \in {load.segments[k] : k \in 1 .. Len(load.segments)} :
             s.execute /\ load.image.bias + load.image.entry \in s.start .. s.end - 1
        /\ \A t \in load.tables : \A i \in 0 .. t.size - 1 : load.memory[t.address + i] = t.offset + i
        /\ \A k \in 1 .. Len(load.relocations) :
             load.relocations[k] .. load.relocations[k] + WordBytes - 1 \subseteq SegmentMemory(load)
        /\ load.tls # <<>> => load.tls[1].address .. load.tls[1].address + load.tls[1].memory - 1
                                \subseteq SegmentMemory(load)

(* The initial stack of an accepted image fits its StackBytes: the words    *)
(* lie aligned below the room of every string, are in memory there and      *)
(* nowhere else, and no two strings share a byte (InitialStack::build,      *)
(* place_string, load_words).                                               *)
StackLaidOut ==
    load.phase \in {"dynamic", "ready"} =>
        LET strings == StringsOf(load.call)
            Bytes(k) == load.strings[k] .. load.strings[k] + strings[k].length
            words == load.stack .. load.stack + load.words * WordBytes - 1
        IN  /\ load.stack % (2 * WordBytes) = 0
            /\ words \subseteq StackTop - StackBytes .. StackTop - 1
            /\ words = {a \in DOMAIN load.memory : load.memory[a] = Word}
            /\ \A j \in 1 .. Len(strings) :
                 /\ Bytes(j) \subseteq StackTop - StackBytes .. StackTop - 1
                 /\ Bytes(j) \cap words = {}
                 /\ \A k \in 1 .. j - 1 : Bytes(j) \cap Bytes(k) = {}
=============================================================================
