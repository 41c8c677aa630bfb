---------------------------- MODULE AddressSpace ----------------------------
(***************************************************************************)
(* The operations of src/address_space.rs on one address space, as         *)
(* functions of the allocator and of the space: each gives the allocator   *)
(* and the space afterwards and whether it succeeded.                      *)
(*                                                                         *)
(* Virtual addresses are page numbers 1 .. LastPage, the stack ends below  *)
(* StackTop and grows down; page 0 stands for no page.  Page flags are     *)
(* left out.  A space that is active is installed in the hardware: hw is   *)
(* the set of pages present there, and mapping a page may need new table   *)
(* frames.  They stay until the space is destroyed, in a list of MaxTables *)
(* entries; what the list has no room for is lost.                         *)
(***************************************************************************)
EXTENDS Memory, FiniteSetsExt

CONSTANTS
    LastPage, StackTop,
    MaxMappings,            \* MAX_MAPPINGS, 64
    InitialStackPages,      \* INITIAL_STACK_PAGES, 2
    MaxStackPages,          \* MAX_STACK_PAGES, 8
    MaxTables               \* MAX_TABLE_FRAMES, 192

ASSUME SpaceAssumption ==
    /\ LastPage \in Nat /\ StackTop \in 1 .. LastPage
    /\ MaxMappings \in Nat \ {0}
    /\ InitialStackPages \in Nat \ {0} /\ InitialStackPages < StackTop
    /\ MaxStackPages \in Nat
    /\ MaxTables \in Nat

\* A destroyed space, and one that was never created.
NoSpace ==
    [root |-> 0, maps |-> [s \in {} |-> 0], guard |-> 0, stack |-> 0,
     active |-> FALSE, hw |-> {}, tables |-> {}]

MapSlots(sp) == DOMAIN sp.maps
SlotOf(sp, page) == {s \in MapSlots(sp) : sp.maps[s].page = page}
Mapped(sp) == {sp.maps[s].page : s \in MapSlots(sp)}

\* The frames of the mappings, in slot order.
MappedFrames(sp) ==
    LET order == SetToSortSeq(MapSlots(sp), <) IN
    [i \in DOMAIN order |-> sp.maps[order[i]].frame]

\* Every frame the space holds, as a sequence: a frame held twice shows.
Held(sp) ==
    MappedFrames(sp) \o SetToSeq(sp.tables) \o (IF sp.root = 0 THEN <<>> ELSE <<sp.root>>)

Result(mem, sp, ok) == [mem |-> mem, sp |-> sp, ok |-> ok]

NewSpace(mem) ==
    IF CanAlloc(mem)
    THEN Result(AfterAlloc(mem), [NoSpace EXCEPT !.root = NextFrame(mem)], TRUE)
    ELSE Result(mem, NoSpace, FALSE)

-----------------------------------------------------------------------------
(* Hardware tables *)

\* What user_space_map meets on its way to a leaf: how many tables are missing
\* and whether it ends at an entry it may not use (a large or kernel page).
Paths == [new : 0 .. MaxTables + 1, blocked : BOOLEAN]

\* A space that is not installed needs none.
NoPath == [new |-> 0, blocked |-> FALSE]
PathsOf(sp) == IF sp.active THEN Paths ELSE {NoPath}

\* allocate_user_table: a frame for which the list has no entry left is not
\* returned to the allocator.
AddTable(mem, sp) ==
    IF ~CanAlloc(mem) THEN Result(mem, sp, FALSE)
    ELSE IF Cardinality(sp.tables) < MaxTables
    THEN Result(AfterAlloc(mem), [sp EXCEPT !.tables = @ \cup {NextFrame(mem)}], TRUE)
    ELSE Result([AfterAlloc(mem) EXCEPT !.leaked = @ \cup {NextFrame(mem)}], sp, FALSE)

\* Table frames that user_space_map got before it failed stay in the space's
\* list.
AddTables(mem, sp, path) ==
    LET tabled == FoldLeft(LAMBDA acc, i : IF acc.ok THEN AddTable(acc.mem, acc.sp) ELSE acc,
                           Result(mem, sp, TRUE), [i \in 1 .. path.new |-> i])
    IN  [tabled EXCEPT !.ok = @ /\ ~path.blocked]

ReleaseTables(mem, sp) ==
    Result(AfterFreeAll(mem, sp.tables), [sp EXCEPT !.tables = {}], TRUE)

-----------------------------------------------------------------------------
(* Mapping and unmapping *)

WithMapping(sp, page, frame, kind) ==
    LET slot == Min((1 .. MaxMappings) \ MapSlots(sp)) IN
    [sp EXCEPT !.maps = [s \in DOMAIN @ \cup {slot} |->
        IF s = slot THEN [page |-> page, frame |-> frame, kind |-> kind] ELSE @[s]]]

WithoutMapping(sp, page) ==
    [sp EXCEPT !.maps = [s \in {x \in DOMAIN @ : @[x].page # page} |-> @[s]]]

MayMap(mem, sp, page, kind) ==
    /\ sp.root # 0
    /\ page \in 1 .. LastPage
    /\ ~(page = sp.guard /\ kind # "stack")
    /\ page \notin Mapped(sp)
    /\ Cardinality(MapSlots(sp)) < MaxMappings
    /\ CanAlloc(mem)

\* Mutation: the frame of a page that could not be installed is kept.
InstalledLeaks(tabled, mapped, page, frame) ==
    IF tabled.ok
    THEN Result(tabled.mem,
                [mapped EXCEPT !.tables = tabled.sp.tables, !.hw = @ \cup {page}], TRUE)
    ELSE tabled

\* The end of map_page on an active space, after user_space_map; a failure
\* takes the mapping back.
Installed(tabled, mapped, page, frame) ==
    IF tabled.ok
    THEN Result(tabled.mem,
                [mapped EXCEPT !.tables = tabled.sp.tables, !.hw = @ \cup {page}], TRUE)
    ELSE Result(AfterFree(tabled.mem, frame), tabled.sp, FALSE)

MapPage(mem, sp, page, kind, path) ==
    IF ~MayMap(mem, sp, page, kind) THEN Result(mem, sp, FALSE)
    ELSE IF ~sp.active
    THEN Result(AfterAlloc(mem), WithMapping(sp, page, NextFrame(mem), kind), TRUE)
    ELSE Installed(AddTables(AfterAlloc(mem), sp, path),
                   WithMapping(sp, page, NextFrame(mem), kind), page, NextFrame(mem))

\* remove_mapping; a frame that cannot be returned keeps its mapping, but the
\* page has left the hardware.
RemoveMapping(mem, sp, page) ==
    LET frame == sp.maps[CHOOSE s \in SlotOf(sp, page) : TRUE].frame
        unmapped == [sp EXCEPT !.hw = @ \ {page}] IN
    IF SlotOf(sp, page) = {} \/ (sp.active /\ page \notin sp.hw) THEN Result(mem, sp, FALSE)
    ELSE IF ~FreeOk(mem, frame) THEN Result(AfterFree(mem, frame), unmapped, FALSE)
    ELSE Result(AfterFree(mem, frame), WithoutMapping(unmapped, page), TRUE)

\* unmap_page refuses stack pages.
UnmapPage(mem, sp, page) ==
    IF \E s \in SlotOf(sp, page) : sp.maps[s].kind = "stack" THEN Result(mem, sp, FALSE)
    ELSE RemoveMapping(mem, sp, page)

\* Pages first .. first + n - 1 upwards until one cannot be mapped; done are
\* those that were.
AlsoMapped(r, page, done) ==
    [mem |-> r.mem, sp |-> r.sp, ok |-> r.ok, done |-> IF r.ok THEN Append(done, page) ELSE done]

MapRun(mem, sp, first, n, kind, path) ==
    FoldLeft(LAMBDA acc, i :
                 IF acc.ok
                 THEN AlsoMapped(MapPage(acc.mem, acc.sp, first + i - 1, kind, path),
                                 first + i - 1, acc.done)
                 ELSE acc,
             [mem |-> mem, sp |-> sp, ok |-> TRUE, done |-> <<>>],
             [i \in 1 .. n |-> i])

\* Undo(mem, sp, page) on pages in the given order, whatever becomes of each.
RemoveRun(mem, sp, pages, Undo(_, _, _)) ==
    FoldLeft(LAMBDA acc, page : Undo(acc.mem, acc.sp, page),
             Result(mem, sp, FALSE), pages)

FirstStackPage == StackTop - InitialStackPages

StackMapped(run) ==
    IF run.ok
    THEN Result(run.mem, [run.sp EXCEPT !.stack = InitialStackPages,
                                        !.guard = FirstStackPage - 1], TRUE)
    ELSE [RemoveRun(run.mem, run.sp, run.done, RemoveMapping) EXCEPT !.ok = FALSE]

MapStack(mem, sp) ==
    IF sp.stack # 0 \/ sp.root = 0 THEN Result(mem, sp, FALSE)
    ELSE StackMapped(MapRun(mem, sp, FirstStackPage, InitialStackPages, "stack", NoPath))

Grown(r) == IF r.ok THEN [r EXCEPT !.sp.stack = @ + 1, !.sp.guard = @ - 1] ELSE r

\* A fault on the guard page maps it and moves the guard down.
GrowStack(mem, sp, page, path) ==
    IF sp.guard = 0 \/ page # sp.guard \/ sp.stack = MaxStackPages THEN Result(mem, sp, FALSE)
    ELSE Grown(MapPage(mem, sp, page, "stack", path))

-----------------------------------------------------------------------------
(* Activation and destruction *)

Activated(tabled) ==
    IF tabled.ok THEN [tabled EXCEPT !.sp.active = TRUE, !.sp.hw = Mapped(tabled.sp)]
    ELSE [ReleaseTables(tabled.mem, tabled.sp) EXCEPT !.ok = FALSE]

\* All mappings are installed, along path altogether; a failure clears the
\* hardware and returns the tables.
Activate(mem, sp, path) ==
    IF sp.root = 0 \/ sp.active THEN Result(mem, sp, FALSE)
    ELSE Activated(AddTables(mem, sp, path))

\* The end of destroy: the guard and the stack size are cleared last.
RootFreed(mem, sp) ==
    IF FreeOk(mem, sp.root) THEN Result(AfterFree(mem, sp.root), NoSpace, TRUE)
    ELSE Result(AfterFree(mem, sp.root),
                [NoSpace EXCEPT !.guard = sp.guard, !.stack = sp.stack], FALSE)

\* The rest of destroy, once mapped frames were returned up to the first that
\* was refused; the mappings stay then.
MappingsFreed(freed, sp) ==
    IF freed.ok THEN RootFreed(AfterFreeAll(freed.mem, sp.tables), sp)
    ELSE Result(freed.mem, [sp EXCEPT !.active = FALSE, !.hw = {}], FALSE)

Destroy(mem, sp) ==
    IF sp.root = 0 THEN Result(mem, sp, FALSE)
    ELSE MappingsFreed(FreeUntilRefused(mem, MappedFrames(sp)), sp)
=============================================================================
