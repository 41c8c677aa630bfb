------------------------------- MODULE Memory -------------------------------
(***************************************************************************)
(* The physical frame allocator of src/memory.rs.  Frames are numbered in  *)
(* the order in which the ranges of the boot memory map hand them out;     *)
(* frames that come back are kept on a bounded stack and go out first.     *)
(* Which of them goes out next makes no difference to its users: the stack *)
(* is a set here.  Frame 0 stands for no frame.                            *)
(***************************************************************************)
EXTENDS Naturals, FiniteSets, Sequences, SequencesExt

CONSTANTS
    TotalFrames,    \* frames in all ranges
    MaxReturned     \* MAX_RETURNED_FRAMES, 128

ASSUME MemoryAssumption == TotalFrames \in Nat /\ MaxReturned \in Nat

Frames == 1 .. TotalFrames

\* next: frames 1 .. next - 1 were handed out at least once.  refused is a
\* history of free_frame failing because the stack was full, leaked one of the
\* frames that their user forgot.
NewMemory == [returned |-> {}, next |-> 1, refused |-> FALSE, leaked |-> {}]

CanAlloc(mem) == mem.returned # {} \/ mem.next <= TotalFrames

NextFrame(mem) == IF mem.returned # {} THEN CHOOSE f \in mem.returned : TRUE ELSE mem.next

AfterAlloc(mem) ==
    IF mem.returned # {} THEN [mem EXCEPT !.returned = @ \ {NextFrame(mem)}]
    ELSE [mem EXCEPT !.next = @ + 1]

FreeOk(mem, f) == Cardinality(mem.returned) < MaxReturned /\ f \notin mem.returned

AfterFree(mem, f) ==
    IF FreeOk(mem, f) THEN [mem EXCEPT !.returned = @ \cup {f}]
    ELSE [mem EXCEPT !.refused = @ \/ Cardinality(mem.returned) = MaxReturned]

\* Every frame of a set, going on after a failure.
AfterFreeAll(mem, fs) == FoldLeft(AfterFree, mem, SetToSeq(fs))

\* Every frame of a sequence, up to the first failure.
FreeUntilRefused(mem, fs) ==
    FoldLeft(LAMBDA acc, f : [mem |-> IF acc.ok THEN AfterFree(acc.mem, f) ELSE acc.mem,
                              ok |-> acc.ok /\ FreeOk(acc.mem, f)],
             [mem |-> mem, ok |-> TRUE], fs)

\* Frames handed out and not returned.
InUse(mem) == (1 .. mem.next - 1) \ mem.returned
=============================================================================
