------------------------------ MODULE WarmLog ------------------------------
(***************************************************************************)
(* The warm-reboot log of src/crash.rs: a ring of records in EFI variables *)
(* (one per slot) and, on x86_64, the newest record in CMOS as well.       *)
(*                                                                         *)
(* Each set_variable call and each end of the CMOS byte loop is a step, so *)
(* that power can fail, and the kernel panic, between them.  A panic       *)
(* abandons the write it interrupts and writes its own record; it never    *)
(* returns.  A record is its state and sequence number; kind, code and     *)
(* arguments travel with it.  One variable is written as a whole (the      *)
(* firmware's promise); a CMOS record written in part does not decode (the *)
(* checksum).  Any firmware call may fail, reads included: a variable that *)
(* cannot be read is a slot of zeros, and is written back as one.          *)
(***************************************************************************)
EXTENDS Naturals, FiniteSets, FiniteSetsExt

CONSTANTS
    Records,        \* RECORDS
    MaxSequence     \* sequence numbers used (bound of the model)

ASSUME WarmLogAssumption == Records \in Nat \ {0} /\ MaxSequence \in Nat \ {0}

Slots == 0 .. Records - 1
States == {"booting", "checkpoint", "ready", "panic"}
None == [state |-> "none", seq |-> 0]       \* bytes that decode refuses
Record == [state : States, seq : 1 .. MaxSequence]
Empty == [s \in Slots |-> None]

VARIABLES
    efi,            \* the EFI variables
    cmos,           \* the CMOS record
    hasEfi,         \* the firmware gave runtime services
    hasCmos,        \* the build is for x86_64
    pc,             \* where the writer is
    stage,          \* the next record main writes
    sector,         \* the sector being written
    next,           \* the EFI variable to be set next
    efiOk,          \* the EFI half of the write succeeded so far
    panicActive,    \* PANIC_ACTIVE
    committed,      \* history: the last record whose commit was reported
    trusted,        \* history: committed was read back, and no set_variable call
                    \*   has been dropped since
    lastOk,         \* history: the last append was reported as committed
    missed,         \* history: an append did not see the newest record stored, and
                    \*   no committed sector has replaced every variable since
    gaps            \* history: an append did not see every record in the variables

warmVars == <<efi, cmos, hasEfi, hasCmos, pc, stage, sector, next, efiOk,
              panicActive, committed, trusted, lastOk, missed, gaps>>
store == <<efi, cmos>>
history == <<committed, trusted, lastOk, missed, gaps>>
platform == <<hasEfi, hasCmos>>

\* The writer's locals are gone when it returned, or never does.
NoLocals == sector' = Empty /\ next' = 0 /\ efiOk' = FALSE

WarmInit ==
    /\ efi = Empty /\ cmos = None
    /\ hasEfi \in BOOLEAN /\ hasCmos \in BOOLEAN
    /\ pc = "idle" /\ stage = "init"
    /\ sector = Empty /\ next = 0 /\ efiOk = FALSE
    /\ panicActive = FALSE
    /\ committed = None /\ trusted = FALSE /\ lastOk = FALSE
    /\ missed = FALSE /\ gaps = FALSE

-----------------------------------------------------------------------------
(* The sector *)

Written(s) == {k \in Slots : s[k] # None}
LatestSeq(s) == Max({s[k].seq : k \in Slots})

\* latest_record: of several with the largest sequence, the last.
Latest(s) == Max({k \in Written(s) : s[k].seq = LatestSeq(s)})

\* Mutant: the latest record is overwritten.
NextSlotSame(s) == IF Written(s) = {} THEN 0 ELSE Latest(s)
NextSlot(s) == IF Written(s) = {} THEN 0 ELSE (Latest(s) + 1) % Records

\* append_record after the latest one, with the following sequence number.
Appended(s, state) ==
    [k \in Slots \cup {NextSlot(s)} |->
        IF k = NextSlot(s) THEN [state |-> state, seq |-> LatestSeq(s) + 1] ELSE s[k]]

\* The newest record of a sector.
Best(s) == IF Written(s) = {} THEN None ELSE s[Latest(s)]

\* cmos_read: a sector without a record where there is none.
CmosSector == IF hasCmos THEN [Empty EXCEPT ![0] = cmos] ELSE Empty

\* What the variables hold, and efi_read: get_variable may fail for any of them,
\* prepare_firmware_runtime for all; what was not read is zero.
EfiSector == IF hasEfi THEN efi ELSE Empty
EfiReads == {[k \in Slots |-> IF k \in got THEN EfiSector[k] ELSE None] : got \in SUBSET Slots}

\* Mutant: EFI is preferred whenever it holds a record.
ReadEfiFirst(e) == IF Written(e) # {} THEN e ELSE CmosSector
\* read_persistent, where efi_read returned e: EFI only where it holds a later
\* record than CMOS.
ReadPersistent(e) == IF LatestSeq(e) > LatestSeq(CmosSector) THEN e ELSE CmosSector

\* The newest record stored: what init reports if no read fails.
Newest == Best(ReadPersistent(EfiSector))

-----------------------------------------------------------------------------
(* append_current and the writing half of init *)

AppendRecord(state) ==
    \E e \in EfiReads :
        /\ LatestSeq(ReadPersistent(e)) < MaxSequence
        /\ sector' = Appended(ReadPersistent(e), state)
        /\ missed' = (missed \/ Best(ReadPersistent(e)) # Newest)
        /\ gaps' = (gaps \/ e # EfiSector)
        /\ pc' = IF hasEfi THEN "efi" ELSE "cmos"
        /\ next' = 0 /\ efiOk' = FALSE
        /\ lastOk' = FALSE
        /\ UNCHANGED <<store, platform, committed, trusted>>

\* main: init, then mark_checkpoint if init succeeded, later mark_ready.
MainAppend ==
    /\ pc = "idle" /\ stage # "running"
    /\ AppendRecord(CASE stage = "init" -> "booting" [] stage = "checkpoint" -> "checkpoint"
                [] stage = "ready" -> "ready")
    /\ UNCHANGED <<stage, panicActive>>

\* efi_write, one variable; after the last one comes the read-back.
SetVariable ==
    /\ pc = "efi"
    /\ \/ efi' = [efi EXCEPT ![next] = sector[next]] /\ UNCHANGED trusted
       \/ efi' = efi /\ trusted' = FALSE        \* reported, not stored
    /\ next' = next + 1
    /\ pc' = IF next + 1 = Records THEN "verify" ELSE "efi"
    /\ UNCHANGED <<cmos, platform, stage, sector, efiOk, panicActive, committed, lastOk,
                   missed, gaps>>

\* set_variable fails; the remaining ones are not tried.
SetVariableFails ==
    /\ pc = "efi"
    /\ pc' = "cmos" /\ next' = 0
    /\ UNCHANGED <<store, platform, stage, sector, efiOk, panicActive, history>>

\* The read-back may fail as well, or not see that an old record is still there.
Verify ==
    /\ pc = "verify"
    /\ \E e \in EfiReads : efiOk' = (e = sector)
    /\ pc' = "cmos" /\ next' = 0
    /\ UNCHANGED <<store, platform, stage, sector, panicActive, history>>

\* write_persistent returns ok: the caller goes on.
Return(ok) ==
    /\ IF ok THEN committed' = sector[Latest(sector)] /\ trusted' = efiOk
             ELSE UNCHANGED <<committed, trusted>>
    /\ lastOk' = ok
    /\ missed' = (missed /\ ~(ok /\ efi = sector))
    /\ pc' = IF panicActive THEN "halted" ELSE "idle"
    /\ stage' = IF panicActive THEN stage
                ELSE IF stage = "init" THEN (IF ok THEN "checkpoint" ELSE "ready")
                ELSE IF stage = "checkpoint" THEN "ready" ELSE "running"
    /\ NoLocals
    /\ UNCHANGED <<efi, platform, panicActive, gaps>>

\* cmos_write of the newest record; in between CMOS holds parts of two records.
CmosBegin ==
    /\ pc = "cmos" /\ hasCmos
    /\ cmos' = None
    /\ pc' = "cmosEnd"
    /\ UNCHANGED <<efi, platform, stage, sector, next, efiOk, panicActive, history>>
CmosEnd ==
    /\ pc = "cmosEnd"
    /\ cmos' = sector[Latest(sector)]
    /\ Return(TRUE)
NoCmos ==
    /\ pc = "cmos" /\ ~hasCmos
    /\ UNCHANGED cmos
    /\ Return(efiOk)

\* fatal: only the first panic writes a record.
Panic ==
    /\ pc # "halted" /\ ~panicActive
    /\ panicActive' = TRUE
    /\ AppendRecord("panic")
    /\ UNCHANGED stage
PanicAgain ==
    /\ pc # "halted" /\ panicActive
    /\ pc' = "halted" /\ NoLocals
    /\ UNCHANGED <<store, platform, stage, panicActive, history>>

\* Power fails or the machine is reset, and the kernel boots.
Reset ==
    /\ pc' = "idle" /\ stage' = "init" /\ panicActive' = FALSE
    /\ NoLocals
    /\ UNCHANGED <<store, platform, history>>

WarmNext ==
    \/ MainAppend \/ SetVariable \/ SetVariableFails \/ Verify
    \/ CmosBegin \/ CmosEnd \/ NoCmos
    \/ Panic \/ PanicAgain \/ Reset

WarmSpec == WarmInit /\ [][WarmNext]_warmVars

-----------------------------------------------------------------------------
(* Properties *)

\* As long as no append missed the newest record because it could not be read:
\* between two appends, and after a panic halted the machine, the newest record
\* stored is the one that append_current last reported as committed, so that a
\* committed panic is what the next init reports.  And neither a write cut off
\* at any point by a reset or a panic, nor older records that could not be read
\* and are written back as zeros, take the last committed record with them:
\* that record or a later one is still the newest.  Only if the record was in
\* CMOS alone can a half-written CMOS lose it.
CommittedSurvives ==
    ~missed =>
        /\ pc \in {"idle", "halted"} /\ lastOk => Newest = committed
        /\ trusted \/ (hasCmos /\ cmos # None) =>
            /\ Newest.seq >= committed.seq
            /\ Newest.seq = committed.seq => Newest = committed

\* Without CMOS, and whatever calls failed, record q of the log is in slot
\* (q - 1) % Records, so that no two variables claim the same place in the log.
\* As long as every read was complete, the variables are the end of the log:
\* going back from the latest slot the sequence numbers fall by one, whatever
\* set_variable calls failed, were dropped or were cut off.
RingIntact ==
    ~hasCmos =>
        /\ \A k \in Written(efi) : (efi[k].seq - 1) % Records = k
        /\ ~gaps =>
            \A k \in 0 .. Records - 1 :
                LatestSeq(efi) > k =>
                    efi[(Latest(efi) + Records - k) % Records].seq = LatestSeq(efi) - k

=============================================================================
